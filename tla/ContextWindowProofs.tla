-------------------------- MODULE ContextWindowProofs --------------------------
(***************************************************************************)
(* What ContextWindow promises, for every budget, all message lengths and  *)
(* histories of any length: one checkpoint at most, no phase that starts   *)
(* with a pruned history, and what pruned_messages and build_messages make *)
(* of a history.                                                           *)
(*                                                                         *)
(* A sum over a set has no closed form the provers know.  It is counted    *)
(* instead: the length of some messages is the number of their bytes,      *)
(* which LengthCounts shows by taking a smallest set of places for which   *)
(* it is not.                                                              *)
(***************************************************************************)
EXTENDS ContextWindow, FiniteSetTheorems, TLAPS

\* The inductive invariant: right after a compression the loop is at its top
\* and the summary is all there is; an agent is at work on some history, and
\* only Init is without one.
WInv ==
    /\ TypeOK
    /\ OneCheckpoint
    /\ me # "none" \/ state # "Init" => messages # << >>
    /\ justCompressed => /\ me = "none"
                         /\ Len(messages) = 1
                         /\ messages[1].sender = "System"

\* A message by anyone appended to a history gives a history, whose checkpoints
\* stay where they were unless it is the first or a System message.
LEMMA Appended ==
    ASSUME NEW h \in Seq(Messages), NEW sender \in Senders,
           NEW g \in Add(h, sender)
    PROVE  /\ g \in Seq(Messages)
           /\ Len(g) = Len(h) + 1
           /\ g[Len(g)].sender = sender
           /\ \A i \in DOMAIN h : g[i] = h[i]
           /\ sender # "System" => Checkpoints(g) = Checkpoints(h)
<1>1. PICK n \in Lengths : g = Append(h, [sender |-> sender, length |-> n])
  BY DEF Add
<1>2. [sender |-> sender, length |-> n] \in Messages
  BY WindowAssumption DEF Messages
<1>3. /\ g \in Seq(Messages)
      /\ Len(g) = Len(h) + 1
      /\ g[Len(g)] = [sender |-> sender, length |-> n]
      /\ \A i \in DOMAIN h : g[i] = h[i]
  BY <1>1, <1>2
<1>4. sender # "System" => Checkpoints(g) = Checkpoints(h)
  BY <1>3 DEF Checkpoints
<1> QED
  BY <1>3, <1>4

\* A message that is no summary leaves the checkpoint where it is.
LEMMA SpokenKeepsCheckpoint ==
    ASSUME TypeOK, OneCheckpoint, NEW sender \in Senders \ {"System"},
           messages' \in Add(messages, sender)
    PROVE  messages' \in Seq(Messages) /\ messages' # << >> /\ OneCheckpoint'
<1>1. /\ messages' \in Seq(Messages)
      /\ Len(messages') = Len(messages) + 1
      /\ Checkpoints(messages') = Checkpoints(messages)
  BY Appended DEF TypeOK
<1>2. messages' # << >>
  BY <1>1 DEF TypeOK
<1> QED
  BY <1>1, <1>2 DEF OneCheckpoint

\* A summary is a history of one checkpoint.
LEMMA SummaryIsHead ==
    ASSUME messages' \in Add(<< >>, "System")
    PROVE  /\ messages' \in Seq(Messages) /\ OneCheckpoint'
           /\ Len(messages') = 1 /\ messages'[1].sender = "System"
<1>1. "System" \in Senders /\ << >> \in Seq(Messages)
  BY DEF Senders
<1>2. /\ messages' \in Seq(Messages)
      /\ Len(messages') = Len(<< >>) + 1
      /\ messages'[Len(messages')].sender = "System"
  BY <1>1, Appended
<1>3. Len(messages') = 1
  BY <1>2
<1> QED
  BY <1>2, <1>3 DEF OneCheckpoint, Checkpoints

\* A run starts with the empty history.
LEMMA WInit == Init => WInv
<1> SUFFICES ASSUME Init PROVE WInv
  OBVIOUS
<1>1. Checkpoints(messages) = {}
  BY DEF Init, Checkpoints
<1>2. messages \in Seq(Messages)
  BY DEF Init
<1> QED
  BY <1>1, <1>2 DEF Init, WInv, TypeOK, OneCheckpoint, States

\* Every step keeps the invariant.
LEMMA WStep == WInv /\ [Next]_vars => WInv'
<1> SUFFICES ASSUME WInv, [Next]_vars PROVE WInv'
  OBVIOUS
<1> USE DEF WInv
<1>0. Agents \subseteq Senders \ {"System"} /\ "Human" \in Senders \ {"System"}
  BY DEF Senders, Agents
<1>a. Resumable \subseteq States /\ "Phase" \in States
  BY DEF States, Resumable
<1>1. CASE TaskArrives
  <2>1. "Orchestrator" \in Senders \ {"System"}
    BY <1>0 DEF Agents
  <2> QED
    BY <1>1, <1>a, <2>1, SpokenKeepsCheckpoint DEF TaskArrives, TypeOK
<1>2. CASE Compress
  <2>1. messages' # << >>
    <3>1. Len(messages') = 1
      BY <1>2, SummaryIsHead DEF Compress
    <3> QED
      BY <3>1
  <2> QED
    BY <1>2, <2>1, SummaryIsHead
       DEF Compress, CompressesTo, MustCompress, TypeOK
<1>3. CASE StartPhase
  BY <1>3 DEF StartPhase, EntersArm, TypeOK, OneCheckpoint
<1>4. CASE LimitReached
  BY <1>4, <1>0, <1>a, SpokenKeepsCheckpoint DEF LimitReached, EntersArm, TypeOK
<1>5. CASE Says
  BY <1>5, <1>0, <1>a, SpokenKeepsCheckpoint DEF Says, TypeOK
<1>6. CASE OutputUnparseable
  <2>1. PICK h \in Add(messages, me) : messages' \in Add(h, "Orchestrator")
    BY <1>6 DEF OutputUnparseable
  <2>2. me \in Senders \ {"System"} /\ "Orchestrator" \in Senders \ {"System"}
    BY <1>6, <1>0 DEF OutputUnparseable, TypeOK, Agents
  <2>3. h \in Seq(Messages) /\ Checkpoints(h) = Checkpoints(messages)
    BY <2>2, Appended DEF TypeOK
  <2>4. /\ messages' \in Seq(Messages) /\ Len(messages') = Len(h) + 1
        /\ Checkpoints(messages') = Checkpoints(h)
    BY <2>1, <2>2, <2>3, Appended
  <2>5. messages' # << >>
    BY <2>3, <2>4
  <2>6. OneCheckpoint'
    BY <2>3, <2>4, <2>5 DEF OneCheckpoint
  <2> QED
    BY <1>6, <2>4, <2>5, <2>6 DEF OutputUnparseable, TypeOK
<1>7. CASE HumanAnswers
  BY <1>7, <1>0, <1>a, SpokenKeepsCheckpoint DEF HumanAnswers, TypeOK
<1>8. CASE TurnEnds
  BY <1>8, <1>0, <1>a, SpokenKeepsCheckpoint DEF TurnEnds, TypeOK, Agents
<1>9. CASE UNCHANGED vars
  BY <1>9 DEF vars, TypeOK, OneCheckpoint
<1> QED
  BY <1>1, <1>2, <1>3, <1>4, <1>5, <1>6, <1>7, <1>8, <1>9 DEF Next

\* A history has one checkpoint at most, at its head, however often it is
\* compressed (reset_with_summary).
THEOREM CheckpointAlone == Spec => [](TypeOK /\ OneCheckpoint)
<1>1. WInv => TypeOK /\ OneCheckpoint
  BY DEF WInv
<1> QED
  BY <1>1, WInit, WStep, PTL DEF Spec

\* Every step leaves a history of messages, and a turn only where its agent is
\* named.
THEOREM HistoryTyped == Spec => []TypeOK
BY CheckpointAlone, PTL

\* Where the arm of a phase is entered, nothing is pruned: the history fits, or
\* it is the summary that was just made.
LEMMA UncompressedIsWhole ==
    ASSUME WInv, EntersArm
    PROVE  PrunedMessages(messages) = DOMAIN messages
<1>1. CASE ~Over(messages)
  BY <1>1 DEF PrunedMessages
<1>2. CASE justCompressed
  <2>1. DOMAIN messages = {1} /\ Checkpoints(messages) = {1}
    BY <1>2 DEF WInv, TypeOK, Checkpoints
  <2>2. Recent(messages) \subseteq DOMAIN messages
    BY DEF Recent
  <2> QED
    BY <2>1, <2>2 DEF PrunedMessages
<1> QED
  BY <1>1, <1>2 DEF EntersArm, MustCompress

\* The first agent of a phase is sent the whole history, for every budget: the
\* engine's compression check leaves pruned_messages nothing to prune there.
THEOREM PhasesStartWhole == Spec => PhaseStartsWhole
<1>1. ASSUME WInv, [Next]_vars, me = "none", me' # "none"
      PROVE  PrunedMessages(messages) = DOMAIN messages
  <2>1. StartPhase
    BY <1>1 DEF Next, vars, TaskArrives, Compress, LimitReached, Says,
                OutputUnparseable, HumanAnswers, TurnEnds
  <2> QED
    BY <1>1, <2>1, UncompressedIsWhole DEF StartPhase
<1>2. WInv /\ [Next]_vars =>
          [me = "none" /\ me' # "none" =>
               PrunedMessages(messages) = DOMAIN messages]_vars
  BY <1>1
<1> QED
  BY <1>2, WInit, WStep, PTL DEF Spec, PhaseStartsWhole

-----------------------------------------------------------------------------
(* Lengths *)

\* The bytes of the messages at the given places: message and number.
Bytes(h, places) == {b \in places \X Nat : b[2] \in 1..h[b[1]].length}

\* A set of subsets of a finite set has a smallest member: induction over
\* finite sets in the form in which a set stands for the induction hypothesis.
LEMMA SmallestSubset ==
    ASSUME NEW S, IsFiniteSet(S), NEW T \in SUBSET SUBSET S, T # {}
    PROVE  \E s \in T : \A t \in T : ~(t \subseteq s /\ t # s)
<1>1. IsWellFoundedOn(StrictSubsetOrdering(S), SUBSET S)
  BY FS_StrictSubsetOrderingWellFounded, FS_FiniteSubsetsOfFinite
<1>2. PICK s \in T : \A t \in T : ~(<<t, s>> \in StrictSubsetOrdering(S))
  BY <1>1, WFMin
<1> QED
  BY <1>2 DEF StrictSubsetOrdering

\* A message has as many bytes as its length says ...
LEMMA BytesOfOne ==
    ASSUME NEW h, NEW i, h[i].length \in Nat
    PROVE  /\ IsFiniteSet(Bytes(h, {i}))
           /\ Cardinality(Bytes(h, {i})) = h[i].length
<1>1. Bytes(h, {i}) = {i} \X (1..h[i].length)
  BY DEF Bytes
<1>2. /\ IsFiniteSet({i}) /\ Cardinality({i}) = 1
      /\ IsFiniteSet(1..h[i].length) /\ Cardinality(1..h[i].length) = h[i].length
  <2>1. 1 \in Int /\ h[i].length \in Int /\ h[i].length - 1 + 1 = h[i].length
    OBVIOUS
  <2>2. IsFiniteSet({i}) /\ Cardinality({i}) = 1
    BY FS_Singleton
  <2>3. /\ IsFiniteSet(1..h[i].length)
        /\ Cardinality(1..h[i].length) =
               IF 1 > h[i].length THEN 0 ELSE h[i].length - 1 + 1
    BY <2>1, FS_Interval
  <2> QED
    BY <2>2, <2>3
<1>3. /\ IsFiniteSet({i} \X (1..h[i].length))
      /\ Cardinality({i} \X (1..h[i].length)) = 1 * h[i].length
  <2> DEFINE S == {i}
             T == 1..h[i].length
  <2>1. IsFiniteSet(S) /\ IsFiniteSet(T)
    BY <1>2
  <2>2. Cardinality(S) = 1 /\ Cardinality(T) = h[i].length
    BY <1>2
  <2> HIDE DEF S, T
  <2>3. /\ IsFiniteSet(S \X T)
        /\ Cardinality(S \X T) = Cardinality(S) * Cardinality(T)
    BY <2>1, FS_Product
  <2>4. IsFiniteSet(S \X T) /\ Cardinality(S \X T) = 1 * h[i].length
    BY <2>2, <2>3
  <2> QED
    BY <2>4 DEF S, T
<1>4. 1 * h[i].length = h[i].length
  OBVIOUS
<1> QED
  BY <1>1, <1>3, <1>4, Zenon

\* ... and messages at different places have no byte in common ...
LEMMA BytesJoin ==
    ASSUME NEW h, NEW S, NEW T, S \cap T = {},
           IsFiniteSet(Bytes(h, S)), IsFiniteSet(Bytes(h, T))
    PROVE  /\ IsFiniteSet(Bytes(h, S \cup T))
           /\ Cardinality(Bytes(h, S \cup T)) =
                  Cardinality(Bytes(h, S)) + Cardinality(Bytes(h, T))
<1>1. /\ Bytes(h, S \cup T) = Bytes(h, S) \cup Bytes(h, T)
      /\ Bytes(h, S) \cap Bytes(h, T) = {}
  BY DEF Bytes
<1>2. Cardinality({}) = 0
  BY FS_EmptySet
<1>3. Cardinality(Bytes(h, S)) \in Nat /\ Cardinality(Bytes(h, T)) \in Nat
  BY FS_CardinalityType
<1>4. /\ IsFiniteSet(Bytes(h, S) \cup Bytes(h, T))
      /\ Cardinality(Bytes(h, S) \cup Bytes(h, T)) =
             Cardinality(Bytes(h, S)) + Cardinality(Bytes(h, T))
                 - Cardinality(Bytes(h, S) \cap Bytes(h, T))
  BY FS_Union
<1>5. Cardinality(Bytes(h, S) \cap Bytes(h, T)) = 0
  BY <1>1, <1>2, Zenon
<1>6. Cardinality(Bytes(h, S) \cup Bytes(h, T)) =
          Cardinality(Bytes(h, S)) + Cardinality(Bytes(h, T))
  BY <1>3, <1>4, <1>5
<1> QED
  BY <1>1, <1>4, <1>6, Zenon

\* ... so that finitely many messages have finitely many bytes ...
LEMMA BytesFinite ==
    ASSUME NEW h, NEW S, IsFiniteSet(S), \A i \in S : h[i].length \in Nat
    PROVE  IsFiniteSet(Bytes(h, S))
<1> DEFINE Bad == {s \in SUBSET S : ~IsFiniteSet(Bytes(h, s))}
<1> SUFFICES ASSUME Bad # {} PROVE FALSE
  OBVIOUS
<1>1. PICK s \in Bad : \A t \in Bad : ~(t \subseteq s /\ t # s)
  <2>1. Bad \in SUBSET SUBSET S
    OBVIOUS
  <2> HIDE DEF Bad
  <2> QED
    BY <2>1, SmallestSubset
<1>2. s # {}
  <2>1. Bytes(h, {}) = {}
    BY DEF Bytes
  <2> QED
    BY <2>1, FS_EmptySet
<1>3. PICK x \in s : TRUE
  BY <1>2
<1>4. IsFiniteSet(Bytes(h, s \ {x}))
  BY <1>1, <1>3
<1>5. IsFiniteSet(Bytes(h, {x}))
  BY BytesOfOne, <1>1, <1>3
<1>6. s = (s \ {x}) \cup {x}
  BY <1>3
<1>7. IsFiniteSet(Bytes(h, (s \ {x}) \cup {x}))
  BY <1>4, <1>5, BytesJoin
<1> QED
  BY <1>1, <1>6, <1>7

\* ... whose number unfolds as the fold of LengthAt does.
LEMMA CountUnfolds ==
    ASSUME NEW h, NEW S, IsFiniteSet(S), \A i \in S : h[i].length \in Nat,
           NEW x \in S
    PROVE  Cardinality(Bytes(h, S)) =
               h[x].length + Cardinality(Bytes(h, S \ {x}))
<1>1. IsFiniteSet(Bytes(h, {x})) /\ Cardinality(Bytes(h, {x})) = h[x].length
  BY BytesOfOne
<1>2. IsFiniteSet(S \ {x}) /\ \A i \in S \ {x} : h[i].length \in Nat
  BY FS_RemoveElement
<1>3. IsFiniteSet(Bytes(h, S \ {x}))
  BY <1>2, BytesFinite
<1>4. S = (S \ {x}) \cup {x}
  OBVIOUS
<1>5. Cardinality(Bytes(h, (S \ {x}) \cup {x})) =
          Cardinality(Bytes(h, S \ {x})) + Cardinality(Bytes(h, {x}))
  BY <1>1, <1>3, BytesJoin
<1>6. Cardinality(Bytes(h, S \ {x})) \in Nat
  BY <1>3, FS_CardinalityType
<1>7. h[x].length \in Nat
  OBVIOUS
<1>8. Cardinality(Bytes(h, (S \ {x}) \cup {x})) =
          h[x].length + Cardinality(Bytes(h, S \ {x}))
  BY <1>1, <1>5, <1>6, <1>7
<1> QED
  BY <1>4, <1>8, Zenon

\* The length of messages is the number of their bytes.  The count satisfies
\* the fold's equation, so the fold's function does; where the two differ they
\* differ at a smallest set, and there they do not.
LEMMA LengthCounts ==
    ASSUME NEW h, NEW S, IsFiniteSet(S), \A i \in S : h[i].length \in Nat
    PROVE  LengthAt(h, S) = Cardinality(Bytes(h, S))
<1> DEFINE Unfolds(f) ==
             f = [s \in SUBSET S |->
                      IF s = {} THEN 0
                      ELSE LET x == CHOOSE x \in s : TRUE
                           IN  h[x].length + f[s \ {x}]]
           count == [s \in SUBSET S |-> Cardinality(Bytes(h, s))]
<1>0. \A s \in SUBSET S : IsFiniteSet(s) /\ \A i \in s : h[i].length \in Nat
  BY FS_Subset
<1>1. Cardinality(Bytes(h, {})) = 0
  <2>1. Bytes(h, {}) = {}
    BY DEF Bytes
  <2> QED
    BY <2>1, FS_EmptySet
<1>2. Unfolds(count)
  <2>1. ASSUME NEW s \in SUBSET S, s # {}, NEW x \in s
        PROVE  count[s] = h[x].length + count[s \ {x}]
    BY <1>0, <2>1, CountUnfolds
  <2> QED
    BY <1>1, <2>1
<1>3. PICK f : Unfolds(f) /\ LengthAt(h, S) = f[S]
  BY <1>2 DEF LengthAt, MapThenSumSet, MapThenFoldSet
<1>4. \A s \in SUBSET S : f[s] = count[s]
  <2> DEFINE Bad == {s \in SUBSET S : f[s] # count[s]}
  <2> SUFFICES ASSUME Bad # {} PROVE FALSE
    OBVIOUS
  <2>1. PICK s \in Bad : \A t \in Bad : ~(t \subseteq s /\ t # s)
    <3>1. Bad \in SUBSET SUBSET S
      OBVIOUS
    <3> HIDE DEF Bad
    <3> QED
      BY <3>1, SmallestSubset
  <2>2. s # {}
    BY <1>1, <1>3
  <2> DEFINE x == CHOOSE x \in s : TRUE
  <2>3. x \in s
    BY <2>2
  <2>4. f[s \ {x}] = count[s \ {x}]
    <3>1. s \ {x} \in SUBSET S /\ s \ {x} \subseteq s /\ s \ {x} # s
      BY <2>1, <2>3
    <3> HIDE DEF count, x
    <3> QED
      BY <2>1, <3>1
  <2>5. f[s] = h[x].length + f[s \ {x}]
    BY <1>3, <2>2
  <2>6. count[s] = h[x].length + count[s \ {x}]
    BY <1>2, <2>2
  <2> QED
    BY <2>1, <2>4, <2>5, <2>6
<1> QED
  BY <1>3, <1>4

\* Any places of a history are finitely many, and their length is a number.
LEMMA PlacesOf ==
    ASSUME NEW h \in Seq(Messages), NEW S \in SUBSET DOMAIN h
    PROVE  /\ IsFiniteSet(S) /\ \A i \in S : h[i].length \in Nat
           /\ IsFiniteSet(Bytes(h, S))
           /\ LengthAt(h, S) = Cardinality(Bytes(h, S))
           /\ LengthAt(h, S) \in Nat
<1>1. DOMAIN h = 1..Len(h) /\ Len(h) \in Nat
  OBVIOUS
<1>2. IsFiniteSet(1..Len(h))
  BY <1>1, FS_Interval
<1>3. IsFiniteSet(S)
  BY <1>1, <1>2, FS_Subset
<1>4. \A i \in S : h[i].length \in Nat
  <2>1. \A i \in S : h[i] \in Messages
    OBVIOUS
  <2> QED
    BY <2>1 DEF Messages
<1>5. IsFiniteSet(Bytes(h, S)) /\ LengthAt(h, S) = Cardinality(Bytes(h, S))
  BY <1>3, <1>4, BytesFinite, LengthCounts
<1> QED
  BY <1>3, <1>4, <1>5, FS_CardinalityType

\* The length of messages at two sets of places is the sum of both ...
LEMMA LengthJoins ==
    ASSUME NEW h \in Seq(Messages),
           NEW S \in SUBSET DOMAIN h, NEW T \in SUBSET DOMAIN h, S \cap T = {}
    PROVE  LengthAt(h, S \cup T) = LengthAt(h, S) + LengthAt(h, T)
<1>1. S \cup T \in SUBSET DOMAIN h
  OBVIOUS
<1>2. /\ LengthAt(h, S \cup T) = Cardinality(Bytes(h, S \cup T))
      /\ LengthAt(h, S) = Cardinality(Bytes(h, S)) /\ IsFiniteSet(Bytes(h, S))
      /\ LengthAt(h, T) = Cardinality(Bytes(h, T)) /\ IsFiniteSet(Bytes(h, T))
  BY <1>1, PlacesOf
<1> QED
  BY <1>2, BytesJoin

\* ... does not shrink when places are added ...
LEMMA LengthGrows ==
    ASSUME NEW h \in Seq(Messages), NEW T \in SUBSET DOMAIN h, NEW S \in SUBSET T
    PROVE  LengthAt(h, S) <= LengthAt(h, T)
<1>1. S \in SUBSET DOMAIN h /\ T \ S \in SUBSET DOMAIN h /\ S \cap (T \ S) = {}
  OBVIOUS
<1>2. LengthAt(h, S \cup (T \ S)) = LengthAt(h, S) + LengthAt(h, T \ S)
  BY <1>1, LengthJoins
<1>3. S \cup (T \ S) = T
  OBVIOUS
<1>4. LengthAt(h, T) = LengthAt(h, S) + LengthAt(h, T \ S)
  BY <1>2, <1>3, Zenon
<1>5. LengthAt(h, S) \in Nat /\ LengthAt(h, T \ S) \in Nat
  BY <1>1, PlacesOf
<1> QED
  BY <1>4, <1>5

\* ... is a message's own for one place ...
LEMMA LengthOfOne ==
    ASSUME NEW h \in Seq(Messages), NEW i \in DOMAIN h
    PROVE  LengthAt(h, {i}) = h[i].length
<1>1. {i} \in SUBSET DOMAIN h
  OBVIOUS
<1>2. h[i].length \in Nat /\ LengthAt(h, {i}) = Cardinality(Bytes(h, {i}))
  BY <1>1, PlacesOf
<1> QED
  BY <1>2, BytesOfOne

\* ... and depends on nothing but the messages there.
LEMMA LengthSame ==
    ASSUME NEW h \in Seq(Messages), NEW g \in Seq(Messages),
           NEW S \in SUBSET DOMAIN h, S \subseteq DOMAIN g,
           \A i \in S : g[i] = h[i]
    PROVE  LengthAt(g, S) = LengthAt(h, S)
<1>1. Bytes(g, S) = Bytes(h, S)
  BY DEF Bytes
<1> QED
  BY <1>1, PlacesOf

-----------------------------------------------------------------------------
(* What is pruned *)

\* A set of naturals has a least one ...
LEMMA LeastNatural ==
    ASSUME NEW T \in SUBSET Nat, T # {}
    PROVE  \E m \in T : \A k \in T : m <= k
<1> DEFINE Less == {p \in Nat \X Nat : p[1] < p[2]}
<1>1. IsWellFoundedOn(Less, Nat)
  BY NatLessThanWellFounded DEF OpToRel
<1>2. PICK m \in T : \A k \in T : ~(<<k, m>> \in Less)
  <2> HIDE DEF Less
  <2> QED
    BY <1>1, WFMin
<1>3. ASSUME NEW k \in T PROVE m <= k
  <2>1. k \in Nat /\ m \in Nat /\ <<k, m>> \notin Less
    BY <1>2
  <2>2. ~(k < m)
    BY <2>1
  <2> QED
    BY <2>1, <2>2
<1> QED
  BY <1>3

\* ... and a bounded one a greatest, which Max picks.
LEMMA MaxOf ==
    ASSUME NEW n \in Nat, NEW S \in SUBSET (1..n), S # {}
    PROVE  Max(S) \in S /\ \A i \in S : i <= Max(S)
<1> DEFINE Tops == {k \in Nat : \A i \in S : i <= k}
<1>1. n \in Tops
  OBVIOUS
<1>2. PICK m \in Tops : \A k \in Tops : m <= k
  <2>1. Tops \in SUBSET Nat /\ Tops # {}
    BY <1>1
  <2> HIDE DEF Tops
  <2> QED
    BY <2>1, LeastNatural
<1>3. m \in S
  <2> SUFFICES ASSUME m \notin S PROVE FALSE
    OBVIOUS
  <2>1. \A i \in S : i <= m - 1 /\ i >= 1 /\ i \in Nat
    BY <1>2
  <2>2. PICK i \in S : TRUE
    OBVIOUS
  <2>4. m - 1 \in Nat
    BY <1>2, <2>1, <2>2
  <2>3. m - 1 \in Tops
    BY <2>1, <2>4
  <2> QED
    BY <1>2, <2>3
<1> QED
  BY <1>2, <1>3 DEF Max

\* Whatever is newer than a message that fits, fits: the walk is a stretch.
LEMMA RecentIsTail ==
    ASSUME NEW h \in Seq(Messages), NEW i \in Recent(h),
           NEW j \in DOMAIN h \ Checkpoints(h), i <= j
    PROVE  j \in Recent(h)
<1> DEFINE others == DOMAIN h \ Checkpoints(h)
           from(k) == {l \in others : l >= k}
           used(k) == LengthAt(h, Checkpoints(h)) + LengthAt(h, from(k))
<1>1. i \in others /\ used(i) <= Budget
  BY DEF Recent
<1>2. from(i) \in SUBSET DOMAIN h /\ from(j) \in SUBSET from(i)
  BY <1>1
<1>3. /\ LengthAt(h, from(j)) <= LengthAt(h, from(i))
      /\ LengthAt(h, from(i)) \in Nat /\ LengthAt(h, from(j)) \in Nat
  BY <1>2, LengthGrows, PlacesOf
<1>4. LengthAt(h, Checkpoints(h)) \in Nat
  BY PlacesOf DEF Checkpoints
<1> HIDE DEF from
<1>5. used(j) <= Budget
  BY <1>1, <1>3, <1>4, WindowAssumption
<1> USE DEF from
<1> QED
  BY <1>5 DEF Recent

\* What is sent fits, or it is the checkpoint alone: Recent is everything from
\* its oldest message on, which is the last the walk found room for.
LEMMA KeptFits ==
    ASSUME NEW h \in Seq(Messages), Budget # 0
    PROVE  \/ LengthAt(h, PrunedMessages(h)) <= Budget
           \/ PrunedMessages(h) = Checkpoints(h)
<1> DEFINE others == DOMAIN h \ Checkpoints(h)
           from(k) == {l \in others : l >= k}
<1>1. CASE ~Over(h)
  <2>1. LengthAt(h, DOMAIN h) \in Nat
    BY PlacesOf
  <2>2. PrunedMessages(h) = DOMAIN h /\ ~(LengthAt(h, DOMAIN h) > Budget)
    BY <1>1 DEF PrunedMessages, Over, TotalContentLength
  <2>3. LengthAt(h, DOMAIN h) <= Budget
    BY <2>1, <2>2, WindowAssumption
  <2> QED
    BY <2>2, <2>3, Zenon
<1>2. CASE Over(h) /\ Recent(h) = {}
  BY <1>2 DEF PrunedMessages
<1>3. CASE Over(h) /\ Recent(h) # {}
  <2>1. PICK m \in Recent(h) : \A k \in Recent(h) : m <= k
    <3>1. Recent(h) \in SUBSET Nat
      BY DEF Recent
    <3> QED
      BY <1>3, <3>1, LeastNatural
  <2>2. /\ m \in others
        /\ LengthAt(h, Checkpoints(h)) + LengthAt(h, from(m)) <= Budget
    BY DEF Recent
  <2>3. Recent(h) = from(m)
    <3>1. Recent(h) \subseteq from(m)
      <4>1. Recent(h) \subseteq others
        BY DEF Recent
      <4> QED
        BY <2>1, <2>2, <4>1
    <3>2. ASSUME NEW j \in from(m) PROVE j \in Recent(h)
      BY <2>2, RecentIsTail
    <3> QED
      BY <3>1, <3>2
  <2>4. PrunedMessages(h) = Checkpoints(h) \cup from(m)
    BY <1>3, <2>3 DEF PrunedMessages
  <2>5. /\ Checkpoints(h) \in SUBSET DOMAIN h
        /\ from(m) \in SUBSET DOMAIN h
        /\ Checkpoints(h) \cap from(m) = {}
    BY DEF Checkpoints
  <2>6. LengthAt(h, Checkpoints(h) \cup from(m)) =
            LengthAt(h, Checkpoints(h)) + LengthAt(h, from(m))
    BY <2>5, LengthJoins
  <2>7. LengthAt(h, PrunedMessages(h)) =
            LengthAt(h, Checkpoints(h)) + LengthAt(h, from(m))
    BY <2>4, <2>6, Zenon
  <2> HIDE DEF from
  <2> QED
    BY <2>2, <2>7
<1> QED
  BY <1>1, <1>2, <1>3

\* No message that is sent has a later one left out.
LEMMA KeptIsTail ==
    ASSUME NEW h \in Seq(Messages),
           NEW i \in PrunedMessages(h) \ Checkpoints(h)
    PROVE  i..Len(h) \subseteq PrunedMessages(h)
<1>1. PrunedMessages(h) \subseteq DOMAIN h
  BY DEF PrunedMessages, Checkpoints, Recent
<1>2. CASE Budget = 0 \/ ~Over(h)
  BY <1>1, <1>2 DEF PrunedMessages
<1>3. CASE ~(Budget = 0 \/ ~Over(h))
  <2>1. i \in Recent(h) /\ PrunedMessages(h) = Checkpoints(h) \cup Recent(h)
    BY <1>3 DEF PrunedMessages
  <2>2. ASSUME NEW j \in i..Len(h) PROVE j \in PrunedMessages(h)
    <3>1. j \in DOMAIN h /\ i <= j
      BY <1>1
    <3> QED
      BY <2>1, <3>1, RecentIsTail
  <2> QED
    BY <2>2
<1> QED
  BY <1>2, <1>3

\* The newest message that is left out is the first that did not fit.
LEMMA LostDidNotFit ==
    ASSUME NEW h \in Seq(Messages), DOMAIN h \ PrunedMessages(h) # {}
    PROVE  LengthAt(h, PrunedMessages(h) \cup {Max(DOMAIN h \ PrunedMessages(h))})
               > Budget
<1> DEFINE others == DOMAIN h \ Checkpoints(h)
           from(k) == {l \in others : l >= k}
           lost == DOMAIN h \ PrunedMessages(h)
           m == Max(lost)
<1>1. PrunedMessages(h) = Checkpoints(h) \cup Recent(h)
  BY DEF PrunedMessages
<1>2. lost = others \ Recent(h)
  BY <1>1 DEF Checkpoints
<1>3. m \in lost /\ \A j \in lost : j <= m
  <2>1. DOMAIN h = 1..Len(h) /\ Len(h) \in Nat
    OBVIOUS
  <2>2. lost \in SUBSET (1..Len(h)) /\ lost # {}
    BY <2>1
  <2> HIDE DEF lost
  <2> QED
    BY <2>1, <2>2, MaxOf
<1> HIDE DEF m
<1>4. m \in others /\ m \notin Recent(h) /\ m \in Nat
  BY <1>2, <1>3
<1>5. Recent(h) \subseteq from(m)
  <2>1. ASSUME NEW i \in Recent(h), i <= m PROVE FALSE
    BY <1>4, <2>1, RecentIsTail
  <2>2. Recent(h) \subseteq others /\ Recent(h) \subseteq Nat
    BY DEF Recent
  <2> QED
    BY <1>4, <2>1, <2>2
<1>6. from(m) \subseteq Recent(h) \cup {m}
  <2>1. ASSUME NEW j \in from(m), j \notin Recent(h) PROVE j = m
    BY <1>2, <1>3, <1>4, <2>1
  <2> QED
    BY <2>1
<1>7. PrunedMessages(h) \cup {m} = Checkpoints(h) \cup from(m)
  BY <1>1, <1>4, <1>5, <1>6
<1>8. /\ Checkpoints(h) \in SUBSET DOMAIN h /\ from(m) \in SUBSET DOMAIN h
      /\ Checkpoints(h) \cap from(m) = {}
  BY DEF Checkpoints
<1>9. LengthAt(h, Checkpoints(h) \cup from(m)) =
          LengthAt(h, Checkpoints(h)) + LengthAt(h, from(m))
  BY <1>8, LengthJoins
<1>10. ~(LengthAt(h, Checkpoints(h)) + LengthAt(h, from(m)) <= Budget)
  BY <1>4 DEF Recent
<1>11. LengthAt(h, Checkpoints(h)) \in Nat /\ LengthAt(h, from(m)) \in Nat
  BY <1>8, PlacesOf
<1>12. LengthAt(h, PrunedMessages(h) \cup {m}) =
           LengthAt(h, Checkpoints(h)) + LengthAt(h, from(m))
  BY <1>7, <1>9, Zenon
<1> HIDE DEF from
<1>13. LengthAt(h, PrunedMessages(h) \cup {m}) > Budget
  BY <1>10, <1>11, <1>12, WindowAssumption
<1> QED
  BY <1>13 DEF m

\* Every history the agents share fits the budget once it is pruned, or its
\* checkpoint is all that is sent (pruned_messages).
THEOREM BudgetKept == Spec => []SentFits
<1>1. TypeOK => SentFits
  BY KeptFits DEF TypeOK, SentFits
<1> QED
  BY <1>1, CheckpointAlone, PTL

\* No agent sees a message without everything that was said since.
THEOREM NothingSkipped == Spec => []NoGaps
<1>1. TypeOK => NoGaps
  BY KeptIsTail DEF TypeOK, NoGaps
<1> QED
  BY <1>1, CheckpointAlone, PTL

\* No message is left out that the budget had room for.
THEOREM BudgetUsed == Spec => []NothingWasted
<1>1. TypeOK => NothingWasted
  BY LostDidNotFit DEF TypeOK, NothingWasted
<1> QED
  BY <1>1, CheckpointAlone, PTL

\* What is appended to a history makes it no shorter.
LEMMA AppendedIsLonger ==
    ASSUME NEW h \in Seq(Messages), NEW sender \in Senders, NEW g \in Add(h, sender)
    PROVE  /\ TotalContentLength(h) \in Nat /\ TotalContentLength(g) \in Nat
           /\ TotalContentLength(h) <= TotalContentLength(g)
<1>1. /\ g \in Seq(Messages) /\ Len(g) = Len(h) + 1
      /\ \A i \in DOMAIN h : g[i] = h[i]
  BY Appended
<1>2. DOMAIN h \in SUBSET DOMAIN g
  BY <1>1
<1>3. LengthAt(g, DOMAIN h) = LengthAt(h, DOMAIN h)
  BY <1>1, <1>2, LengthSame
<1>4. LengthAt(g, DOMAIN h) <= LengthAt(g, DOMAIN g)
  BY <1>1, <1>2, LengthGrows
<1>5. LengthAt(h, DOMAIN h) \in Nat /\ LengthAt(g, DOMAIN g) \in Nat
  BY <1>1, PlacesOf
<1> QED
  BY <1>3, <1>4, <1>5 DEF TotalContentLength

\* Every step but a compression leaves the history as long as it was.
LEMMA StepsLengthen ==
    ASSUME WInv, [Next]_vars, ~Compress
    PROVE  ~(TotalContentLength(messages') < TotalContentLength(messages))
<1> DEFINE Longer == /\ TotalContentLength(messages) \in Nat
                     /\ TotalContentLength(messages') \in Nat
                     /\ TotalContentLength(messages) <= TotalContentLength(messages')
<1>1. messages \in Seq(Messages) /\ me \in Agents \cup {"none"}
  BY DEF WInv, TypeOK
<1>2. Agents \subseteq Senders /\ "Human" \in Senders /\ "Orchestrator" \in Senders
  BY DEF Senders, Agents
<1>3. CASE \E sender \in Senders : messages' \in Add(messages, sender)
  <2>1. Longer
    BY <1>1, <1>3, AppendedIsLonger
  <2> QED
    BY <2>1
<1>4. CASE messages' = messages
  <2>1. TotalContentLength(messages) \in Nat
    BY <1>1, PlacesOf DEF TotalContentLength
  <2>2. TotalContentLength(messages') = TotalContentLength(messages)
    BY <1>4
  <2> QED
    BY <2>1, <2>2
<1>5. CASE OutputUnparseable
  <2>1. PICK h \in Add(messages, me) : messages' \in Add(h, "Orchestrator")
    BY <1>5 DEF OutputUnparseable
  <2>2. me \in Senders
    BY <1>1, <1>2, <1>5 DEF OutputUnparseable
  <2>3. /\ h \in Seq(Messages)
        /\ TotalContentLength(messages) \in Nat /\ TotalContentLength(h) \in Nat
        /\ TotalContentLength(messages) <= TotalContentLength(h)
    BY <1>1, <2>2, Appended, AppendedIsLonger
  <2>4. /\ TotalContentLength(messages') \in Nat
        /\ TotalContentLength(h) <= TotalContentLength(messages')
    BY <1>2, <2>1, <2>3, AppendedIsLonger
  <2> QED
    BY <2>3, <2>4
<1>6. OutputUnparseable \/ messages' = messages
          \/ \E sender \in Senders : messages' \in Add(messages, sender)
  BY <1>1, <1>2 DEF Next, vars, TaskArrives, StartPhase, LimitReached, Says,
                    HumanAnswers, TurnEnds
<1> QED
  BY <1>3, <1>4, <1>5, <1>6

\* A history becomes shorter only when a summary takes its place.
THEOREM SummariesShorten == Spec => OnlySummaryShortens
<1>1. WInv /\ [Next]_vars =>
          [TotalContentLength(messages') < TotalContentLength(messages) =>
               Len(messages') = 1 /\ messages'[1].sender = "System"]_vars
  <2> SUFFICES ASSUME WInv, [Next]_vars,
                      TotalContentLength(messages') < TotalContentLength(messages)
               PROVE  Len(messages') = 1 /\ messages'[1].sender = "System"
    OBVIOUS
  <2>1. Compress
    BY StepsLengthen
  <2> QED
    BY <2>1, SummaryIsHead DEF Compress
<1> QED
  BY <1>1, WInit, WStep, PTL DEF Spec, OnlySummaryShortens

-----------------------------------------------------------------------------
(* What Context makes of a history. *)

\* A context whose over says whether the history exceeds the budget, and the
\* same context after the step.
C == INSTANCE Context
Abstracts(c) == c.over = Over(messages)
Later(c) == [c EXCEPT !.over = Over(messages')]

\* A message may make a history exceed the budget, and nothing but a summary
\* makes it fit again.
StepOfContext ==
    \A c \in C!Contexts :
        Abstracts(c) => IF Compress THEN Later(c) \in C!ResetWithSummary(c)
                        ELSE Later(c) \in C!AddMessage(c)

\* The context Engine works with is true to the history: whatever is written to
\* the history is to it an add_message or a reset_with_summary of Context.
THEOREM FollowsContext == Spec => [][StepOfContext]_vars
<1>1. WInv /\ [Next]_vars => StepOfContext
  <2> SUFFICES ASSUME WInv, [Next]_vars, NEW c \in C!Contexts, Abstracts(c)
               PROVE  IF Compress THEN Later(c) \in C!ResetWithSummary(c)
                      ELSE Later(c) \in C!AddMessage(c)
    BY Zenon DEF StepOfContext
  <2>1. Over(messages') \in BOOLEAN
    BY DEF Over
  <2>2. CASE Compress
    BY <2>1, <2>2 DEF Later, C!ResetWithSummary
  <2>3. CASE ~Compress
    <3>1. ~(TotalContentLength(messages') < TotalContentLength(messages))
      BY <2>3, StepsLengthen
    <3>2. /\ TotalContentLength(messages) \in Nat
          /\ TotalContentLength(messages') \in Nat
      <4>1. messages \in Seq(Messages) /\ messages' \in Seq(Messages)
        BY WStep DEF WInv, TypeOK
      <4> QED
        BY <4>1, PlacesOf DEF TotalContentLength
    <3>3. Over(messages) => Over(messages')
      BY <3>1, <3>2, WindowAssumption DEF Over, WindowAssumption
    <3>4. c.over = Over(messages)
      BY DEF Abstracts
    <3>5. Over(messages') \in {c.over, TRUE}
      <4>1. CASE Over(messages)
        <5>1. Over(messages') = TRUE
          BY <2>1, <3>3, <4>1, Zenon
        <5> QED
          BY <5>1
      <4>2. CASE ~Over(messages)
        <5>1. Over(messages) \in BOOLEAN
          BY DEF Over
        <5>2. Over(messages) = FALSE
          BY <4>2, <5>1, Zenon
        <5>3. Over(messages') = Over(messages) \/ Over(messages') = TRUE
          BY <2>1, <5>2, Zenon
        <5> QED
          BY <3>4, <5>3, Zenon
      <4> QED
        BY <4>1, <4>2
    <3> QED
      BY <2>3, <3>5 DEF Later, C!AddMessage
  <2> QED
    BY <2>2, <2>3
<1> QED
  BY <1>1, WInit, WStep, PTL DEF Spec

-----------------------------------------------------------------------------
(* What is sent. *)

\* Nothing of a history is sent exactly when it is pruned, has no checkpoint and
\* the newest message exceeds the budget by itself.
LEMMA NothingKept ==
    ASSUME NEW h \in Seq(Messages), h # << >>
    PROVE  PrunedMessages(h) = {} <=>
               /\ Budget # 0
               /\ Checkpoints(h) = {}
               /\ h[Len(h)].length > Budget
<1> DEFINE newest == h[Len(h)].length
           from(k) == {l \in DOMAIN h : l >= k}
<1>1. Len(h) \in Nat /\ DOMAIN h = 1..Len(h) /\ Len(h) \in DOMAIN h
  OBVIOUS
<1>2. from(Len(h)) = {Len(h)}
  BY <1>1
<1>3. newest \in Nat /\ LengthAt(h, {Len(h)}) = newest
  BY <1>1, PlacesOf, LengthOfOne
<1>4. LengthAt(h, {}) = 0
  <2>1. LengthAt(h, {}) = Cardinality(Bytes(h, {})) /\ Bytes(h, {}) = {}
    BY PlacesOf DEF Bytes
  <2> QED
    BY <2>1, FS_EmptySet
<1>5. ASSUME NEW k \in DOMAIN h
      PROVE  LengthAt(h, from(k)) \in Nat /\ newest <= LengthAt(h, from(k))
  <2>1. {Len(h)} \in SUBSET from(k) /\ from(k) \in SUBSET DOMAIN h
    BY <1>1
  <2>2. /\ LengthAt(h, {Len(h)}) <= LengthAt(h, from(k))
        /\ LengthAt(h, from(k)) \in Nat
    BY <2>1, LengthGrows, PlacesOf
  <2> QED
    BY <1>3, <2>2
<1>6. ASSUME Checkpoints(h) = {}
      PROVE  Recent(h) = {k \in DOMAIN h : 0 + LengthAt(h, from(k)) <= Budget}
  BY <1>4, <1>6 DEF Recent
<1> HIDE DEF from, newest
<1>7. ASSUME PrunedMessages(h) = {}
      PROVE  Budget # 0 /\ Checkpoints(h) = {} /\ newest > Budget
  <2>1. Budget # 0 /\ Checkpoints(h) = {} /\ Recent(h) = {}
    BY <1>1, <1>7 DEF PrunedMessages
  <2>2. ~(0 + LengthAt(h, from(Len(h))) <= Budget)
    BY <1>1, <1>6, <2>1
  <2>3. ~(0 + newest <= Budget)
    BY <1>2, <1>3, <2>2, Zenon
  <2> QED
    BY <1>3, <2>1, <2>3, WindowAssumption
<1>8. ASSUME Budget # 0, Checkpoints(h) = {}, newest > Budget
      PROVE  PrunedMessages(h) = {}
  <2>1. Over(h)
    <3>1. from(1) = DOMAIN h /\ 1 \in DOMAIN h
      BY <1>1 DEF from
    <3>2. LengthAt(h, DOMAIN h) \in Nat /\ newest <= LengthAt(h, DOMAIN h)
      BY <1>5, <3>1
    <3> QED
      BY <1>3, <1>8, <3>2, WindowAssumption DEF Over, TotalContentLength
  <2>2. ASSUME NEW k \in DOMAIN h PROVE ~(0 + LengthAt(h, from(k)) <= Budget)
    BY <1>3, <1>5, <1>8, WindowAssumption
  <2>3. Recent(h) = {}
    BY <1>6, <1>8, <2>2
  <2> QED
    BY <1>8, <2>1, <2>3 DEF PrunedMessages
<1> QED
  BY <1>7, <1>8 DEF newest

\* What is sent starts with the system prompt, which is all of it when nothing of
\* the history is kept; otherwise it ends with the user.
LEMMA PromptOrUser ==
    ASSUME NEW h \in Seq(Messages), NEW agent
    PROVE  LET sent == BuildMessages(h, FALSE, agent)
           IN  /\ sent[1] = "system"
               /\ IF PrunedMessages(h) = {} THEN Len(sent) = 1
                  ELSE sent[Len(sent)] = "user"
<1> DEFINE kept == PrunedMessages(h)
           n == Cardinality(kept)
           history == History(h, agent)
           sent == <<"system">> \o history
<1>1. kept \in SUBSET DOMAIN h
  BY DEF PrunedMessages, Checkpoints, Recent
<1>2. IsFiniteSet(kept) /\ n \in Nat /\ (n = 0 <=> kept = {})
  BY <1>1, PlacesOf, FS_CardinalityType, FS_EmptySet
<1> HIDE DEF kept
<1>3. /\ history \in Seq({"assistant", "user"}) /\ Len(history) = n
      /\ history = [k \in 1..n |-> history[k]]
  BY <1>2 DEF History, kept
<1> HIDE DEF history, n
<1>4. BuildMessages(h, FALSE, agent) =
          IF sent[Len(sent)] = "assistant" THEN Append(sent, "user") ELSE sent
  <2>1. sent \o << >> = sent
    BY <1>3
  <2> QED
    BY <2>1 DEF BuildMessages, history
<1>5. /\ sent \in Seq({"system", "assistant", "user"}) /\ Len(sent) = n + 1
      /\ sent[1] = "system"
  BY <1>2, <1>3
<1>6. CASE kept = {}
  <2>1. Len(sent) = 1 /\ sent[Len(sent)] = "system"
    BY <1>2, <1>5, <1>6
  <2>2. BuildMessages(h, FALSE, agent) = sent
    BY <1>4, <2>1
  <2> QED
    BY <1>5, <1>6, <2>1, <2>2, Zenon DEF kept
<1>7. CASE kept # {}
  <2>1. sent[n + 1] = history[n] /\ history[n] \in {"assistant", "user"}
    BY <1>2, <1>3, <1>7
  <2> HIDE DEF sent
  <2>2. CASE history[n] = "user"
    <3>1. BuildMessages(h, FALSE, agent) = sent
      BY <1>4, <1>5, <2>1, <2>2
    <3> QED
      BY <1>5, <1>7, <2>1, <2>2, <3>1 DEF kept
  <2>3. CASE history[n] = "assistant"
    <3>1. BuildMessages(h, FALSE, agent) = Append(sent, "user")
      BY <1>4, <1>5, <2>1, <2>3
    <3>2. /\ Len(Append(sent, "user")) = n + 2
          /\ Append(sent, "user")[n + 2] = "user"
          /\ Append(sent, "user")[1] = "system"
      BY <1>2, <1>5
    <3> QED
      BY <1>7, <3>1, <3>2 DEF kept
  <2> QED
    BY <2>1, <2>2, <2>3
<1> QED
  BY <1>6, <1>7

\* For every budget and history: the array an agent is sent starts with the
\* system prompt, and whether it ends with the user, as llama.cpp demands, or is
\* the bare prompt depends on the newest message and the checkpoints alone.
THEOREM BareExactly == Spec => []BareOnlyIfTooLong
<1>1. WInv => BareOnlyIfTooLong
  <2> SUFFICES ASSUME WInv, me # "none"
               PROVE  LET sent == BuildMessages(messages, FALSE, me)
                          tooLong == /\ Budget # 0
                                     /\ Checkpoints(messages) = {}
                                     /\ messages[Len(messages)].length > Budget
                      IN  /\ sent[1] = "system"
                          /\ IF tooLong THEN Len(sent) = 1
                             ELSE sent[Len(sent)] = "user"
    BY DEF BareOnlyIfTooLong
  <2>1. messages \in Seq(Messages) /\ messages # << >>
    BY DEF WInv, TypeOK
  <2> QED
    BY <2>1, NothingKept, PromptOrUser
<1> QED
  BY <1>1, WInit, WStep, PTL DEF Spec
=============================================================================
