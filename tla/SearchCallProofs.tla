--------------------------- MODULE SearchCallProofs ---------------------------
(***************************************************************************)
(* No client of the search chain is skipped, for any number of clients and *)
(* of retries.                                                             *)
(***************************************************************************)
EXTENDS SearchCall, TLAPS

LEMMA SearchInit == ASSUME SearchAssumption, Init PROVE SearchInv
<1> USE DEF SearchAssumption, Init, Chain
<1>1. TypeOK
  <2>1. sent \in [Chain -> 0..(MaxRetries + 1)]
    OBVIOUS
  <2>2. client \in Chain /\ attempt \in 0..MaxRetries
    OBVIOUS
  <2>3. unreadable \subseteq Chain /\ fallback \in BOOLEAN
    OBVIOUS
  <2> QED
    BY <2>1, <2>2, <2>3 DEF TypeOK
<1>2. NoClientSkipped
  BY DEF NoClientSkipped
<1> QED
  BY <1>1, <1>2 DEF SearchInv

LEMMA SearchStep ==
    ASSUME SearchAssumption, SearchInv, [Next]_vars
    PROVE  SearchInv'
<1> USE DEF SearchAssumption, SearchInv, TypeOK, Chain
<1>1. ASSUME Request
      PROVE  /\ sent' \in [Chain -> 0..(MaxRetries + 1)]
             /\ sent'[client] = attempt + 1
             /\ \A c \in Chain : c # client => sent'[c] = sent[c]
  BY <1>1 DEF Request
<1>2. ASSUME Request, NextClient, unreadable' \in SUBSET Chain,
             unreadable \subseteq unreadable',
             attempt = MaxRetries \/ client \in unreadable',
             UNCHANGED fallback
      PROVE  SearchInv'
  <2>1. \A c \in Chain : c <= client => Failed(c)'
    BY <1>1, <1>2 DEF NoClientSkipped, Failed
  <2>2. sent' \in [Chain -> 0..(MaxRetries + 1)] /\ outcome = "none"
    BY <1>1, <1>2 DEF Request
  <2>3. \A c \in Chain : c > client => sent'[c] = 0
    BY <1>1, <1>2 DEF NoClientSkipped
  <2>4. CASE client < Clients
    <3>1. /\ client' = client + 1 /\ client' \in Chain
          /\ attempt' = 0 /\ outcome' = "none"
      BY <1>2, <2>2, <2>4 DEF NextClient
    <3>2. TypeOK'
      BY <1>2, <2>2, <3>1
    <3>3. NoClientSkipped'
      <4> HIDE DEF TypeOK, SearchInv
      <4>1. client \in Nat /\ \A c \in Chain : c \in Nat
        BY DEF SearchInv, TypeOK
      <4> QED
        BY <2>1, <2>3, <3>1, <4>1 DEF NoClientSkipped
    <3> QED
      BY <2>3, <3>1, <3>2, <3>3
  <2>5. CASE client = Clients
    <3>1. client' = client /\ attempt' = attempt /\ outcome' = "error"
      BY <1>2, <2>5 DEF NextClient
    <3>2. TypeOK'
      BY <1>2, <2>2, <3>1
    <3>3. NoClientSkipped'
      BY <2>1, <2>3, <2>5, <3>1 DEF NoClientSkipped
    <3> QED
      BY <3>1, <3>2, <3>3
  <2> QED
    BY <2>4, <2>5
<1>3. CASE RequestFails
  <2>1. CASE attempt < MaxRetries
    BY <1>1, <1>3, <2>1 DEF RequestFails, NoClientSkipped, Failed, Request
  <2>2. CASE attempt = MaxRetries
    <3>1. Request /\ NextClient /\ UNCHANGED <<fallback, unreadable>>
      BY <1>3, <2>2 DEF RequestFails
    <3>2. unreadable' \in SUBSET Chain /\ unreadable \subseteq unreadable'
      BY <3>1
    <3> QED
      BY <1>2, <2>2, <3>1, <3>2
  <2> QED
    BY <2>1, <2>2
<1>4. CASE BodyUnreadable
  BY <1>2, <1>4 DEF BodyUnreadable
<1>5. CASE ResultsArrive
  BY <1>1, <1>5 DEF ResultsArrive, NoClientSkipped, Failed, Request
<1>6. CASE UNCHANGED vars
  BY <1>6 DEF vars, NoClientSkipped, Failed
<1> QED
  BY <1>3, <1>4, <1>5, <1>6 DEF Next, Terminated

\* A search asks a client of the chain as often as it may, and no more often,
\* before it asks the next one or gives up (TavilyClient and
\* FallbackSearchClient::search).
THEOREM ChainInOrder ==
    ASSUME SearchAssumption
    PROVE  Spec => [](TypeOK /\ NoClientSkipped)
<1>1. Init => SearchInv
  BY SearchInit
<1>2. SearchInv /\ [Next]_vars => SearchInv'
  BY SearchStep
<1>3. SearchInv => TypeOK /\ NoClientSkipped
  BY DEF SearchInv
<1> QED
  BY <1>1, <1>2, <1>3, PTL DEF Spec
=============================================================================
