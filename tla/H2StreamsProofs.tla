-------------------------- MODULE H2StreamsProofs --------------------------
(***************************************************************************)
(* H2Streams never loses or doubles a stream, counts the streams that the  *)
(* server has to serve exactly, opens them in order and within the limit,  *)
(* and never ends by an error of its own sending loop.  The steps are      *)
(* proved in H2StreamsSteps from CardFacts; here are the proof of          *)
(* CardFacts and the theorems.                                             *)
(***************************************************************************)
EXTENDS H2StreamsSteps, FiniteSetTheorems

\* Time for the leaves that cite no prover.
USE ZenonT(30)

---------------------------------------------------------------------------
(* Cardinality of sets of streams. *)

\* A queue that no stream is in twice is as long as the set of its streams.
LEMMA QueueLength ==
  ASSUME NEW q \in Seq(Ids), Once(q)
  PROVE  Cardinality({i \in Ids : InSeq(i, q)}) = Len(q)
<1> DEFINE Q == {i \in Ids : InSeq(i, q)}
<1>1. Len(q) \in Nat /\ DOMAIN q = 1 .. Len(q) /\ q \in [1 .. Len(q) -> Ids]
  BY LenFacts
<1>2. q \in [1 .. Len(q) -> Q]
  <2>1. \A k \in 1 .. Len(q) : q[k] \in Q
    BY <1>1, InQueue
  <2> QED BY <2>1, <1>1, SMTT(30)
<1>3. q \in Surjection(1 .. Len(q), Q)
  <2>1. \A i \in Q : \E k \in 1 .. Len(q) : q[k] = i
    BY <1>1, SMTT(30) DEF InSeq
  <2> QED BY <2>1, <1>2 DEF Surjection
<1>4. q \in Injection(1 .. Len(q), Q)
  BY <1>1, <1>2, SMTT(30) DEF Injection, IsInjective, Once
<1>5. IsFiniteSet(1 .. Len(q)) /\ Cardinality(1 .. Len(q)) = Len(q)
  BY <1>1, FS_Interval, SMTT(30)
<1> QED BY <1>3, <1>4, <1>5, FS_Surjection, SMTT(30)

\* What H2StreamsSteps takes of Cardinality is true of the ids of a connection.
LEMMA CardFactsHold == CardFacts
<1>1. IsFiniteSet(Ids)
  BY FS_Interval, H2Assumption, SMTT(30) DEF Ids
<1>2. ASSUME NEW S \in SUBSET Ids PROVE IsFiniteSet(S) /\ Cardinality(S) \in Nat
  BY <1>1, FS_Subset, FS_CardinalityType, SMTT(30)
<1>3. Cardinality({}) = 0 /\ \A i \in Ids : Cardinality({i}) = 1
  <2>1. Cardinality({}) = 0
    BY FS_EmptySet
  <2>2. \A i \in Ids : Cardinality({i}) = 1
    BY FS_Singleton
  <2> QED BY <2>1, <2>2
<1>4. ASSUME NEW S \in SUBSET Ids, NEW T \in SUBSET Ids, S \cap T = {}
      PROVE  Cardinality(S \cup T) = Cardinality(S) + Cardinality(T)
  <2>1. Cardinality(S \cup T) = Cardinality(S) + Cardinality(T) - Cardinality(S \cap T)
    BY <1>2, FS_Union
  <2>2. \A a, b \in Nat : a + b - 0 = a + b
    BY SMTT(30)
  <2>3. Cardinality(S \cup T) = Cardinality(S) + Cardinality(T) - 0
    BY <2>1, <1>3, <1>4
  <2> QED BY <2>2, <2>3, <1>2
<1>5. ASSUME NEW S \in SUBSET Ids, NEW q \in Orders(S) PROVE Once(q)
  <2> DEFINE D == 1 .. Cardinality(S)
  <2>1. q \in [D -> S] /\ \A i \in S : \E k \in D : q[k] = i
    BY DEF Orders
  <2>2. IsFiniteSet(D) /\ Cardinality(D) = Cardinality(S)
    BY <1>2, FS_Interval, SMTT(30)
  <2>3. q \in Surjection(D, S)
    BY <2>1 DEF Surjection
  <2>4. q \in Injection(D, S)
    BY <1>2, <2>2, <2>3, FS_SurjSameCardinalityImpliesInj, SMTT(30)
  <2> QED BY <2>1, <2>4, SMTT(30) DEF Once, Injection, IsInjective
<1> QED BY <1>2, <1>3, <1>4, <1>5, QueueLength DEF CardFacts

---------------------------------------------------------------------------
(* The theorems. *)

\* The inductive invariant holds in every state of the connection.
THEOREM StreamsInvariant == Spec => []IInv
<1>1. Init => IInv
  BY InitInv, CardFactsHold
<1>2. IInv /\ [Next]_vars => IInv'
  BY NextInv, CardFactsHold
<1> QED BY <1>1, <1>2, PTL DEF Spec

\* Streams loses and doubles no stream: whatever frames arrive, each stream with
\* something left to send is in exactly one of the four queues or has its turn,
\* and waits for a window only while that window is empty.
THEOREM StreamsQueued == Spec => []QueuedForReason
BY StreamsInvariant, InvImplies, PTL

\* The errors of poll_send_frame that the code calls impossible are.
THEOREM StreamsNeverDead == Spec => []NeverDead
BY StreamsInvariant, InvImplies, PTL

\* HEADERS leave in the order of the stream ids.
THEOREM StreamsOpenedInOrder == Spec => []OpenedInOrder
BY StreamsInvariant, InvImplies, PTL

\* current_concurrent_streams is exact, and HEADERS are sent only while the
\* server's SETTINGS_MAX_CONCURRENT_STREAMS allows another stream.
THEOREM StreamsWithinLimit == Spec => WithinLimit
<1>1. IInv /\ [Next]_vars =>
        [\A i \in Ids : state[i] = "Idle" /\ state'[i] \in OpenStates =>
           Cardinality({j \in Ids : state'[j] \in OpenStates}) <= max]_vars
  BY OnlyHeadersOpen, HeadersWithinLimit, CardFactsHold DEF Idle
<1>2. IInv => CountExact
  BY InvImplies
<1> QED BY <1>1, <1>2, StreamsInvariant, PTL DEF Spec, WithinLimit

=============================================================================
