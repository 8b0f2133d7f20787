-------------------------- MODULE H2StreamsSteps ---------------------------
(***************************************************************************)
(* The inductive invariant of H2Streams, and proofs that the frames the    *)
(* connection receives, the turns its streams take to send, new requests   *)
(* and the admission of waiting streams keep it, and that it gives the     *)
(* properties of the streams.  Facts about Cardinality are taken as the    *)
(* hypothesis CardFacts, which H2StreamsProofs discharges.                 *)
(***************************************************************************)
EXTENDS H2Streams, TLAPS

\* Time for the leaves that cite no prover.
USE ZenonT(30)

---------------------------------------------------------------------------
(* The inductive invariant. *)

\* The states a stream of this client is ever in: it sends its HEADERS before
\* the server can answer, so OpenHD, OpenHH and RemoteH do not occur.
Reached == {"none", "Idle", "OpenDH", "OpenDD", "LocalH", "LocalD", "RemoteD"} \cup ClosedStates

Idle(i) == state[i] = "Idle"

Queued(i) == InSeq(i, pendConc) \/ InSeq(i, pendSend) \/ InSeq(i, pendConn) \/ i \in pendStream

\* The states, and what they say about the rest of a stream and the loop.
Shape ==
    /\ TypeOK
    /\ \A i \in Ids : state[i] \in Reached
    /\ \A i \in Ids : header[i] # "none" <=> Idle(i)
    /\ \A i \in Ids : state[i] = "none" <=> i >= nextId
    /\ phase # "dead"
    /\ cursor # None => phase = "input"
    /\ goaway => phase \in {"receive", "exit"}
    /\ phase = "input" => batch <= Len(pendSend)

\* Where the streams are: each in one place, and only those that are to be sent
\* or were closed while they waited.
Placed ==
    /\ Once(pendConc) /\ Once(pendSend) /\ Once(pendConn)
    /\ \A i \in Ids :
         /\ InSeq(i, pendConc) => ~InSeq(i, pendSend) /\ ~InSeq(i, pendConn) /\ i \notin pendStream
         /\ InSeq(i, pendSend) => ~InSeq(i, pendConn) /\ i \notin pendStream
         /\ InSeq(i, pendConn) => i \notin pendStream
         /\ i = cursor => ~Queued(i)
         /\ Queued(i) \/ i = cursor => state[i] \notin {"none", "LocalH", "LocalD"}
         /\ Running /\ Unsent(i) => Queued(i) \/ i = cursor
         /\ InSeq(i, pendConc) => Idle(i) \/ (goaway /\ ~Unclosed(i))
    /\ \A i \in pendStream : win[i] <= 0
    /\ pendConn # <<>> => connWin = 0

\* Where the streams are that were not opened yet, in the order of their ids.
Ordered ==
    /\ \A j, k \in DOMAIN pendConc : j < k => pendConc[j] < pendConc[k]
    /\ \A j, k \in DOMAIN pendSend :
         j < k /\ Idle(pendSend[j]) /\ Idle(pendSend[k]) => pendSend[j] < pendSend[k]
    /\ \A j \in DOMAIN pendSend, k \in DOMAIN pendConc : Idle(pendSend[j]) => pendSend[j] < pendConc[k]
    /\ \A i \in Ids : Idle(i) =>
         /\ cursor # None /\ Idle(cursor) => cursor <= i
         /\ \/ InSeq(i, pendConc)
            \/ phase = "request" /\ InSeq(i, pendSend)
            \/ phase = "input" /\ cursor = i
            \/ phase = "input" /\ \E k \in 1 .. batch : k \in DOMAIN pendSend /\ pendSend[k] = i
    /\ OpenedInOrder

\* The streams that current_concurrent_streams counts.
Counted == {i \in Ids : Unclosed(i) /\ ~InSeq(i, pendConc)}

\* The count is exact, and within the limit while a stream waits to be opened.
Limited ==
    /\ Running => cur = Cardinality(Counted)
    /\ phase \in {"request", "input"} /\ (\E i \in Ids : Idle(i) /\ ~InSeq(i, pendConc)) => cur <= max

IInv == Shape /\ Placed /\ Ordered /\ Limited

---------------------------------------------------------------------------
(* Sequences: what Append, \o, Tail and SubSeq do to the streams in a queue. *)

\* A queue is a function on its places.
LEMMA LenFacts ==
  ASSUME NEW S, NEW q \in Seq(S)
  PROVE  /\ Len(q) \in Nat /\ DOMAIN q = 1 .. Len(q) /\ q \in [1 .. Len(q) -> S]
         /\ \A k \in 1 .. Len(q) : q[k] \in S
BY SMTT(30)

\* The queue without a stream.
LEMMA EmptyFacts ==
  ASSUME NEW S
  PROVE  <<>> \in Seq(S) /\ \A q \in Seq(S) : q = <<>> <=> Len(q) = 0
BY SMTT(30)

\* push_back.
LEMMA AppendFacts ==
  ASSUME NEW S, NEW q \in Seq(S), NEW x \in S
  PROVE  /\ Append(q, x) \in Seq(S) /\ Len(Append(q, x)) = Len(q) + 1
         /\ \A k \in 1 .. Len(q) : Append(q, x)[k] = q[k]
         /\ Append(q, x)[Len(q) + 1] = x
BY SMTT(30)

\* extend.
LEMMA ConcatFacts ==
  ASSUME NEW S, NEW p \in Seq(S), NEW q \in Seq(S)
  PROVE  /\ p \o q \in Seq(S) /\ Len(p \o q) = Len(p) + Len(q)
         /\ \A k \in 1 .. Len(p) + Len(q) : (p \o q)[k] = IF k <= Len(p) THEN p[k] ELSE q[k - Len(p)]
BY SMTT(30)

\* pop_front.
LEMMA TailFacts ==
  ASSUME NEW S, NEW q \in Seq(S), q # <<>>
  PROVE  /\ Len(q) \in Nat \ {0} /\ Head(q) = q[1] /\ Tail(q) \in Seq(S) /\ Len(Tail(q)) = Len(q) - 1
         /\ \A k \in 1 .. Len(q) - 1 : Tail(q)[k] = q[k + 1]
BY SMTT(30)

\* A stretch of a queue.
LEMMA SubSeqFacts ==
  ASSUME NEW S, NEW q \in Seq(S), NEW m \in 1 .. Len(q) + 1, NEW n \in 0 .. Len(q)
  PROVE  /\ SubSeq(q, m, n) \in Seq(S)
         /\ Len(SubSeq(q, m, n)) = IF m <= n THEN n - m + 1 ELSE 0
         /\ \A k \in 1 .. n - m + 1 : SubSeq(q, m, n)[k] = q[m + k - 1]
BY SMTT(30)

\* An empty queue holds no stream.
LEMMA InEmpty ==
  ASSUME NEW i
  PROVE  ~InSeq(i, <<>>)
BY SMTT(30) DEF InSeq

\* Every entry of a queue is a stream in it.
LEMMA InQueue ==
  ASSUME NEW S, NEW q \in Seq(S), NEW j \in DOMAIN q
  PROVE  q[j] \in S /\ InSeq(q[j], q)
<1>1. DOMAIN q = 1 .. Len(q)
  BY LenFacts
<1> QED BY <1>1, LenFacts DEF InSeq

\* push_back adds one stream.
LEMMA InAppend ==
  ASSUME NEW S, NEW q \in Seq(S), NEW x \in S, NEW i
  PROVE  InSeq(i, Append(q, x)) <=> InSeq(i, q) \/ i = x
<1>1. /\ DOMAIN q = 1 .. Len(q) /\ DOMAIN Append(q, x) = 1 .. Len(q) + 1 /\ Len(q) \in Nat
      /\ \A k \in 1 .. Len(q) : Append(q, x)[k] = q[k]
      /\ Append(q, x)[Len(q) + 1] = x
  BY AppendFacts, LenFacts, SMTT(30)
<1> QED BY <1>1, SMTT(30) DEF InSeq

\* extend adds the streams of the second queue.
LEMMA InConcat ==
  ASSUME NEW S, NEW p \in Seq(S), NEW q \in Seq(S), NEW i
  PROVE  InSeq(i, p \o q) <=> InSeq(i, p) \/ InSeq(i, q)
<1>1. /\ DOMAIN p = 1 .. Len(p) /\ DOMAIN q = 1 .. Len(q) /\ Len(p) \in Nat /\ Len(q) \in Nat
      /\ DOMAIN (p \o q) = 1 .. Len(p) + Len(q)
      /\ \A k \in 1 .. Len(p) + Len(q) : (p \o q)[k] = IF k <= Len(p) THEN p[k] ELSE q[k - Len(p)]
  BY ConcatFacts, LenFacts, SMTT(30)
<1>2. InSeq(i, p) => InSeq(i, p \o q)
  BY <1>1, SMTT(30) DEF InSeq
<1>3. ASSUME NEW k \in DOMAIN q, q[k] = i PROVE InSeq(i, p \o q)
  <2>1. k + Len(p) \in DOMAIN (p \o q) /\ (p \o q)[k + Len(p)] = q[k]
    BY <1>1, SMTT(30)
  <2> QED BY <2>1, <1>3 DEF InSeq
<1>4. ASSUME NEW k \in DOMAIN (p \o q), (p \o q)[k] = i PROVE InSeq(i, p) \/ InSeq(i, q)
  <2>1. CASE k <= Len(p)
    BY <2>1, <1>1, <1>4, SMTT(30) DEF InSeq
  <2>2. CASE ~(k <= Len(p))
    <3>1. k - Len(p) \in DOMAIN q /\ q[k - Len(p)] = i
      BY <2>2, <1>1, <1>4, SMTT(30)
    <3> QED BY <3>1 DEF InSeq
  <2> QED BY <2>1, <2>2
<1> QED BY <1>2, <1>3, <1>4 DEF InSeq

\* pop_front takes the first stream.
LEMMA InTail ==
  ASSUME NEW S, NEW q \in Seq(S), q # <<>>, NEW i
  PROVE  InSeq(i, q) <=> i = Head(q) \/ InSeq(i, Tail(q))
<1>1. /\ DOMAIN q = 1 .. Len(q) /\ Len(q) \in Nat \ {0}
      /\ DOMAIN Tail(q) = 1 .. Len(q) - 1 /\ Head(q) = q[1]
      /\ \A k \in 1 .. Len(q) - 1 : Tail(q)[k] = q[k + 1]
  BY TailFacts, LenFacts
<1>2. ASSUME NEW k \in DOMAIN q, q[k] = i PROVE i = Head(q) \/ InSeq(i, Tail(q))
  <2>1. CASE k = 1
    BY <2>1, <1>1, <1>2
  <2>2. CASE k # 1
    <3>1. k - 1 \in DOMAIN Tail(q) /\ Tail(q)[k - 1] = i
      BY <2>2, <1>1, <1>2, SMTT(30)
    <3> QED BY <3>1 DEF InSeq
  <2> QED BY <2>1, <2>2
<1>3. ASSUME NEW k \in DOMAIN Tail(q), Tail(q)[k] = i PROVE InSeq(i, q)
  <2>1. k + 1 \in DOMAIN q /\ q[k + 1] = i
    BY <1>1, <1>3, SMTT(30)
  <2> QED BY <2>1 DEF InSeq
<1>4. InSeq(Head(q), q)
  BY <1>1, SMTT(30) DEF InSeq
<1> QED BY <1>2, <1>3, <1>4 DEF InSeq

\* A stream that was not in the queue is in it once after push_back.
LEMMA OnceAppend ==
  ASSUME NEW S, NEW q \in Seq(S), NEW x \in S, Once(q), ~InSeq(x, q)
  PROVE  Once(Append(q, x))
<1>1. /\ DOMAIN q = 1 .. Len(q) /\ DOMAIN Append(q, x) = 1 .. Len(q) + 1 /\ Len(q) \in Nat
      /\ \A k \in 1 .. Len(q) : Append(q, x)[k] = q[k]
      /\ Append(q, x)[Len(q) + 1] = x
  BY AppendFacts, LenFacts, SMTT(30)
<1>2. SUFFICES ASSUME NEW j \in 1 .. Len(q) + 1, NEW k \in 1 .. Len(q) + 1,
                      Append(q, x)[j] = Append(q, x)[k]
               PROVE  j = k
  BY <1>1 DEF Once
<1>3. CASE j \in 1 .. Len(q) /\ k \in 1 .. Len(q)
  BY <1>1, <1>2, <1>3 DEF Once
<1>4. CASE j = Len(q) + 1 \/ k = Len(q) + 1
  BY <1>1, <1>2, <1>4, SMTT(30) DEF InSeq
<1> QED BY <1>1, <1>3, <1>4, SMTT(30)

\* Two queues with different streams make one without a stream twice.
LEMMA OnceConcat ==
  ASSUME NEW S, NEW p \in Seq(S), NEW q \in Seq(S), Once(p), Once(q),
         \A i \in S : ~(InSeq(i, p) /\ InSeq(i, q))
  PROVE  Once(p \o q)
<1>1. /\ DOMAIN p = 1 .. Len(p) /\ DOMAIN q = 1 .. Len(q) /\ Len(p) \in Nat /\ Len(q) \in Nat
      /\ DOMAIN (p \o q) = 1 .. Len(p) + Len(q)
      /\ \A k \in 1 .. Len(p) + Len(q) : (p \o q)[k] = IF k <= Len(p) THEN p[k] ELSE q[k - Len(p)]
      /\ p \in [1 .. Len(p) -> S]
  BY ConcatFacts, LenFacts, SMTT(30)
<1>2. ASSUME NEW j \in 1 .. Len(p), NEW k \in 1 .. Len(q) PROVE p[j] # q[k]
  BY <1>1 DEF InSeq
<1>3. SUFFICES ASSUME NEW j \in 1 .. Len(p) + Len(q), NEW k \in 1 .. Len(p) + Len(q),
                      (p \o q)[j] = (p \o q)[k]
               PROVE  j = k
  BY <1>1 DEF Once
<1>4. CASE j <= Len(p) /\ k <= Len(p)
  BY <1>1, <1>3, <1>4, SMTT(30) DEF Once
<1>5. CASE j > Len(p) /\ k > Len(p)
  <2>1. j - Len(p) \in DOMAIN q /\ k - Len(p) \in DOMAIN q /\ q[j - Len(p)] = q[k - Len(p)]
    BY <1>1, <1>3, <1>5, SMTT(30)
  <2>2. j - Len(p) = k - Len(p)
    BY <2>1 DEF Once
  <2> QED BY <2>2, <1>1, SMTT(30)
<1>6. CASE j <= Len(p) /\ k > Len(p)
  <2>1. k - Len(p) \in 1 .. Len(q) /\ p[j] = q[k - Len(p)]
    BY <1>1, <1>3, <1>6, SMTT(30)
  <2> QED BY <2>1, <1>2, <1>6, <1>1, SMTT(30)
<1>7. CASE j > Len(p) /\ k <= Len(p)
  <2>1. j - Len(p) \in 1 .. Len(q) /\ p[k] = q[j - Len(p)]
    BY <1>1, <1>3, <1>7, SMTT(30)
  <2> QED BY <2>1, <1>2, <1>7, <1>1, SMTT(30)
<1> QED BY <1>1, <1>4, <1>5, <1>6, <1>7, SMTT(30)

\* The stream that pop_front takes is in the queue no more.
LEMMA OnceTail ==
  ASSUME NEW S, NEW q \in Seq(S), q # <<>>, Once(q)
  PROVE  Once(Tail(q)) /\ ~InSeq(Head(q), Tail(q))
<1>1. /\ DOMAIN q = 1 .. Len(q) /\ Len(q) \in Nat \ {0}
      /\ DOMAIN Tail(q) = 1 .. Len(q) - 1 /\ Head(q) = q[1]
      /\ \A k \in 1 .. Len(q) - 1 : Tail(q)[k] = q[k + 1]
  BY TailFacts, LenFacts
<1>2. ASSUME NEW j \in DOMAIN Tail(q), NEW k \in DOMAIN Tail(q), Tail(q)[j] = Tail(q)[k] PROVE j = k
  <2>1. j + 1 \in DOMAIN q /\ k + 1 \in DOMAIN q /\ q[j + 1] = q[k + 1]
    BY <1>1, <1>2, SMTT(30)
  <2>2. j + 1 = k + 1
    BY <2>1 DEF Once
  <2> QED BY <2>2, <1>1, SMTT(30)
<1>3. ASSUME NEW k \in DOMAIN Tail(q), Tail(q)[k] = Head(q) PROVE FALSE
  <2>1. k + 1 \in DOMAIN q /\ 1 \in DOMAIN q /\ q[k + 1] = q[1]
    BY <1>1, <1>3, SMTT(30)
  <2>2. k + 1 = 1
    BY <2>1 DEF Once
  <2> QED BY <2>2, <1>1, SMTT(30)
<1> QED BY <1>2, <1>3 DEF Once, InSeq

\* A queue that is cut in two loses no stream and doubles none.
LEMMA Split ==
  ASSUME NEW S, NEW q \in Seq(S), NEW n \in 0 .. Len(q)
  PROVE  LET p == SubSeq(q, 1, n)
             r == SubSeq(q, n + 1, Len(q))
         IN  /\ p \in Seq(S) /\ r \in Seq(S) /\ Len(p) = n /\ Len(r) = Len(q) - n
             /\ \A k \in 1 .. n : p[k] = q[k]
             /\ \A k \in 1 .. Len(q) - n : r[k] = q[n + k]
             /\ \A i : InSeq(i, q) <=> InSeq(i, p) \/ InSeq(i, r)
             /\ Once(q) => Once(p) /\ Once(r) /\ \A i : ~(InSeq(i, p) /\ InSeq(i, r))
<1> DEFINE p == SubSeq(q, 1, n)
           r == SubSeq(q, n + 1, Len(q))
<1>1. Len(q) \in Nat /\ DOMAIN q = 1 .. Len(q) /\ \A k \in 1 .. Len(q) : q[k] \in S
  BY LenFacts
<1>a. /\ p \in Seq(S) /\ Len(p) = IF 1 <= n THEN n - 1 + 1 ELSE 0
      /\ \A k \in 1 .. n - 1 + 1 : p[k] = q[1 + k - 1]
  <2>1. 1 \in 1 .. Len(q) + 1
    BY <1>1, SMTT(30)
  <2> QED BY <2>1, SubSeqFacts
<1>b. /\ r \in Seq(S) /\ Len(r) = IF n + 1 <= Len(q) THEN Len(q) - (n + 1) + 1 ELSE 0
      /\ \A k \in 1 .. Len(q) - (n + 1) + 1 : r[k] = q[n + 1 + k - 1]
  <2>1. n + 1 \in 1 .. Len(q) + 1 /\ Len(q) \in 0 .. Len(q)
    BY <1>1, SMTT(30)
  <2> QED BY <2>1, SubSeqFacts
<1>c. DOMAIN p = 1 .. Len(p) /\ DOMAIN r = 1 .. Len(r)
  BY <1>a, <1>b, LenFacts
<1> HIDE DEF p, r
<1>2. /\ p \in Seq(S) /\ Len(p) = n /\ DOMAIN p = 1 .. n
      /\ \A k \in 1 .. n : p[k] = q[k]
  BY <1>a, <1>c, <1>1, SMTT(30)
<1>3. /\ r \in Seq(S) /\ Len(r) = Len(q) - n /\ DOMAIN r = 1 .. Len(q) - n
      /\ \A k \in 1 .. Len(q) - n : r[k] = q[n + k]
  <2>0. Len(r) = IF n + 1 <= Len(q) THEN Len(q) - (n + 1) + 1 ELSE 0
    BY <1>b
  <2>a. \A l \in Nat : \A m \in 0 .. l : (IF m + 1 <= l THEN l - (m + 1) + 1 ELSE 0) = l - m
    BY SMTT(30)
  <2>b. Len(q) \in Nat
    BY <1>1
  <2>1. Len(r) = Len(q) - n
    BY <2>0, <2>a, <2>b
  <2>2. ASSUME NEW k \in 1 .. Len(q) - n PROVE r[k] = q[n + k]
    <3>0. \A m \in 1 .. Len(q) - (n + 1) + 1 : r[m] = q[n + 1 + m - 1]
      BY <1>b
    <3>1. k \in 1 .. Len(q) - (n + 1) + 1 /\ n + 1 + k - 1 = n + k
      BY <1>1, SMTT(30)
    <3> QED BY <3>0, <3>1
  <2> QED BY <1>b, <1>c, <2>1, <2>2
<1>d. ASSUME NEW k \in DOMAIN r PROVE k \in Nat \ {0} /\ n + k \in DOMAIN q /\ q[n + k] = r[k]
  BY <1>1, <1>3, SMTT(30)
<1>e. ASSUME NEW k \in DOMAIN p PROVE k \in Nat /\ k <= n /\ k \in DOMAIN q /\ q[k] = p[k]
  BY <1>1, <1>2, SMTT(30)
<1>4. ASSUME NEW i PROVE InSeq(i, q) <=> InSeq(i, p) \/ InSeq(i, r)
  <2>1. ASSUME NEW k \in DOMAIN q, q[k] = i PROVE InSeq(i, p) \/ InSeq(i, r)
    <3>1. CASE k <= n
      BY <3>1, <2>1, <1>1, <1>2, SMTT(30) DEF InSeq
    <3>2. CASE k > n
      <4>1. k - n \in DOMAIN r /\ r[k - n] = i
        BY <3>2, <2>1, <1>1, <1>3, SMTT(30)
      <4> QED BY <4>1 DEF InSeq
    <3> QED BY <3>1, <3>2, <1>1, SMTT(30)
  <2>2. InSeq(i, p) => InSeq(i, q)
    BY <1>1, <1>2, SMTT(30) DEF InSeq
  <2>3. ASSUME NEW k \in DOMAIN r, r[k] = i PROVE InSeq(i, q)
    <3>1. n + k \in DOMAIN q /\ q[n + k] = i
      BY <2>3, <1>1, <1>3, SMTT(30)
    <3> QED BY <3>1 DEF InSeq
  <2> QED BY <2>1, <2>2, <2>3 DEF InSeq
<1>5. ASSUME Once(q) PROVE Once(p) /\ Once(r) /\ \A i : ~(InSeq(i, p) /\ InSeq(i, r))
  <2>1. Once(p)
    BY <1>5, <1>1, <1>2, SMTT(30) DEF Once
  <2>2. ASSUME NEW j \in DOMAIN r, NEW k \in DOMAIN r, r[j] = r[k] PROVE j = k
    <3>1. n + j \in DOMAIN q /\ n + k \in DOMAIN q /\ q[n + j] = q[n + k]
      BY <2>2, <1>d
    <3>2. n + j = n + k
      BY <3>1, <1>5 DEF Once
    <3>3. j \in Nat /\ k \in Nat
      BY <1>d
    <3> QED BY <3>2, <3>3, SMTT(30)
  <2>3. ASSUME NEW j \in DOMAIN p, NEW k \in DOMAIN r, p[j] = r[k] PROVE FALSE
    <3>1. j \in DOMAIN q /\ n + k \in DOMAIN q /\ q[j] = q[n + k]
      BY <2>3, <1>d, <1>e
    <3>2. j = n + k
      BY <3>1, <1>5 DEF Once
    <3>3. j <= n /\ j \in Nat /\ k \in Nat \ {0}
      BY <1>d, <1>e
    <3> QED BY <3>2, <3>3, SMTT(30)
  <2> QED BY <2>1, <2>2, <2>3 DEF Once, InSeq
<1> QED BY <1>2, <1>3, <1>4, <1>5 DEF p, r

---------------------------------------------------------------------------
(* The states of one stream. *)

Waiting == {"Idle", "OpenDH", "OpenDD", "RemoteD"}
Finished == {"LocalH", "LocalD"}
Known == Reached \ {"none", "Idle"}

\* The states are told apart.
LEMMA StateSets ==
  /\ Reached \subseteq States
  /\ \A s \in Reached : s \in OpenStates <=> s \in {"OpenDH", "OpenDD", "RemoteD"} \cup Finished
  /\ \A s \in Reached : s \notin ClosedStates \cup {"none"} <=> s \in Waiting \cup Finished
  /\ \A s \in Reached :
       s \in {"Idle", "OpenHD", "OpenHH", "OpenDH", "OpenDD", "RemoteH", "RemoteD"} <=> s \in Waiting
BY DEF Reached, States, OpenStates, ClosedStates, Waiting, Finished

\* send_headers_frame on a stream that has not sent its HEADERS.
LEMMA HeadersSent ==
  ASSUME NEW e \in BOOLEAN
  PROVE  SendHeadersState("Idle", e) = IF e THEN "LocalH" ELSE "OpenDH"
BY DEF SendHeadersState

\* send_data_frame on a stream that has a body to send never fails.
LEMMA DataSent ==
  ASSUME NEW s \in Waiting \ {"Idle"}
  PROVE  /\ SendDataState(s, FALSE) = s
         /\ SendDataState(s, TRUE) \in Finished \cup {"EndStream"}
BY DEF SendDataState, Waiting, Finished

\* A response frame moves the receiving side of an open stream and leaves the
\* sending side alone.
Answered(s, t) ==
    /\ s \in Waiting \cup Finished /\ s # "Idle"
    /\ t \in Known
    /\ s \in Waiting => t \in Waiting \ {"Idle"}
    /\ s \in Finished => t \in Finished \cup {"EndStream"}

\* recv_headers and recv_data on a stream the server knows.
LEMMA FrameMoves ==
  ASSUME NEW s \in Known, NEW e \in BOOLEAN
  PROVE  /\ RecvHeadersState(s, e) \in {"error", "ignore"} \/ Answered(s, RecvHeadersState(s, e))
         /\ RecvDataState(s, e) \in {"error", "ignore"} \/ Answered(s, RecvDataState(s, e))
BY DEF Known, Reached, ClosedStates, RecvHeadersState, RecvDataState, Answered, Waiting, Finished

---------------------------------------------------------------------------
(* Facts about any state that satisfies the invariant. *)

\* What is known of one stream.
LEMMA OneStream ==
  ASSUME IInv, NEW i \in Ids
  PROVE  /\ state[i] \in Reached
         /\ Unclosed(i) <=> state[i] \in Waiting \cup Finished
         /\ Unsent(i) <=> state[i] \in Waiting
         /\ Idle(i) => Unclosed(i) /\ Unsent(i)
         /\ Unclosed(i) /\ ~Idle(i) => ~InSeq(i, pendConc)
<1>1. state[i] \in Reached
  BY DEF IInv, Shape
<1>2. (Unclosed(i) <=> state[i] \in Waiting \cup Finished) /\ (Unsent(i) <=> state[i] \in Waiting)
  BY <1>1, StateSets DEF Unclosed, Unsent
<1>3. Idle(i) => Unclosed(i) /\ Unsent(i)
  BY DEF Idle, Unclosed, Unsent, ClosedStates
<1>4. Unclosed(i) /\ ~Idle(i) => ~InSeq(i, pendConc)
  BY DEF IInv, Placed
<1> QED BY <1>1, <1>2, <1>3, <1>4

\* While frames are handled, a stream that was not opened waits for a slot.
LEMMA IdleWaits ==
  ASSUME IInv, phase = "receive", NEW i \in Ids, Idle(i)
  PROVE  InSeq(i, pendConc) /\ ~InSeq(i, pendSend) /\ ~InSeq(i, pendConn) /\ i \notin pendStream
<1>1. InSeq(i, pendConc)
  BY DEF IInv, Ordered
<1> QED BY <1>1 DEF IInv, Placed

\* What the proofs use of Cardinality for the streams of one connection: sets of
\* disjoint streams add up, and a queue that holds no stream twice is as long as
\* the set of its streams.
CardFacts ==
    /\ \A S \in SUBSET Ids : Cardinality(S) \in Nat
    /\ Cardinality({}) = 0
    /\ \A i \in Ids : Cardinality({i}) = 1
    /\ \A S, T \in SUBSET Ids : S \cap T = {} => Cardinality(S \cup T) = Cardinality(S) + Cardinality(T)
    /\ \A S \in SUBSET Ids : \A q \in Orders(S) : Once(q)
    /\ \A q \in Seq(Ids) : Once(q) => Cardinality({i \in Ids : InSeq(i, q)}) = Len(q)

\* The number of streams in two sets without a common one.
LEMMA CountUnion ==
  ASSUME CardFacts, NEW S \in SUBSET Ids, NEW T \in SUBSET Ids, S \cap T = {}
  PROVE  /\ Cardinality(S) \in Nat /\ Cardinality(T) \in Nat
         /\ Cardinality(S \cup T) = Cardinality(S) + Cardinality(T)
BY DEF CardFacts

\* The number of streams that are left when some are taken away.
LEMMA CountParts ==
  ASSUME CardFacts, NEW S \in SUBSET Ids, NEW T \in SUBSET S
  PROVE  /\ Cardinality(S) \in Nat /\ Cardinality(T) \in Nat
         /\ Cardinality(S \ T) = Cardinality(S) - Cardinality(T) /\ Cardinality(T) <= Cardinality(S)
<1>1. T \in SUBSET Ids /\ S \ T \in SUBSET Ids /\ T \cap (S \ T) = {} /\ T \cup (S \ T) = S
  OBVIOUS
<1>2. /\ Cardinality(T) \in Nat /\ Cardinality(S \ T) \in Nat
      /\ Cardinality(T \cup (S \ T)) = Cardinality(T) + Cardinality(S \ T)
  BY <1>1, CountUnion
<1>3. Cardinality(S) = Cardinality(T) + Cardinality(S \ T)
  BY <1>1, <1>2
<1> QED BY <1>2, <1>3, SMTT(30)

\* One stream counts one.
LEMMA CountOne ==
  ASSUME CardFacts, NEW i \in Ids
  PROVE  Cardinality({i}) = 1 /\ Cardinality({}) = 0
BY DEF CardFacts

\* The streams that are counted are streams of the connection.
LEMMA CountedIds == Counted \in SUBSET Ids /\ Counted' \in SUBSET Ids
BY DEF Counted

---------------------------------------------------------------------------
(* The end of the connection. *)

\* exit_with_error leaves no stream open and no stream queued.
LEMMA CloseAllInv ==
  ASSUME CardFacts, IInv, phase = "receive", NEW s,
         \A i \in Ids : s[i] = state[i] \/ (Unclosed(i) /\ s[i] = "RemoteGoAway"),
         CloseAll(s), max' \in Limits, maxSendId' \in Nat, goaway' \in BOOLEAN
  PROVE  IInv'
<1>0. TypeOK /\ cursor = None
  BY DEF IInv, Shape
<1>1. ASSUME NEW i \in Ids
      PROVE  /\ state'[i] \in Reached \ {"Idle"}
             /\ state'[i] = "none" <=> state[i] = "none"
             /\ header'[i] = "none"
  <2>1. state[i] \in Reached
    BY OneStream
  <2>2. state'[i] = IF s[i] \in ClosedStates \cup {"none"} THEN s[i] ELSE "LocalGoAway"
    BY DEF CloseAll
  <2>3. CASE Unclosed(i)
    <3>1. header'[i] = "none"
      BY <2>3 DEF CloseAll
    <3>2. state[i] \notin ClosedStates \cup {"none"}
      BY <2>3 DEF Unclosed
    <3>3. state'[i] \in {"RemoteGoAway", "LocalGoAway"}
      BY <2>2, <3>2
    <3> QED BY <3>1, <3>2, <3>3 DEF Reached, ClosedStates
  <2>4. CASE ~Unclosed(i)
    <3>1. state'[i] = state[i] /\ header'[i] = header[i]
      BY <2>2, <2>4 DEF CloseAll, Unclosed
    <3>2. ~Idle(i)
      BY <2>4, OneStream
    <3> QED BY <3>1, <3>2, <2>1 DEF IInv, Shape, Idle
  <2> QED BY <2>3, <2>4
<1>2. TypeOK'
  <2>1. state' \in [Ids -> States]
    <3>1. state' = [i \in Ids |-> state'[i]]
      BY DEF CloseAll
    <3> QED BY <3>1, <1>1, StateSets
  <2>2. header' \in [Ids -> Headers]
    BY <1>0 DEF CloseAll, TypeOK, Headers
  <2>3. left' \in [Ids -> 0 .. MaxBody]
    BY <1>0, H2Assumption, SMTT(30) DEF CloseAll, TypeOK
  <2> QED BY <2>1, <2>2, <2>3, <1>0, SMTT(30) DEF CloseAll, TypeOK, Phases
<1>3. Shape'
  BY <1>0, <1>1, <1>2 DEF Shape, Idle, CloseAll, IInv
<1>4. Placed'
  <2>1. \A i \in Ids : ~InSeq(i, pendConc)' /\ ~InSeq(i, pendSend)' /\ ~InSeq(i, pendConn)' /\ i \notin pendStream'
    BY InEmpty DEF CloseAll
  <2>2. Once(pendConc)' /\ Once(pendSend)' /\ Once(pendConn)'
    BY SMTT(30) DEF Once, CloseAll
  <2>3. ~Running' /\ pendStream' = {} /\ pendConn' = <<>>
    BY DEF CloseAll, Running
  <2>4. \A i \in Ids : i # cursor'
    BY <1>0, H2Assumption DEF CloseAll
  <2> QED BY <2>1, <2>2, <2>3, <2>4 DEF Placed, Queued
<1>5. Ordered'
  BY <1>1, SMTT(30) DEF Ordered, OpenedInOrder, Idle, CloseAll
<1>6. Limited'
  BY DEF Limited, CloseAll, Running
<1> QED BY <1>3, <1>4, <1>5, <1>6 DEF IInv

---------------------------------------------------------------------------
(* Frames that change streams, and frames that wake them. *)

\* What a frame may do to stream j: it moves the receiving side, ends the stream,
\* gives up one that was never opened, or renames a finished one.
Step(j) ==
    \/ state'[j] = state[j] /\ header'[j] = header[j]
    \/ Unclosed(j) /\ ~Idle(j) /\ header'[j] = "none" /\ Answered(state[j], state'[j])
    \/ Unclosed(j) /\ ~Idle(j) /\ header'[j] = "none" /\ state'[j] \in ClosedStates
    \/ Idle(j) /\ goaway' /\ header'[j] = "none" /\ state'[j] = "RemoteGoAway"
    \/ state[j] = "EndStream" /\ state'[j] = "LocalRst" /\ header'[j] = header[j]

\* The counted streams that a frame ends.
Ended == {j \in Ids : Unclosed(j) /\ ~Idle(j) /\ state'[j] \in ClosedStates}

\* recv_headers, recv_data, recv_remote_reset, send_local_reset and
\* get_unset_streams leave every stream in its queue, and take the streams they
\* end off the count.
LEMMA MovedInv ==
  ASSUME CardFacts, IInv, phase = "receive", TypeOK',
         UNCHANGED <<win, connWin, queues, nextId, loop>>,
         goaway => goaway',
         \A j \in Ids : Step(j),
         cur' = cur - Cardinality(Ended)
  PROVE  IInv'
<1>0. /\ pendConc' = pendConc /\ pendSend' = pendSend /\ pendConn' = pendConn
      /\ pendStream' = pendStream /\ phase' = "receive" /\ batch' = batch /\ cursor' = None
      /\ cursor = None
  BY DEF queues, loop, IInv, Shape
<1>1. ASSUME NEW j \in Ids
      PROVE  /\ state'[j] \in Reached
             /\ Idle(j)' => Idle(j)
             /\ header'[j] # "none" <=> Idle(j)'
             /\ state'[j] = "none" <=> state[j] = "none"
             /\ state[j] \notin Finished => state'[j] \notin Finished
             /\ Unsent(j)' => Unsent(j)
             /\ Unclosed(j)' <=> Unclosed(j) /\ state'[j] \notin ClosedStates
             /\ Idle(j) => Idle(j)' \/ (goaway' /\ state'[j] = "RemoteGoAway")
             /\ ~Unclosed(j) => ~Unclosed(j)'
  <2>1. /\ state[j] \in Reached /\ (header[j] # "none" <=> Idle(j))
        /\ (Unclosed(j) <=> state[j] \in Waiting \cup Finished)
        /\ (Unsent(j) <=> state[j] \in Waiting)
    BY OneStream DEF IInv, Shape
  <2>2. Step(j)
    OBVIOUS
  <2>3. CASE state'[j] = state[j] /\ header'[j] = header[j]
    BY <2>1, <2>3 DEF Idle, Unclosed, Unsent
  <2>4. CASE Unclosed(j) /\ ~Idle(j) /\ header'[j] = "none" /\ Answered(state[j], state'[j])
    BY <2>1, <2>4 DEF Idle, Unclosed, Unsent, Answered, Known, Reached, Waiting, Finished, ClosedStates
  <2>5. CASE Unclosed(j) /\ ~Idle(j) /\ header'[j] = "none" /\ state'[j] \in ClosedStates
    BY <2>1, <2>5 DEF Idle, Unclosed, Unsent, Reached, Waiting, Finished, ClosedStates
  <2>6. CASE Idle(j) /\ goaway' /\ header'[j] = "none" /\ state'[j] = "RemoteGoAway"
    BY <2>1, <2>6 DEF Idle, Unclosed, Unsent, Reached, Waiting, Finished, ClosedStates
  <2>7. CASE state[j] = "EndStream" /\ state'[j] = "LocalRst" /\ header'[j] = header[j]
    BY <2>1, <2>7 DEF Idle, Unclosed, Unsent, Reached, Waiting, Finished, ClosedStates
  <2> QED BY <2>2, <2>3, <2>4, <2>5, <2>6, <2>7 DEF Step
<1>2. Shape'
  <2>1. (\A j \in Ids : state'[j] \in Reached) /\ (\A j \in Ids : header'[j] # "none" <=> Idle(j)')
    BY <1>1
  <2>2. \A j \in Ids : state'[j] = "none" <=> j >= nextId'
    BY <1>1 DEF IInv, Shape
  <2> QED BY <1>0, <2>1, <2>2 DEF Shape
<1>3. Placed'
  <2>1. Once(pendConc)' /\ Once(pendSend)' /\ Once(pendConn)'
    BY <1>0 DEF IInv, Placed, Once
  <2>2. (\A i \in pendStream' : win'[i] <= 0) /\ (pendConn' # <<>> => connWin' = 0)
    BY <1>0 DEF IInv, Placed
  <2>3. ASSUME NEW i \in Ids
        PROVE  /\ InSeq(i, pendConc)' <=> InSeq(i, pendConc)
               /\ InSeq(i, pendSend)' <=> InSeq(i, pendSend)
               /\ InSeq(i, pendConn)' <=> InSeq(i, pendConn)
               /\ Queued(i)' <=> Queued(i)
    BY <1>0 DEF InSeq, Queued
  <2>4. ASSUME NEW i \in Ids
        PROVE  /\ Queued(i) => state'[i] \notin {"none", "LocalH", "LocalD"}
               /\ Running' /\ Unsent(i)' => Queued(i)
               /\ InSeq(i, pendConc) => Idle(i)' \/ (goaway' /\ ~Unclosed(i)')
    <3>1. /\ Queued(i) => state[i] \notin {"none", "LocalH", "LocalD"}
          /\ Unsent(i) => Queued(i)
          /\ InSeq(i, pendConc) => Idle(i) \/ (goaway /\ ~Unclosed(i))
      BY <1>0, H2Assumption DEF IInv, Placed, Running
    <3>2. Idle(i) => Idle(i)' \/ (goaway' /\ ~Unclosed(i)')
      BY <1>1 DEF Unclosed, ClosedStates
    <3> QED BY <3>1, <3>2, <1>1 DEF Finished
  <2>5. \A i \in Ids : i # cursor'
    BY <1>0, H2Assumption
  <2>6. \A i \in Ids :
         /\ InSeq(i, pendConc) => ~InSeq(i, pendSend) /\ ~InSeq(i, pendConn) /\ i \notin pendStream
         /\ InSeq(i, pendSend) => ~InSeq(i, pendConn) /\ i \notin pendStream
         /\ InSeq(i, pendConn) => i \notin pendStream
    BY DEF IInv, Placed
  <2> QED BY <1>0, <2>1, <2>2, <2>3, <2>4, <2>5, <2>6 DEF Placed
<1>4. Ordered'
  <2>1. \A j, k \in DOMAIN pendConc : j < k => pendConc[j] < pendConc[k]
    BY DEF IInv, Ordered
  <2>2. ASSUME NEW j \in DOMAIN pendSend PROVE state'[pendSend[j]] # "Idle"
    <3>0. pendSend \in Seq(Ids)
      BY DEF IInv, Shape, TypeOK
    <3>1. pendSend[j] \in Ids /\ InSeq(pendSend[j], pendSend)
      BY <3>0, InQueue
    <3>2. ~Idle(pendSend[j])
      BY <3>1, IdleWaits
    <3> QED BY <3>1, <3>2, <1>1 DEF Idle
  <2>3. ASSUME NEW i \in Ids, Idle(i)' PROVE InSeq(i, pendConc)'
    BY <2>3, <1>0, <1>1, IdleWaits DEF InSeq
  <2>4. OpenedInOrder'
    <3> SUFFICES ASSUME NEW i \in Ids, NEW j \in Ids, i < j, state'[i] = "Idle"
                 PROVE  state'[j] \in {"none", "Idle", "RemoteGoAway", "LocalGoAway"}
      BY DEF OpenedInOrder
    <3>1. state[j] \in {"none", "Idle", "RemoteGoAway", "LocalGoAway"}
      BY <1>1 DEF IInv, Ordered, OpenedInOrder, Idle
    <3> QED BY <3>1, <1>1 DEF Idle, Step, Unclosed, ClosedStates
  <2> QED BY <1>0, <2>1, <2>2, <2>3, <2>4, H2Assumption DEF Ordered, Idle
<1>5. Limited'
  <2>1. Counted' = Counted \ Ended
    <3>1. ASSUME NEW j \in Ids PROVE j \in Counted' <=> j \in Counted /\ j \notin Ended
      <4>1. InSeq(j, pendConc)' <=> InSeq(j, pendConc)
        BY <1>0 DEF InSeq
      <4>2. Idle(j) => InSeq(j, pendConc)
        BY IdleWaits
      <4> QED BY <4>1, <4>2, <1>1 DEF Counted, Ended
    <3> QED BY <3>1 DEF Counted
  <2>2. Counted \cap Ended = Ended
    BY OneStream DEF Counted, Ended
  <2>3. Cardinality(Ended) \in Nat /\ Cardinality(Counted') = Cardinality(Counted) - Cardinality(Ended)
    <3>1. Ended \in SUBSET Counted
      BY <2>2
    <3> QED BY <3>1, <2>1, CountedIds, CountParts
  <2>4. cur = Cardinality(Counted)
    BY DEF IInv, Limited, Running
  <2> QED BY <1>0, <2>3, <2>4 DEF Limited
<1> QED BY <1>2, <1>3, <1>4, <1>5 DEF IInv

\* reassign_stream_send_window, reassign_conn_send_window and
\* apply_send_initial_window_size: streams q go from the queues of an opened
\* window to pending_send, and nothing else moves.
LEMMA WakeInv ==
  ASSUME CardFacts, IInv, phase = "receive", TypeOK',
         UNCHANGED <<state, header, cur, pendConc, nextId, goaway, loop>>,
         NEW q \in Seq(Ids), Once(q), pendSend' = pendSend \o q,
         \A i \in Ids : /\ InSeq(i, q) => InSeq(i, pendConn) \/ i \in pendStream
                        /\ InSeq(i, pendConn)' <=> InSeq(i, pendConn) /\ ~InSeq(i, q)
                        /\ i \in pendStream' <=> i \in pendStream /\ ~InSeq(i, q),
         Once(pendConn)',
         \A i \in pendStream' : win'[i] <= 0,
         pendConn' # <<>> => connWin' = 0
  PROVE  IInv'
<1>0. /\ phase' = "receive" /\ batch' = batch /\ cursor' = None /\ cursor = None
      /\ pendSend \in Seq(Ids)
  BY DEF loop, IInv, Shape, TypeOK
<1>1. ASSUME NEW i \in Ids
      PROVE  /\ Idle(i)' <=> Idle(i)
             /\ Unclosed(i)' <=> Unclosed(i)
             /\ Unsent(i)' <=> Unsent(i)
             /\ InSeq(i, pendConc)' <=> InSeq(i, pendConc)
  BY DEF Idle, Unclosed, Unsent, InSeq
<1>2. ASSUME NEW i \in Ids PROVE InSeq(i, pendSend)' <=> InSeq(i, pendSend) \/ InSeq(i, q)
  <2>1. InSeq(i, pendSend \o q) <=> InSeq(i, pendSend) \/ InSeq(i, q)
    BY <1>0, InConcat
  <2> QED BY <2>1
<1>3. \A i \in Ids :
         /\ InSeq(i, pendConc) => ~InSeq(i, pendSend) /\ ~InSeq(i, pendConn) /\ i \notin pendStream
         /\ InSeq(i, pendSend) => ~InSeq(i, pendConn) /\ i \notin pendStream
         /\ InSeq(i, pendConn) => i \notin pendStream
  BY DEF IInv, Placed
<1>4. Shape'
  BY <1>0, <1>1 DEF IInv, Shape
<1>5. Placed'
  <2>1. Once(pendSend)'
    <3>1. Once(pendSend) /\ \A i \in Ids : ~(InSeq(i, pendSend) /\ InSeq(i, q))
      BY <1>3 DEF IInv, Placed
    <3>2. Once(pendSend \o q)
      BY <3>1, <1>0, OnceConcat
    <3> QED BY <3>2 DEF Once
  <2>2. Once(pendConc)'
    BY DEF IInv, Placed, Once
  <2>3. ASSUME NEW i \in Ids PROVE Queued(i)' <=> Queued(i)
    BY <1>1, <1>2 DEF Queued
  <2>4. ASSUME NEW i \in Ids
        PROVE  /\ Queued(i) => state[i] \notin {"none", "LocalH", "LocalD"}
               /\ Unsent(i) => Queued(i)
               /\ InSeq(i, pendConc) => Idle(i) \/ (goaway /\ ~Unclosed(i))
    BY <1>0, H2Assumption DEF IInv, Placed, Running
  <2>5. \A i \in Ids : i # cursor'
    BY <1>0, H2Assumption
  <2>6. ASSUME NEW i \in Ids
        PROVE  /\ InSeq(i, pendConc)' => ~InSeq(i, pendSend)' /\ ~InSeq(i, pendConn)' /\ i \notin pendStream'
               /\ InSeq(i, pendSend)' => ~InSeq(i, pendConn)' /\ i \notin pendStream'
               /\ InSeq(i, pendConn)' => i \notin pendStream'
    BY <1>1, <1>2, <1>3
  <2> QED BY <1>0, <1>1, <2>1, <2>2, <2>3, <2>4, <2>5, <2>6 DEF Placed
<1>6. Ordered'
  <2>1. \A j, k \in DOMAIN pendConc : j < k => pendConc[j] < pendConc[k]
    BY DEF IInv, Ordered
  <2>2. ASSUME NEW j \in DOMAIN pendSend' PROVE state'[pendSend'[j]] # "Idle"
    <3>0. pendSend' \in Seq(Ids)
      BY DEF TypeOK
    <3>1. pendSend'[j] \in Ids /\ InSeq(pendSend'[j], pendSend')
      BY <3>0, InQueue
    <3>2. InSeq(pendSend'[j], pendSend) \/ InSeq(pendSend'[j], q)
      BY <3>1, <1>0, InConcat
    <3>3. ~Idle(pendSend'[j])
      BY <3>1, <3>2, IdleWaits
    <3> QED BY <3>3 DEF Idle
  <2>3. ASSUME NEW i \in Ids, Idle(i)' PROVE InSeq(i, pendConc)'
    BY <2>3, <1>1, IdleWaits
  <2>4. OpenedInOrder'
    BY DEF IInv, Ordered, OpenedInOrder
  <2> QED BY <1>0, <2>1, <2>2, <2>3, <2>4, H2Assumption DEF Ordered, Idle
<1>7. Limited'
  <2>1. Counted' = Counted
    BY <1>1 DEF Counted
  <2>2. cur = Cardinality(Counted)
    BY DEF IInv, Limited, Running
  <2> QED BY <1>0, <2>1, <2>2 DEF Limited
<1> QED BY <1>4, <1>5, <1>6, <1>7 DEF IInv

\* A step that changes nothing.
LEMMA StutterInv ==
  ASSUME IInv, UNCHANGED vars
  PROVE  IInv'
<1>1. /\ state' = state /\ header' = header /\ left' = left /\ win' = win
      /\ connWin' = connWin /\ initWin' = initWin /\ cur' = cur /\ max' = max
      /\ pendConc' = pendConc /\ pendSend' = pendSend /\ pendConn' = pendConn /\ pendStream' = pendStream
      /\ nextId' = nextId /\ maxSendId' = maxSendId /\ goaway' = goaway
      /\ phase' = phase /\ batch' = batch /\ cursor' = cursor
  BY DEF vars, streams, limits, queues, ids, loop
<1>2. Shape'
  BY <1>1 DEF IInv, Shape, TypeOK, Idle
<1>3. Placed'
  BY <1>1 DEF IInv, Placed, Queued, Once, InSeq, Running, Unclosed, Unsent, Idle
<1>4. Ordered'
  BY <1>1 DEF IInv, Ordered, OpenedInOrder, InSeq, Idle
<1>5. Limited'
  BY <1>1 DEF IInv, Limited, Counted, Running, Unclosed, InSeq, Idle
<1> QED BY <1>2, <1>3, <1>4, <1>5 DEF IInv

\* A stream that a frame closes alone is taken off the count once.
LEMMA OneEnded ==
  ASSUME CardFacts, NEW i \in Ids, \A j \in Ids \ {i} : state'[j] = state[j]
  PROVE  Cardinality(Ended) = IF Unclosed(i) /\ ~Idle(i) /\ state'[i] \in ClosedStates THEN 1 ELSE 0
<1>1. ASSUME NEW j \in Ids \ {i} PROVE j \notin Ended
  BY <1>1 DEF Ended, Unclosed
<1>2. CASE Unclosed(i) /\ ~Idle(i) /\ state'[i] \in ClosedStates
  <2>1. Ended = {i}
    BY <1>1, <1>2 DEF Ended
  <2> QED BY <2>1, <1>2, CountOne
<1>3. CASE ~(Unclosed(i) /\ ~Idle(i) /\ state'[i] \in ClosedStates)
  <2>1. Ended = {}
    BY <1>1, <1>3 DEF Ended
  <2> QED BY <2>1, <1>3, CountOne
<1> QED BY <1>2, <1>3

\* A stream the server knows is in no state before its HEADERS.
LEMMA KnownStream ==
  ASSUME IInv, NEW i \in Ids, KnownToPeer(i)
  PROVE  state[i] \in Known /\ ~Idle(i) /\ header[i] = "none"
BY DEF IInv, Shape, KnownToPeer, Known, Idle

\* recv_headers and recv_data, and the reset when the request is gone.
LEMMA ReceiveInv ==
  ASSUME CardFacts, IInv, phase = "receive", NEW i \in Ids, KnownToPeer(i),
         NEW t, t \in {"error", "ignore"} \/ Answered(state[i], t), NEW gone \in BOOLEAN,
         Receive(i, t, gone)
  PROVE  IInv'
<1>0. TypeOK
  BY DEF IInv, Shape
<1>1. CASE t = "error"
  <2>1. CloseAll(state) /\ max' = max /\ maxSendId' = maxSendId /\ goaway' = goaway
    BY <1>1 DEF Receive
  <2>2. max \in Limits /\ maxSendId \in Nat /\ goaway \in BOOLEAN
    BY <1>0 DEF TypeOK
  <2> QED BY <2>1, <2>2, CloseAllInv
<1>2. CASE t = "ignore"
  <2>1. UNCHANGED vars
    BY <1>2 DEF Receive
  <2> QED BY <2>1, StutterInv
<1>3. CASE t \notin {"error", "ignore"}
  <2> DEFINE u == IF gone THEN LocalResetState(t) ELSE t
  <2>1. /\ state' = [state EXCEPT ![i] = u]
        /\ header' = [header EXCEPT ![i] = IF t \notin ClosedStates /\ u \in ClosedStates THEN "none" ELSE @]
        /\ left' = [left EXCEPT ![i] = IF t \notin ClosedStates /\ u \in ClosedStates THEN 0 ELSE @]
        /\ cur' = IF u \in ClosedStates THEN cur - 1 ELSE cur
        /\ UNCHANGED <<win, connWin, initWin, max, queues, ids, loop>>
    BY <1>3 DEF Receive
  <2>2. state[i] \in Known /\ ~Idle(i) /\ header[i] = "none" /\ Answered(state[i], t)
    BY <1>3, KnownStream
  <2>3. Unclosed(i)
    BY <2>2, OneStream DEF Answered
  <2>4. u \in ClosedStates \/ u = t
    BY DEF LocalResetState, ClosedStates
  <2>5. u \in States
    BY <2>2, <2>4, StateSets DEF Answered, Known, States
  <2> HIDE DEF u
  <2>6. state'[i] = u /\ header'[i] = "none" /\ \A j \in Ids \ {i} : state'[j] = state[j] /\ header'[j] = header[j]
    BY <2>1, <2>2, <1>0 DEF TypeOK
  <2>7. TypeOK'
    BY <1>0, <2>1, <2>5, H2Assumption, SMTT(30) DEF TypeOK, queues, ids, loop, Headers
  <2>8. \A j \in Ids : Step(j)
    BY <2>2, <2>3, <2>4, <2>6 DEF Step
  <2>9. cur' = cur - Cardinality(Ended)
    BY <2>1, <2>2, <2>3, <2>6, <1>0, OneEnded, SMTT(30) DEF TypeOK
  <2> QED BY <2>1, <2>7, <2>8, <2>9, MovedInv DEF ids
<1> QED BY <1>1, <1>2, <1>3

\* recv_remote_reset.
LEMMA RecvResetInv ==
  ASSUME CardFacts, IInv, NEW i \in Ids, RecvReset(i)
  PROVE  IInv'
<1>0. TypeOK /\ phase = "receive" /\ KnownToPeer(i) /\ Unclosed(i) /\ ~Idle(i)
  BY KnownStream DEF IInv, Shape, RecvReset
<1>1. /\ state' = [state EXCEPT ![i] = "RemoteRst"] /\ header' = [header EXCEPT ![i] = "none"]
      /\ left' = [left EXCEPT ![i] = 0] /\ cur' = cur - 1
      /\ UNCHANGED <<win, connWin, initWin, max, queues, ids, loop>>
  BY DEF RecvReset, Reset
<1>2. state'[i] = "RemoteRst" /\ header'[i] = "none" /\ \A j \in Ids \ {i} : state'[j] = state[j] /\ header'[j] = header[j]
  BY <1>0, <1>1 DEF TypeOK
<1>3. TypeOK'
  BY <1>0, <1>1, H2Assumption, SMTT(30) DEF TypeOK, queues, ids, loop, Headers, States, ClosedStates
<1>4. \A j \in Ids : Step(j)
  BY <1>0, <1>2 DEF Step, ClosedStates
<1>5. cur' = cur - Cardinality(Ended)
  BY <1>0, <1>1, <1>2, OneEnded DEF TypeOK, ClosedStates
<1> QED BY <1>0, <1>1, <1>3, <1>4, <1>5, MovedInv DEF ids

\* manage_stream_error.
LEMMA StreamErrorInv ==
  ASSUME CardFacts, IInv, NEW i \in Ids, StreamError(i)
  PROVE  IInv'
<1>0. TypeOK /\ phase = "receive" /\ KnownToPeer(i) /\ ~Idle(i) /\ state[i] \in Known /\ header[i] = "none"
  BY KnownStream DEF IInv, Shape, StreamError
<1>1. UNCHANGED <<win, connWin, initWin, max, queues, ids, loop>>
  BY DEF StreamError
<1>2. CASE Unclosed(i)
  <2>1. /\ state' = [state EXCEPT ![i] = "LocalRst"] /\ header' = [header EXCEPT ![i] = "none"]
        /\ left' = [left EXCEPT ![i] = 0] /\ cur' = cur - 1
    BY <1>2 DEF StreamError, Reset
  <2>2. state'[i] = "LocalRst" /\ header'[i] = "none" /\ \A j \in Ids \ {i} : state'[j] = state[j] /\ header'[j] = header[j]
    BY <1>0, <2>1 DEF TypeOK
  <2>3. TypeOK'
    BY <1>0, <1>1, <2>1, H2Assumption, SMTT(30) DEF TypeOK, queues, ids, loop, Headers, States, ClosedStates
  <2>4. \A j \in Ids : Step(j)
    BY <1>0, <1>2, <2>2 DEF Step, ClosedStates
  <2>5. cur' = cur - Cardinality(Ended)
    BY <1>0, <1>2, <2>1, <2>2, OneEnded DEF TypeOK, ClosedStates
  <2> QED BY <1>0, <1>1, <2>3, <2>4, <2>5, MovedInv DEF ids
<1>3. CASE ~Unclosed(i)
  <2>1. state' = [state EXCEPT ![i] = LocalResetState(state[i])] /\ header' = header /\ left' = left /\ cur' = cur
    BY <1>3 DEF StreamError
  <2>a. state[i] \in ClosedStates
    BY <1>0, <1>3 DEF Unclosed, Known
  <2>2. /\ LocalResetState(state[i]) \in States
        /\ \/ LocalResetState(state[i]) = state[i]
           \/ state[i] = "EndStream" /\ LocalResetState(state[i]) = "LocalRst"
    BY <2>a DEF LocalResetState, States, ClosedStates
  <2>3. state'[i] = LocalResetState(state[i]) /\ \A j \in Ids \ {i} : state'[j] = state[j]
    BY <1>0, <2>1 DEF TypeOK
  <2>4. TypeOK'
    BY <1>0, <1>1, <2>1, <2>2 DEF TypeOK, queues, ids, loop
  <2>5. \A j \in Ids : Step(j)
    BY <2>1, <2>2, <2>3 DEF Step
  <2>6. cur' = cur - Cardinality(Ended)
    BY <1>0, <1>3, <2>1, <2>3, OneEnded, SMTT(30) DEF TypeOK
  <2> QED BY <1>0, <1>1, <2>4, <2>5, <2>6, MovedInv DEF ids
<1> QED BY <1>2, <1>3

\* A connection error, of a frame or of the reader.
LEMMA ErrorInv ==
  ASSUME CardFacts, IInv, phase = "receive", CloseAll(state), UNCHANGED <<maxSendId, goaway>>, max' \in Limits
  PROVE  IInv'
<1>1. maxSendId' \in Nat /\ goaway' \in BOOLEAN
  BY DEF IInv, Shape, TypeOK
<1> QED BY <1>1, CloseAllInv

\* recv_window_frame for a stream.
LEMMA RecvStreamWindowInv ==
  ASSUME CardFacts, IInv, NEW i \in Ids, NEW n \in Increments, RecvStreamWindow(i, n)
  PROVE  IInv'
<1>0. TypeOK /\ phase = "receive" /\ n \in Nat
  BY H2Assumption DEF IInv, Shape, RecvStreamWindow
<1>1. CASE win[i] + n > MaxWindow
  <2>1. CloseAll(state) /\ UNCHANGED <<max, maxSendId, goaway>>
    BY <1>1 DEF RecvStreamWindow
  <2> QED BY <1>0, <2>1, ErrorInv DEF TypeOK
<1>2. CASE ~(win[i] + n > MaxWindow)
  <2> DEFINE q == Woken(i)
  <2>1. /\ win' = [win EXCEPT ![i] = @ + n] /\ pendStream' = pendStream \ {i}
        /\ pendSend' = pendSend \o q
        /\ UNCHANGED <<state, header, left, limits, pendConc, pendConn, ids, loop>>
    BY <1>2 DEF RecvStreamWindow
  <2>2. /\ q \in Seq(Ids) /\ Once(q)
        /\ \A j \in Ids : InSeq(j, q) <=> j = i /\ i \in pendStream
    <3>1. CASE i \in pendStream
      <4>1. q = <<i>>
        BY <3>1 DEF Woken
      <4> QED BY <3>1, <4>1, SMTT(30) DEF Once, InSeq
    <3>2. CASE i \notin pendStream
      <4>1. q = <<>>
        BY <3>2 DEF Woken
      <4> QED BY <3>2, <4>1, SMTT(30) DEF Once, InSeq
    <3> QED BY <3>1, <3>2
  <2> HIDE DEF q
  <2>3. pendSend' \in Seq(Ids)
    BY <1>0, <2>1, <2>2, ConcatFacts DEF TypeOK
  <2>4. win' \in [Ids -> Int]
    BY <1>0, <2>1, SMTT(30) DEF TypeOK
  <2>5. TypeOK'
    BY <1>0, <2>1, <2>3, <2>4 DEF TypeOK, limits, ids, loop
  <2>6. \A j \in Ids : /\ InSeq(j, q) => InSeq(j, pendConn) \/ j \in pendStream
                       /\ InSeq(j, pendConn)' <=> InSeq(j, pendConn) /\ ~InSeq(j, q)
                       /\ j \in pendStream' <=> j \in pendStream /\ ~InSeq(j, q)
    <3>1. InSeq(i, pendConn) => i \notin pendStream
      BY DEF IInv, Placed
    <3>2. \A j \in Ids : InSeq(j, pendConn)' <=> InSeq(j, pendConn)
      BY <2>1 DEF InSeq
    <3> QED BY <2>1, <2>2, <3>1, <3>2
  <2>7. Once(pendConn)' /\ (pendConn' # <<>> => connWin' = 0)
    BY <2>1 DEF IInv, Placed, Once, limits
  <2>8. \A j \in pendStream' : win'[j] <= 0
    BY <2>1, <1>0 DEF IInv, Placed, TypeOK
  <2> QED BY <1>0, <2>1, <2>2, <2>5, <2>6, <2>7, <2>8, WakeInv DEF ids, limits
<1> QED BY <1>1, <1>2

\* recv_window_frame for the connection.
LEMMA RecvConnWindowInv ==
  ASSUME CardFacts, IInv, NEW n \in Increments, RecvConnWindow(n)
  PROVE  IInv'
<1>0. TypeOK /\ phase = "receive" /\ n \in Nat
  BY H2Assumption DEF IInv, Shape, RecvConnWindow
<1>1. CASE connWin + n > MaxWindow
  <2>1. CloseAll(state) /\ UNCHANGED <<max, maxSendId, goaway>>
    BY <1>1 DEF RecvConnWindow
  <2> QED BY <1>0, <2>1, ErrorInv DEF TypeOK
<1>2. CASE ~(connWin + n > MaxWindow)
  <2>1. /\ connWin' = connWin + n /\ pendSend' = pendSend \o pendConn /\ pendConn' = <<>>
        /\ UNCHANGED <<streams, initWin, cur, max, pendConc, pendStream, ids, loop>>
    BY <1>2 DEF RecvConnWindow
  <2>2. pendSend' \in Seq(Ids)
    BY <1>0, <2>1, ConcatFacts DEF TypeOK
  <2>3. connWin' \in Nat /\ pendConn' \in Seq(Ids)
    BY <1>0, <2>1, SMTT(30) DEF TypeOK
  <2>4. TypeOK'
    BY <1>0, <2>1, <2>2, <2>3 DEF TypeOK, streams, ids, loop
  <2>5. \A j \in Ids : ~InSeq(j, pendConn)'
    BY <2>1, InEmpty
  <2>6. \A j \in Ids : InSeq(j, pendConn) => j \notin pendStream
    BY DEF IInv, Placed
  <2>7. Once(pendConn) /\ Once(pendConn)' /\ pendConn \in Seq(Ids)
    BY <1>0, <2>1, SMTT(30) DEF IInv, Placed, Once, TypeOK
  <2>8. \A j \in pendStream' : win'[j] <= 0
    BY <2>1 DEF IInv, Placed, streams
  <2> QED BY <1>0, <2>1, <2>4, <2>5, <2>6, <2>7, <2>8, WakeInv DEF ids, streams
<1> QED BY <1>1, <1>2

\* A walk over a HashSet visits every element once.
LEMMA OrderOnce ==
  ASSUME CardFacts, NEW S \in SUBSET Ids, NEW q \in Orders(S)
  PROVE  q \in Seq(Ids) /\ Once(q) /\ \A i \in Ids : InSeq(i, q) <=> i \in S
<1>1. Cardinality(S) \in Nat /\ Once(q)
  BY DEF CardFacts
<1>2. q \in [1 .. Cardinality(S) -> S] /\ \A i \in S : \E k \in 1 .. Cardinality(S) : q[k] = i
  BY DEF Orders
<1>3. q \in Seq(S)
  BY <1>1, <1>2, SMTT(30)
<1> QED BY <1>1, <1>2, <1>3, SMTT(30) DEF InSeq

\* recv_settings_frame.
LEMMA RecvSettingsInv ==
  ASSUME CardFacts, IInv, NEW m \in Limits, NEW w \in Windows, RecvSettings(m, w)
  PROVE  IInv'
<1>0. TypeOK /\ phase = "receive" /\ w \in Int /\ initWin \in Int /\ max' = m
  <2>1. phase = "receive" /\ max' = m
    BY DEF RecvSettings
  <2>2. TypeOK
    BY DEF IInv, Shape
  <2>3. Windows \subseteq Int
    BY H2Assumption, SMTT(30)
  <2> QED BY <2>1, <2>2, <2>3 DEF TypeOK
<1> DEFINE over == \E i \in Ids : state[i] # "none" /\ w > initWin /\ win[i] + (w - initWin) > MaxWindow
<1>1. CASE over
  <2>1. CloseAll(state) /\ UNCHANGED <<maxSendId, goaway>>
    BY <1>1 DEF RecvSettings
  <2> QED BY <1>0, <2>1, ErrorInv
<1>2. CASE ~over
  <2>1. /\ initWin' = w
        /\ win' = [i \in Ids |-> IF state[i] = "none" THEN win[i] ELSE win[i] + (w - initWin)]
        /\ IF w > initWin
             THEN (\E q \in Orders(pendStream) : pendSend' = pendSend \o q) /\ pendStream' = {}
             ELSE UNCHANGED <<pendSend, pendStream>>
        /\ UNCHANGED <<state, header, left, connWin, cur, pendConc, pendConn, ids, loop>>
    BY <1>2 DEF RecvSettings
  <2>2. win' \in [Ids -> Int]
    BY <1>0, <2>1, SMTT(30) DEF TypeOK
  <2>3. Once(pendConn)' /\ (pendConn' # <<>> => connWin' = 0)
    BY <2>1 DEF IInv, Placed, Once
  <2>4. \A j \in Ids : InSeq(j, pendConn)' <=> InSeq(j, pendConn)
    BY <2>1 DEF InSeq
  <2>5. \A j \in Ids : InSeq(j, pendConn) => j \notin pendStream
    BY DEF IInv, Placed
  <2>6. CASE w > initWin
    <3>1. PICK q \in Orders(pendStream) : pendSend' = pendSend \o q
      BY <2>1, <2>6
    <3>2. pendStream' = {} /\ pendStream \in SUBSET Ids
      BY <2>1, <2>6, <1>0 DEF TypeOK
    <3>3. q \in Seq(Ids) /\ Once(q) /\ \A i \in Ids : InSeq(i, q) <=> i \in pendStream
      BY <3>2, OrderOnce
    <3>4. pendSend' \in Seq(Ids)
      BY <1>0, <3>1, <3>3, ConcatFacts DEF TypeOK
    <3>5. TypeOK'
      BY <1>0, <2>1, <2>2, <3>2, <3>4 DEF TypeOK, ids, loop
    <3> QED BY <1>0, <2>1, <2>3, <2>4, <2>5, <3>1, <3>2, <3>3, <3>5, WakeInv DEF ids
  <2>7. CASE ~(w > initWin)
    <3>1. pendSend' = pendSend /\ pendStream' = pendStream
      BY <2>1, <2>7
    <3>2. pendSend' = pendSend \o <<>> /\ <<>> \in Seq(Ids) /\ Once(<<>>)
      BY <1>0, <3>1, ConcatFacts, SMTT(30) DEF Once, TypeOK
    <3>3. TypeOK'
      BY <1>0, <2>1, <2>2, <3>1 DEF TypeOK, ids, loop
    <3>4. \A j \in pendStream' : win'[j] <= 0
      BY <1>0, <2>1, <2>7, <3>1, SMTT(30) DEF IInv, Placed, TypeOK
    <3>5. \A j \in Ids : ~InSeq(j, <<>>)
      BY InEmpty
    <3> QED BY <1>0, <2>1, <2>3, <2>4, <3>1, <3>2, <3>3, <3>4, <3>5, WakeInv DEF ids
  <2> QED BY <2>6, <2>7
<1> QED BY <1>1, <1>2

\* recv_go_away_frame.
LEMMA RecvGoAwayInv ==
  ASSUME CardFacts, IInv, NEW last \in 0 .. LastId, NEW known \in BOOLEAN, RecvGoAway(last, known)
  PROVE  IInv'
<1> DEFINE Given(i) == i > last /\ Unclosed(i)
           s == [i \in Ids |-> IF Given(i) THEN "RemoteGoAway" ELSE state[i]]
<1>0. TypeOK /\ phase = "receive" /\ last \in Nat
  BY H2Assumption, SMTT(30) DEF IInv, Shape, RecvGoAway
<1>1. CASE maxSendId < last
  <2>1. CloseAll(state) /\ UNCHANGED <<max, maxSendId, goaway>>
    BY <1>1 DEF RecvGoAway
  <2> QED BY <1>0, <2>1, ErrorInv DEF TypeOK
<1>2. CASE ~(maxSendId < last) /\ ~known
  <2>1. CloseAll(s) /\ UNCHANGED <<max, goaway>> /\ maxSendId' = last
    BY <1>2 DEF RecvGoAway
  <2>2. \A i \in Ids : s[i] = state[i] \/ (Unclosed(i) /\ s[i] = "RemoteGoAway")
    OBVIOUS
  <2>3. max' \in Limits /\ goaway' \in BOOLEAN /\ maxSendId' \in Nat
    BY <1>0, <2>1 DEF TypeOK
  <2> HIDE DEF s
  <2> QED BY <1>0, <2>1, <2>2, <2>3, CloseAllInv
<1>3. CASE ~(maxSendId < last) /\ known
  <2>1. /\ maxSendId' = last /\ goaway' = TRUE
        /\ state' = [i \in Ids |-> IF Given(i) THEN "RemoteGoAway" ELSE state[i]]
        /\ header' = [i \in Ids |-> IF Given(i) THEN "none" ELSE header[i]]
        /\ left' = [i \in Ids |-> IF Given(i) THEN 0 ELSE left[i]]
        /\ cur' = cur - Cardinality({i \in Ids : Given(i) /\ state[i] # "Idle"})
        /\ UNCHANGED <<win, connWin, initWin, max, queues, nextId, loop>>
    BY <1>3 DEF RecvGoAway
  <2>2. {i \in Ids : Given(i) /\ state[i] # "Idle"} = Ended
    BY <2>1 DEF Ended, Idle, Unclosed, ClosedStates
  <2>3. Ended \in SUBSET Ids
    BY DEF Ended
  <2>4. cur' = cur - Cardinality(Ended) /\ cur' \in Int
    <3>1. Cardinality(Ended) \in Nat /\ cur \in Int
      BY <1>0, <2>3 DEF TypeOK, CardFacts
    <3>2. cur' = cur - Cardinality(Ended)
      BY <2>1, <2>2
    <3> QED BY <3>1, <3>2, SMTT(30)
  <2>5. state' \in [Ids -> States] /\ header' \in [Ids -> Headers] /\ left' \in [Ids -> 0 .. MaxBody]
    <3>1. "RemoteGoAway" \in States /\ "none" \in Headers /\ 0 \in 0 .. MaxBody
      BY H2Assumption, SMTT(30) DEF States, ClosedStates, Headers
    <3>2. state \in [Ids -> States] /\ header \in [Ids -> Headers] /\ left \in [Ids -> 0 .. MaxBody]
      BY <1>0 DEF TypeOK
    <3> HIDE DEF Given
    <3> QED BY <2>1, <3>1, <3>2
  <2>6. TypeOK'
    BY <1>0, <2>1, <2>4, <2>5 DEF TypeOK, queues, loop
  <2>7. \A j \in Ids : Step(j)
    BY <2>1 DEF Step, Idle, ClosedStates
  <2> QED BY <1>0, <2>1, <2>4, <2>6, <2>7, MovedInv
<1> QED BY <1>1, <1>2, <1>3

\* Every frame the reader hands over.
LEMMA FrameInv == ASSUME CardFacts, IInv, Frame PROVE IInv'
<1>1. ASSUME NEW i \in Ids, NEW e \in BOOLEAN, NEW g \in BOOLEAN, RecvHeaders(i, e, g) PROVE IInv'
  <2>1. phase = "receive" /\ KnownToPeer(i) /\ Receive(i, RecvHeadersState(state[i], e), g)
    BY <1>1 DEF RecvHeaders
  <2> QED BY <2>1, KnownStream, FrameMoves, ReceiveInv
<1>2. ASSUME NEW i \in Ids, NEW e \in BOOLEAN, NEW g \in BOOLEAN, RecvData(i, e, g) PROVE IInv'
  <2>1. phase = "receive" /\ KnownToPeer(i) /\ Receive(i, RecvDataState(state[i], e), g)
    BY <1>2 DEF RecvData
  <2> QED BY <2>1, KnownStream, FrameMoves, ReceiveInv
<1> QED BY <1>1, <1>2, RecvResetInv, StreamErrorInv, RecvStreamWindowInv, RecvConnWindowInv,
           RecvSettingsInv, RecvGoAwayInv DEF Frame

\* The reader is gone, or the decoder reports an error.
LEMMA ConnectionErrorInv == ASSUME CardFacts, IInv, ConnectionError PROVE IInv'
<1>1. phase = "receive" /\ CloseAll(state) /\ UNCHANGED <<max, maxSendId, goaway>>
  BY DEF ConnectionError
<1> QED BY <1>1, ErrorInv DEF IInv, Shape, TypeOK

\* The manager ends after a GOAWAY, or turns from the frames to the requests.
LEMMA PhaseInv ==
  ASSUME IInv, DealWithGoAway \/ StartPending
  PROVE  IInv'
<1>0. /\ UNCHANGED <<streams, limits, queues, ids, batch, cursor>> /\ phase = "receive"
      /\ phase' = "exit" \/ (phase' = "request" /\ ~goaway)
  BY DEF DealWithGoAway, StartPending
<1>1. Shape'
  BY <1>0 DEF IInv, Shape, TypeOK, Phases, Idle, streams, limits, queues, ids
<1>2. Placed'
  BY <1>0 DEF IInv, Placed, Queued, Running, Unsent, Unclosed, Idle, InSeq, Once, streams, limits, queues, ids
<1>3. Ordered'
  BY <1>0 DEF IInv, Ordered, OpenedInOrder, Idle, InSeq, streams, queues
<1>4. Limited'
  <2>1. Counted' = Counted /\ cur' = cur /\ cur = Cardinality(Counted)
    BY <1>0 DEF Counted, Unclosed, InSeq, streams, limits, queues, IInv, Limited, Running
  <2>2. \A i \in Ids : Idle(i)' => InSeq(i, pendConc)'
    BY <1>0, IdleWaits DEF Idle, streams, queues
  <2> QED BY <2>1, <2>2 DEF Limited
<1> QED BY <1>1, <1>2, <1>3, <1>4 DEF IInv

---------------------------------------------------------------------------
(* The sending loop. *)

\* The stream whose turn it is.
LEMMA CursorFacts ==
  ASSUME IInv, cursor # None
  PROVE  /\ cursor \in Ids /\ phase = "input" /\ ~goaway /\ Running
         /\ ~InSeq(cursor, pendConc) /\ ~InSeq(cursor, pendSend) /\ ~InSeq(cursor, pendConn)
         /\ cursor \notin pendStream
         /\ state[cursor] \notin {"none", "LocalH", "LocalD"}
         /\ Unclosed(cursor) => state[cursor] \in Waiting
<1>1. cursor \in Ids /\ phase = "input" /\ ~goaway /\ Running
  BY DEF IInv, Shape, TypeOK, Running
<1>2. ~Queued(cursor) /\ state[cursor] \notin {"none", "LocalH", "LocalD"}
  BY <1>1 DEF IInv, Placed
<1>3. Unclosed(cursor) => state[cursor] \in Waiting
  BY <1>1, <1>2, OneStream DEF Finished
<1> QED BY <1>1, <1>2, <1>3 DEF Queued

\* A part of a turn that leaves the queues alone: HEADERS or DATA are sent, the
\* body ends or fails, or the stream turns out to be closed.  The turn goes on
\* only while the stream has something to send, and ends without queueing the
\* stream only when it has not.
LEMMA TurnInv ==
  ASSUME CardFacts, IInv, NEW c \in Ids, cursor = c, TypeOK', NEW t \in Known,
         UNCHANGED <<queues, nextId, goaway, max, phase, batch>>,
         state'[c] = t, header'[c] = "none",
         \A j \in Ids \ {c} : state'[j] = state[j] /\ header'[j] = header[j] /\ win'[j] = win[j],
         \/ cursor' = c /\ t \in Waiting /\ Unclosed(c)
         \/ cursor' = None /\ t \notin Waiting /\ (Unclosed(c) \/ t = state[c]),
         connWin' = connWin \/ connWin > 0,
         cur' = IF Unclosed(c) /\ t \in ClosedStates THEN cur - 1 ELSE cur
  PROVE  IInv'
<1>0. /\ c \in Ids /\ phase = "input" /\ ~goaway
      /\ ~InSeq(c, pendConc) /\ ~InSeq(c, pendSend) /\ ~InSeq(c, pendConn) /\ c \notin pendStream
      /\ state[c] \notin {"none", "LocalH", "LocalD"} /\ (Unclosed(c) => state[c] \in Waiting)
  BY CursorFacts, H2Assumption
<1>1. /\ pendConc' = pendConc /\ pendSend' = pendSend /\ pendConn' = pendConn /\ pendStream' = pendStream
      /\ phase' = "input" /\ batch' = batch /\ nextId' = nextId /\ ~goaway' /\ max' = max
  BY <1>0 DEF queues
<1>2. /\ t \in Reached /\ t # "none" /\ t # "Idle"
      /\ (t \notin ClosedStates \cup {"none"} <=> t \in Waiting \cup Finished)
      /\ ~Idle(c)' /\ (Unclosed(c)' <=> t \in Waiting \cup Finished) /\ (Unsent(c)' <=> t \in Waiting)
  BY StateSets DEF Known, Idle, Unclosed, Unsent
<1>3. ASSUME NEW j \in Ids \ {c}
      PROVE  /\ Idle(j)' <=> Idle(j)
             /\ Unclosed(j)' <=> Unclosed(j)
             /\ Unsent(j)' <=> Unsent(j)
  BY DEF Idle, Unclosed, Unsent
<1>4. ASSUME NEW j \in Ids
      PROVE  /\ InSeq(j, pendConc)' <=> InSeq(j, pendConc)
             /\ InSeq(j, pendSend)' <=> InSeq(j, pendSend)
             /\ InSeq(j, pendConn)' <=> InSeq(j, pendConn)
             /\ Queued(j)' <=> Queued(j)
  BY <1>1 DEF InSeq, Queued
<1>5. Shape'
  <2>1. ASSUME NEW j \in Ids
        PROVE  state'[j] \in Reached /\ (header'[j] # "none" <=> Idle(j)') /\ (state'[j] = "none" <=> j >= nextId')
    <3>1. CASE j = c
      BY <3>1, <1>0, <1>1, <1>2 DEF IInv, Shape
    <3>2. CASE j # c
      BY <3>2, <1>1, <1>3 DEF IInv, Shape
    <3> QED BY <3>1, <3>2
  <2>2. batch' <= Len(pendSend')
    BY <1>0, <1>1 DEF IInv, Shape
  <2> QED BY <1>1, <2>1, <2>2 DEF Shape
<1>6. Placed'
  <2>1. Once(pendConc)' /\ Once(pendSend)' /\ Once(pendConn)'
    BY <1>1 DEF IInv, Placed, Once
  <2>2. \A i \in pendStream' : win'[i] <= 0
    <3>1. \A i \in pendStream : i \in Ids \ {c} /\ win[i] <= 0
      BY <1>0 DEF IInv, Placed, Shape, TypeOK
    <3> QED BY <3>1, <1>1
  <2>3. pendConn' # <<>> => connWin' = 0
    BY <1>1, SMTT(30) DEF IInv, Placed
  <2>4. ASSUME NEW i \in Ids
        PROVE  /\ InSeq(i, pendConc) => ~InSeq(i, pendSend) /\ ~InSeq(i, pendConn) /\ i \notin pendStream
               /\ InSeq(i, pendSend) => ~InSeq(i, pendConn) /\ i \notin pendStream
               /\ InSeq(i, pendConn) => i \notin pendStream
               /\ Queued(i) \/ i = c => state[i] \notin {"none", "LocalH", "LocalD"}
               /\ Unsent(i) => Queued(i) \/ i = c
               /\ InSeq(i, pendConc) => Idle(i) \/ (goaway /\ ~Unclosed(i))
    BY <1>0 DEF IInv, Placed, Running
  <2>5. ~Queued(c)
    BY <1>0 DEF Queued
  <2>6. ASSUME NEW i \in Ids
        PROVE  /\ i = cursor' => ~Queued(i)
               /\ Queued(i) \/ i = cursor' => state'[i] \notin {"none", "LocalH", "LocalD"}
               /\ Unsent(i)' => Queued(i) \/ i = cursor'
               /\ InSeq(i, pendConc) => Idle(i)' \/ (goaway' /\ ~Unclosed(i)')
    <3>1. CASE i = c
      BY <3>1, <2>5, <1>0, <1>2, H2Assumption DEF Waiting
    <3>2. CASE i # c
      <4>1. i # cursor'
        BY <3>2, H2Assumption
      <4> QED BY <3>2, <4>1, <2>4, <1>0, <1>1, <1>3
    <3> QED BY <3>1, <3>2
  <2> QED BY <1>1, <1>4, <2>1, <2>2, <2>3, <2>4, <2>6 DEF Placed
<1>7. Ordered'
  <2>1. ASSUME NEW j \in DOMAIN pendSend
        PROVE  pendSend[j] \in Ids /\ (state'[pendSend[j]] = "Idle" => Idle(pendSend[j]))
    <3>1. pendSend[j] \in Ids /\ InSeq(pendSend[j], pendSend)
      BY InQueue DEF IInv, Shape, TypeOK
    <3> QED BY <3>1, <1>0, <1>3 DEF Idle
  <2>2. /\ \A j, k \in DOMAIN pendConc : j < k => pendConc[j] < pendConc[k]
        /\ \A j, k \in DOMAIN pendSend :
             j < k /\ Idle(pendSend[j]) /\ Idle(pendSend[k]) => pendSend[j] < pendSend[k]
        /\ \A j \in DOMAIN pendSend, k \in DOMAIN pendConc : Idle(pendSend[j]) => pendSend[j] < pendConc[k]
    BY DEF IInv, Ordered
  <2>3. cursor' # None => ~Idle(cursor)'
    BY <1>2, H2Assumption DEF Idle
  <2>4. ASSUME NEW i \in Ids, Idle(i)'
        PROVE  \/ InSeq(i, pendConc)
               \/ \E k \in 1 .. batch : k \in DOMAIN pendSend /\ pendSend[k] = i
    <3>1. i # c /\ Idle(i)
      BY <2>4, <1>2, <1>3
    <3> QED BY <3>1, <1>0 DEF IInv, Ordered
  <2>5. OpenedInOrder'
    <3> SUFFICES ASSUME NEW i \in Ids, NEW j \in Ids, i < j, state'[i] = "Idle"
                 PROVE  state'[j] \in {"none", "Idle", "RemoteGoAway", "LocalGoAway"}
      BY DEF OpenedInOrder
    <3>1. i # c /\ Idle(i)
      BY <1>2, <1>3 DEF Idle
    <3>2. state[j] \in {"none", "Idle", "RemoteGoAway", "LocalGoAway"}
      BY <3>1 DEF IInv, Ordered, OpenedInOrder, Idle
    <3>3. CASE j # c
      BY <3>2, <3>3
    <3>4. CASE j = c
      <4>1. ~Idle(c)
        <5>1. Idle(c) => c <= i
          BY <3>1, H2Assumption DEF IInv, Ordered
        <5> QED BY <5>1, <3>4, SMTT(30) DEF Ids
      <4>2. ~Unclosed(c)
        BY <3>2, <3>4, <4>1, <1>0 DEF Idle, Waiting
      <4> QED BY <3>2, <3>4, <4>2
    <3> QED BY <3>3, <3>4
  <2> QED BY <1>1, <1>4, <2>1, <2>2, <2>3, <2>4, <2>5 DEF Ordered, Idle
<1>8. Limited'
  <2>0. cur = Cardinality(Counted) /\ cur \in Int /\ cur' \in Int /\ max \in Int
    BY <1>0, H2Assumption, SMTT(30) DEF IInv, Limited, Running, Shape, TypeOK
  <2>1. cur' = Cardinality(Counted')
    <3>1. ASSUME NEW j \in Ids \ {c} PROVE j \in Counted' <=> j \in Counted
      BY <1>3, <1>4 DEF Counted
    <3>2. c \in Counted <=> Unclosed(c)
      BY <1>0 DEF Counted
    <3>3. c \in Counted' <=> t \in Waiting \cup Finished
      BY <1>0, <1>2, <1>4 DEF Counted
    <3>4. CASE Unclosed(c) /\ t \in ClosedStates
      <4>1. Counted' = Counted \ {c} /\ c \in Counted
        BY <3>1, <3>2, <3>3, <3>4, <1>2 DEF Counted
      <4>2. {c} \in SUBSET Counted /\ Cardinality({c}) = 1
        BY <4>1, CountOne
      <4>3. Cardinality(Counted \ {c}) = Cardinality(Counted) - 1
        BY <4>2, CountedIds, CountParts
      <4> QED BY <4>1, <4>3, <3>4, <2>0
    <3>5. CASE ~(Unclosed(c) /\ t \in ClosedStates)
      <4>1. Counted' = Counted
        BY <3>1, <3>2, <3>3, <3>5, <1>0, <1>2 DEF Counted, Unclosed
      <4> QED BY <4>1, <3>5, <2>0
    <3> QED BY <3>4, <3>5
  <2>2. ASSUME NEW i \in Ids, Idle(i)', ~InSeq(i, pendConc)' PROVE cur' <= max'
    <3>1. Idle(i) /\ ~InSeq(i, pendConc)
      BY <2>2, <1>2, <1>3, <1>4
    <3>2. cur <= max
      BY <3>1, <1>0 DEF IInv, Limited
    <3>3. cur' <= cur
      BY <2>0, SMTT(30)
    <3> QED BY <3>2, <3>3, <2>0, <1>1, SMTT(30)
  <2> QED BY <2>1, <2>2, <1>1 DEF Limited
<1> QED BY <1>5, <1>6, <1>7, <1>8 DEF IInv

\* The end of a turn that queues the stream again: for its window, for that of
\* the connection, or because its body has nothing yet.
LEMMA RequeueInv ==
  ASSUME IInv, TypeOK', NEW c \in Ids, cursor = c, Reading,
         UNCHANGED <<streams, limits, ids, phase, batch, pendConc>>,
         cursor' = None,
         \/ pendStream' = pendStream \cup {c} /\ win[c] <= 0 /\ UNCHANGED <<pendSend, pendConn>>
         \/ pendConn' = Append(pendConn, c) /\ connWin = 0 /\ UNCHANGED <<pendSend, pendStream>>
         \/ pendSend' = Append(pendSend, c) /\ UNCHANGED <<pendConn, pendStream>>
  PROVE  IInv'
<1>0. /\ phase = "input" /\ ~goaway /\ c # None
      /\ ~InSeq(c, pendConc) /\ ~InSeq(c, pendSend) /\ ~InSeq(c, pendConn) /\ c \notin pendStream
      /\ state[c] \notin {"none", "LocalH", "LocalD"}
  BY CursorFacts, H2Assumption
<1>1. /\ state' = state /\ header' = header /\ win' = win /\ connWin' = connWin /\ cur' = cur /\ max' = max
      /\ nextId' = nextId /\ goaway' = goaway /\ phase' = "input" /\ batch' = batch /\ pendConc' = pendConc
  BY <1>0 DEF streams, limits, ids
<1>2. ~Idle(c)
  BY DEF Reading, IInv, Shape
<1>3. ASSUME NEW j \in Ids
      PROVE  /\ InSeq(j, pendConc)' <=> InSeq(j, pendConc)
             /\ Idle(j)' <=> Idle(j)
             /\ Unclosed(j)' <=> Unclosed(j)
             /\ Unsent(j)' <=> Unsent(j)
  BY <1>1 DEF InSeq, Idle, Unclosed, Unsent
<1>q. pendSend \in Seq(Ids) /\ pendConn \in Seq(Ids) /\ Once(pendConc) /\ Once(pendSend) /\ Once(pendConn)
  BY DEF IInv, Shape, TypeOK, Placed
<1>4. /\ Once(pendSend') /\ Once(pendConn')
      /\ \A j \in Ids : InSeq(j, pendSend) => InSeq(j, pendSend')
      /\ \A j \in Ids \ {c} : /\ InSeq(j, pendSend') <=> InSeq(j, pendSend)
                              /\ InSeq(j, pendConn') <=> InSeq(j, pendConn)
                              /\ j \in pendStream' <=> j \in pendStream
      /\ \/ InSeq(c, pendSend') /\ ~InSeq(c, pendConn') /\ c \notin pendStream'
         \/ ~InSeq(c, pendSend') /\ InSeq(c, pendConn') /\ c \notin pendStream'
         \/ ~InSeq(c, pendSend') /\ ~InSeq(c, pendConn') /\ c \in pendStream'
  <2>1. CASE pendStream' = pendStream \cup {c} /\ UNCHANGED <<pendSend, pendConn>>
    BY <2>1, <1>0, <1>q
  <2>2. CASE pendConn' = Append(pendConn, c) /\ UNCHANGED <<pendSend, pendStream>>
    <3>1. Once(pendConn') /\ \A j \in Ids : InSeq(j, pendConn') <=> InSeq(j, pendConn) \/ j = c
      BY <2>2, <1>0, <1>q, InAppend, OnceAppend
    <3> QED BY <2>2, <3>1, <1>0, <1>q
  <2>3. CASE pendSend' = Append(pendSend, c) /\ UNCHANGED <<pendConn, pendStream>>
    <3>1. Once(pendSend') /\ \A j \in Ids : InSeq(j, pendSend') <=> InSeq(j, pendSend) \/ j = c
      BY <2>3, <1>0, <1>q, InAppend, OnceAppend
    <3> QED BY <2>3, <3>1, <1>0, <1>q
  <2> QED BY <2>1, <2>2, <2>3
<1>5. /\ Len(pendSend) \in Nat /\ Len(pendSend') \in Nat /\ Len(pendSend) <= Len(pendSend')
      /\ DOMAIN pendSend = 1 .. Len(pendSend) /\ DOMAIN pendSend' = 1 .. Len(pendSend')
      /\ \A k \in DOMAIN pendSend : pendSend'[k] = pendSend[k]
      /\ \A k \in DOMAIN pendSend' : k \in DOMAIN pendSend \/ pendSend'[k] = c
  <2>1. CASE pendSend' = Append(pendSend, c)
    BY <2>1, <1>q, AppendFacts, LenFacts, SMTT(30)
  <2>2. CASE pendSend' = pendSend
    BY <2>2, <1>q, LenFacts, SMTT(30)
  <2> QED BY <2>1, <2>2
<1>6. Shape'
  <2>1. batch' <= Len(pendSend')
    <3>1. batch <= Len(pendSend) /\ batch \in Nat
      BY <1>0 DEF IInv, Shape, TypeOK
    <3>2. \A b, x, y \in Nat : b <= x /\ x <= y => b <= y
      BY SMTT(30)
    <3> QED BY <3>1, <3>2, <1>1, <1>5
  <2>2. \A j \in Ids : state'[j] \in Reached /\ (header'[j] # "none" <=> Idle(j)') /\ (state'[j] = "none" <=> j >= nextId')
    BY <1>1, <1>3 DEF IInv, Shape
  <2> QED BY <2>1, <2>2, <1>0, <1>1 DEF Shape
<1>7. Placed'
  <2>1. Once(pendConc)'
    BY <1>1, <1>q DEF Once
  <2>2. ASSUME NEW i \in pendStream' PROVE win'[i] <= 0
    <3>1. \A j \in pendStream : win[j] <= 0
      BY DEF IInv, Placed
    <3> QED BY <3>1, <2>2, <1>0, <1>1
  <2>3. pendConn' # <<>> => connWin' = 0
    BY <1>1 DEF IInv, Placed
  <2>4. ASSUME NEW i \in Ids
        PROVE  /\ InSeq(i, pendConc) => ~InSeq(i, pendSend') /\ ~InSeq(i, pendConn') /\ i \notin pendStream'
               /\ InSeq(i, pendSend') => ~InSeq(i, pendConn') /\ i \notin pendStream'
               /\ InSeq(i, pendConn') => i \notin pendStream'
               /\ Queued(i)' => state[i] \notin {"none", "LocalH", "LocalD"}
               /\ Running /\ Unsent(i) => Queued(i)'
               /\ InSeq(i, pendConc) => Idle(i) \/ (goaway /\ ~Unclosed(i))
    <3>1. CASE i = c
      BY <3>1, <1>0, <1>3, <1>4 DEF Queued
    <3>2. CASE i # c
      <4>1. /\ InSeq(i, pendConc) => ~InSeq(i, pendSend) /\ ~InSeq(i, pendConn) /\ i \notin pendStream
            /\ InSeq(i, pendSend) => ~InSeq(i, pendConn) /\ i \notin pendStream
            /\ InSeq(i, pendConn) => i \notin pendStream
            /\ Queued(i) => state[i] \notin {"none", "LocalH", "LocalD"}
            /\ Running /\ Unsent(i) => Queued(i)
            /\ InSeq(i, pendConc) => Idle(i) \/ (goaway /\ ~Unclosed(i))
        BY <3>2 DEF IInv, Placed
      <4>2. Queued(i)' <=> Queued(i)
        BY <3>2, <1>3, <1>4 DEF Queued
      <4> QED BY <3>2, <4>1, <4>2, <1>4
    <3> QED BY <3>1, <3>2
  <2>5. \A i \in Ids : i # cursor'
    BY H2Assumption
  <2>6. Running' <=> Running
    BY <1>0, <1>1 DEF Running
  <2> QED BY <1>1, <1>3, <1>4, <2>1, <2>2, <2>3, <2>4, <2>5, <2>6 DEF Placed
<1>8. Ordered'
  <2>1. ASSUME NEW j \in DOMAIN pendSend', state'[pendSend'[j]] = "Idle"
        PROVE  j \in DOMAIN pendSend /\ pendSend'[j] = pendSend[j] /\ Idle(pendSend[j])
    BY <2>1, <1>1, <1>2, <1>5 DEF Idle
  <2>2. /\ \A j, k \in DOMAIN pendConc : j < k => pendConc[j] < pendConc[k]
        /\ \A j, k \in DOMAIN pendSend :
             j < k /\ Idle(pendSend[j]) /\ Idle(pendSend[k]) => pendSend[j] < pendSend[k]
        /\ \A j \in DOMAIN pendSend, k \in DOMAIN pendConc : Idle(pendSend[j]) => pendSend[j] < pendConc[k]
    BY DEF IInv, Ordered
  <2>3. /\ \A j, k \in DOMAIN pendSend' :
             j < k /\ state'[pendSend'[j]] = "Idle" /\ state'[pendSend'[k]] = "Idle" => pendSend'[j] < pendSend'[k]
        /\ \A j \in DOMAIN pendSend', k \in DOMAIN pendConc :
             state'[pendSend'[j]] = "Idle" => pendSend'[j] < pendConc[k]
    BY <2>1, <2>2
  <2>4. ASSUME NEW i \in Ids, Idle(i)
        PROVE  \/ InSeq(i, pendConc)
               \/ \E k \in 1 .. batch : k \in DOMAIN pendSend' /\ pendSend'[k] = i
    <3>1. \/ InSeq(i, pendConc)
          \/ \E k \in 1 .. batch : k \in DOMAIN pendSend /\ pendSend[k] = i
      BY <2>4, <1>0, <1>2 DEF IInv, Ordered
    <3>2. DOMAIN pendSend \subseteq DOMAIN pendSend'
      <4>1. \A x, y \in Nat : x <= y => 1 .. x \subseteq 1 .. y
        BY SMTT(30)
      <4> QED BY <4>1, <1>5
    <3> QED BY <3>1, <3>2, <1>5
  <2>5. OpenedInOrder'
    BY <1>1 DEF IInv, Ordered, OpenedInOrder
  <2> QED BY <1>1, <1>3, <2>2, <2>3, <2>4, <2>5 DEF Ordered, Idle
<1>9. Limited'
  <2>1. Counted' = Counted
    BY <1>3 DEF Counted
  <2>2. Running' <=> Running
    BY <1>0, <1>1 DEF Running
  <2> QED BY <2>1, <2>2, <1>0, <1>1, <1>3 DEF IInv, Limited
<1> QED BY <1>6, <1>7, <1>8, <1>9 DEF IInv

\* What is read of a stream that has its turn.
LEMMA ReadingFacts ==
  ASSUME IInv, Reading
  PROVE  /\ cursor \in Ids /\ cursor # None /\ Unclosed(cursor)
         /\ state[cursor] \in Waiting \ {"Idle"} /\ header[cursor] = "none"
<1>1. cursor \in Ids /\ Unclosed(cursor) /\ state[cursor] \in Waiting
  BY CursorFacts DEF Reading
<1>2. ~Idle(cursor) /\ header[cursor] = "none"
  BY <1>1 DEF Reading, IInv, Shape
<1> QED BY <1>1, <1>2 DEF Idle, Reading

\* The states a turn can lead to.
LEMMA TurnStates ==
  /\ "LocalRst" \in Known /\ "LocalRst" \in ClosedStates /\ "LocalRst" \notin Waiting
  /\ "EndStream" \in Known /\ "EndStream" \in ClosedStates /\ "EndStream" \notin Waiting
  /\ Finished \subseteq Known /\ Waiting \ {"Idle"} \subseteq Known /\ Known \subseteq States
  /\ \A s \in Finished \cup Waiting : s \notin ClosedStates /\ s # "EndStream" /\ s # "error"
  /\ \A s \in Finished : s \notin Waiting
  /\ "EndStream" # "error"
<1>1. /\ "LocalRst" \in Known /\ "LocalRst" \in ClosedStates /\ "LocalRst" \notin Waiting
      /\ "EndStream" \in Known /\ "EndStream" \in ClosedStates /\ "EndStream" \notin Waiting
  BY DEF Known, Reached, ClosedStates, Waiting
<1>2. Finished \subseteq Known /\ Waiting \ {"Idle"} \subseteq Known
  BY DEF Known, Reached, Waiting, Finished
<1>3. Known \subseteq States
  BY StateSets DEF Known
<1>4. \A s \in Finished \cup Waiting : s \notin ClosedStates /\ s # "EndStream" /\ s # "error"
  BY DEF ClosedStates, Waiting, Finished
<1>5. \A s \in Finished : s \notin Waiting
  BY DEF Waiting, Finished
<1> QED BY <1>1, <1>2, <1>3, <1>4, <1>5

\* A closed stream loses its turn.
LEMMA SkipClosedInv ==
  ASSUME CardFacts, IInv, SkipClosed
  PROVE  IInv'
<1> DEFINE c == cursor
           t == state[c]
<1>0. c \in Ids /\ phase = "input" /\ state[c] # "none" /\ ~Unclosed(c)
  BY CursorFacts DEF SkipClosed
<1>1. /\ state' = state /\ header' = header /\ left' = left /\ win' = win /\ cursor' = None
      /\ connWin' = connWin /\ cur' = cur
      /\ UNCHANGED <<queues, nextId, goaway, max, phase, batch>>
  BY DEF SkipClosed, streams, limits, ids
<1>2. t \in Known /\ t \notin Waiting /\ header[c] = "none"
  <2>1. state[c] \in Reached /\ ~Idle(c) /\ state[c] \notin Waiting
    BY <1>0, OneStream
  <2> QED BY <1>0, <2>1 DEF Known, Idle, IInv, Shape
<1>3. TypeOK'
  BY <1>1 DEF SkipClosed, IInv, Shape, TypeOK, streams, limits, queues, ids
<1> HIDE DEF c, t
<1>4. cursor = c /\ state[c] = t
  BY DEF c, t
<1> QED BY <1>0, <1>1, <1>2, <1>3, <1>4, TurnInv

\* The HEADERS of a stream are sent, and its END_STREAM with them or not.
LEMMA SendHeadersInv ==
  ASSUME CardFacts, IInv, SendHeaders
  PROVE  /\ IInv'
         /\ Idle(cursor) /\ ~InSeq(cursor, pendConc) /\ phase = "input"
         /\ state' = [state EXCEPT ![cursor] = state'[cursor]]
         /\ UNCHANGED pendConc
<1>0. cursor \in Ids /\ phase = "input" /\ Unclosed(cursor) /\ ~InSeq(cursor, pendConc)
  BY CursorFacts DEF SendHeaders
<1>1. Idle(cursor)
  BY <1>0 DEF SendHeaders, IInv, Shape
<1>2. PICK e \in BOOLEAN, t \in {"LocalH", "OpenDH"} :
         /\ t = IF e THEN "LocalH" ELSE "OpenDH"
         /\ Sent(t) /\ cursor' = IF e THEN None ELSE cursor
  <2> DEFINE e == header[cursor] = "last"
             t == SendHeadersState(state[cursor], e)
  <2>1. e \in BOOLEAN /\ t = IF e THEN "LocalH" ELSE "OpenDH"
    BY <1>1, HeadersSent DEF Idle
  <2>2. t # "error" /\ t \in {"LocalH", "OpenDH"}
    BY <2>1
  <2>3. IF t = "error" THEN Die ELSE Sent(t) /\ cursor' = IF e THEN None ELSE cursor
    BY DEF SendHeaders
  <2> HIDE DEF e, t
  <2>4. Sent(t) /\ cursor' = IF e THEN None ELSE cursor
    BY <2>2, <2>3
  <2> QED BY <2>1, <2>2, <2>4
<1>3. t \in Known /\ t \in States /\ t \notin ClosedStates /\ t # "EndStream"
  <2>1. t \in Finished \/ t \in Waiting \ {"Idle"}
    BY <1>2 DEF Finished, Waiting
  <2> QED BY <2>1, TurnStates
<1>4. /\ header' = [header EXCEPT ![cursor] = "none"]
      /\ UNCHANGED <<left, win, connWin, initWin, max, ids>>
  BY DEF SendHeaders
<1>5. state' = [state EXCEPT ![cursor] = t] /\ cur' = cur /\ UNCHANGED <<queues, phase, batch>>
  BY <1>2, <1>3 DEF Sent
<1>6. state \in [Ids -> States] /\ header \in [Ids -> Headers]
  BY DEF IInv, Shape, TypeOK
<1>7. TypeOK'
  <2>1. state' \in [Ids -> States] /\ header' \in [Ids -> Headers]
    BY <1>3, <1>4, <1>5, <1>6 DEF Headers
  <2>2. cursor' \in Ids \cup {None}
    BY <1>0, <1>2
  <2> QED BY <2>1, <2>2, <1>4, <1>5 DEF IInv, Shape, TypeOK, queues, ids
<1>8. ASSUME NEW c \in Ids, c = cursor PROVE IInv'
  <2>1. /\ state'[c] = t /\ header'[c] = "none"
        /\ \A j \in Ids \ {c} : state'[j] = state[j] /\ header'[j] = header[j] /\ win'[j] = win[j]
    BY <1>4, <1>5, <1>6, <1>8
  <2>2. \/ cursor' = c /\ t \in Waiting /\ Unclosed(c)
        \/ cursor' = None /\ t \notin Waiting /\ (Unclosed(c) \/ t = state[c])
    BY <1>0, <1>2, <1>8 DEF Waiting
  <2>3. UNCHANGED <<queues, nextId, goaway, max, phase, batch>> /\ connWin' = connWin
    BY <1>4, <1>5 DEF ids
  <2> QED BY <2>1, <2>2, <2>3, <1>3, <1>5, <1>7, <1>8, TurnInv
<1> QED BY <1>0, <1>1, <1>5, <1>6, <1>8 DEF queues

\* A piece of the body is sent.
LEMMA SendDataInv ==
  ASSUME CardFacts, IInv, NEW n \in 1 .. MaxBody, SendData(n)
  PROVE  IInv'
<1>0. cursor \in Ids /\ Unclosed(cursor) /\ state[cursor] \in Waiting \ {"Idle"} /\ header[cursor] = "none"
  BY ReadingFacts DEF SendData
<1>1. SendDataState(state[cursor], FALSE) = state[cursor]
  BY <1>0, DataSent
<1>2. state[cursor] # "error" /\ state[cursor] # "EndStream" /\ state[cursor] \notin ClosedStates
      /\ state[cursor] \in Known
  BY <1>0, TurnStates
<1>3. Sent(state[cursor]) /\ cursor' = cursor
  BY <1>1, <1>2 DEF SendData
<1>4. /\ left' = [left EXCEPT ![cursor] = @ - n] /\ win' = [win EXCEPT ![cursor] = @ - n]
      /\ connWin' = connWin - n /\ UNCHANGED <<header, initWin, max, ids>>
      /\ n <= left[cursor] /\ n <= connWin /\ connWin > 0
  BY DEF SendData, Fits, Available
<1>5. /\ state \in [Ids -> States] /\ win \in [Ids -> Int] /\ left \in [Ids -> 0 .. MaxBody] /\ connWin \in Nat
      /\ MaxBody \in Nat
  BY H2Assumption DEF IInv, Shape, TypeOK
<1>6. state' = state /\ cur' = cur /\ UNCHANGED <<queues, phase, batch>>
  BY <1>0, <1>2, <1>3, <1>5 DEF Sent
<1>7. TypeOK'
  <2>1. win' \in [Ids -> Int] /\ connWin' \in Nat
    BY <1>0, <1>4, <1>5, SMTT(30)
  <2>2. left' \in [Ids -> 0 .. MaxBody]
    <3>1. left[cursor] - n \in 0 .. MaxBody
      BY <1>0, <1>4, <1>5, SMTT(30)
    <3> QED BY <3>1, <1>4, <1>5
  <2> QED BY <2>1, <2>2, <1>3, <1>4, <1>6 DEF IInv, Shape, TypeOK, queues, ids
<1>8. ASSUME NEW c \in Ids, c = cursor, NEW t \in Known, t = state[cursor] PROVE IInv'
  <2>1. /\ state'[c] = t /\ header'[c] = "none"
        /\ \A j \in Ids \ {c} : state'[j] = state[j] /\ header'[j] = header[j] /\ win'[j] = win[j]
    BY <1>0, <1>4, <1>5, <1>6, <1>8
  <2>2. cursor' = c /\ t \in Waiting /\ Unclosed(c) /\ t \notin ClosedStates
    BY <1>0, <1>2, <1>3, <1>8
  <2>3. UNCHANGED <<queues, nextId, goaway, max, phase, batch>>
    BY <1>4, <1>6 DEF ids
  <2> QED BY <2>1, <2>2, <2>3, <1>4, <1>6, <1>7, <1>8, TurnInv
<1> QED BY <1>0, <1>2, <1>8

\* The end of the body is sent.
LEMMA FinishInv ==
  ASSUME CardFacts, IInv, Finish
  PROVE  IInv'
<1>0. cursor \in Ids /\ Unclosed(cursor) /\ state[cursor] \in Waiting \ {"Idle"} /\ header[cursor] = "none"
  BY ReadingFacts DEF Finish
<1>1. PICK t \in Finished \cup {"EndStream"} : Sent(t) /\ cursor' = None
  <2> DEFINE t == SendDataState(state[cursor], TRUE)
  <2>1. t \in Finished \cup {"EndStream"}
    BY <1>0, DataSent
  <2>2. t # "error"
    BY <2>1 DEF Finished
  <2>3. IF t = "error" THEN Die ELSE Sent(t) /\ cursor' = None
    BY DEF Finish
  <2> HIDE DEF t
  <2> QED BY <2>1, <2>2, <2>3
<1>2. t \in Known /\ t \in States /\ t \notin Waiting /\ (t \in ClosedStates <=> t = "EndStream")
  <2>1. CASE t = "EndStream"
    BY <2>1, TurnStates
  <2>2. CASE t \in Finished
    BY <2>2, TurnStates
  <2> QED BY <1>1, <2>1, <2>2
<1>3. UNCHANGED <<header, left, win, connWin, initWin, max, ids>>
  BY DEF Finish
<1>4. /\ state' = [state EXCEPT ![cursor] = t] /\ UNCHANGED <<queues, phase, batch>>
      /\ cur' = IF t = "EndStream" THEN cur - 1 ELSE cur
  BY <1>1 DEF Sent
<1>5. state \in [Ids -> States] /\ cur \in Int
  BY DEF IInv, Shape, TypeOK
<1>6. TypeOK'
  <2>1. state' \in [Ids -> States] /\ cur' \in Int
    <3>1. cur - 1 \in Int
      BY <1>5, SMTT(30)
    <3>2. cur' \in Int
      BY <3>1, <1>4, <1>5
    <3> QED BY <3>2, <1>2, <1>4, <1>5
  <2> QED BY <2>1, <1>1, <1>3, <1>4 DEF IInv, Shape, TypeOK, queues, ids
<1>7. ASSUME NEW c \in Ids, c = cursor PROVE IInv'
  <2>1. /\ state'[c] = t /\ header'[c] = "none"
        /\ \A j \in Ids \ {c} : state'[j] = state[j] /\ header'[j] = header[j] /\ win'[j] = win[j]
    BY <1>0, <1>3, <1>4, <1>5, <1>7
  <2>2. cursor' = None /\ t \notin Waiting /\ Unclosed(c)
    BY <1>0, <1>1, <1>2, <1>7
  <2>3. UNCHANGED <<queues, nextId, goaway, max, phase, batch>> /\ connWin' = connWin
    BY <1>3, <1>4 DEF ids
  <2>4. cur' = IF Unclosed(c) /\ t \in ClosedStates THEN cur - 1 ELSE cur
    BY <2>2, <1>2, <1>4
  <2> QED BY <2>1, <2>2, <2>3, <2>4, <1>2, <1>6, <1>7, TurnInv
<1> QED BY <1>0, <1>7

\* The body fails and the stream is reset.
LEMMA BodyErrorInv ==
  ASSUME CardFacts, IInv, BodyError
  PROVE  IInv'
<1>0. cursor \in Ids /\ Unclosed(cursor) /\ header[cursor] = "none"
  BY ReadingFacts DEF BodyError
<1>1. /\ state' = [state EXCEPT ![cursor] = "LocalRst"]
      /\ header' = [header EXCEPT ![cursor] = "none"]
      /\ left' = [left EXCEPT ![cursor] = 0]
      /\ cur' = cur - 1 /\ cursor' = None
      /\ UNCHANGED <<win, connWin, initWin, max, queues, ids, phase, batch>>
  BY DEF BodyError, Reset
<1>2. "LocalRst" \in Known /\ "LocalRst" \in ClosedStates /\ "LocalRst" \notin Waiting /\ "LocalRst" \in States
  BY TurnStates
<1>3. /\ state \in [Ids -> States] /\ header \in [Ids -> Headers] /\ left \in [Ids -> 0 .. MaxBody]
      /\ cur \in Int /\ MaxBody \in Nat
  BY H2Assumption DEF IInv, Shape, TypeOK
<1>4. TypeOK'
  <2>1. /\ state' \in [Ids -> States] /\ header' \in [Ids -> Headers] /\ left' \in [Ids -> 0 .. MaxBody]
        /\ cur' \in Int
    <3>1. "none" \in Headers /\ 0 \in 0 .. MaxBody /\ cur - 1 \in Int
      BY <1>3, SMTT(30) DEF Headers
    <3> QED BY <3>1, <1>1, <1>2, <1>3
  <2> QED BY <2>1, <1>1 DEF IInv, Shape, TypeOK, queues, ids
<1>5. ASSUME NEW c \in Ids, c = cursor, NEW t \in Known, t = "LocalRst" PROVE IInv'
  <2>1. /\ state'[c] = t /\ header'[c] = "none"
        /\ \A j \in Ids \ {c} : state'[j] = state[j] /\ header'[j] = header[j] /\ win'[j] = win[j]
    BY <1>0, <1>1, <1>3, <1>5
  <2>2. cursor' = None /\ t \notin Waiting /\ Unclosed(c) /\ t \in ClosedStates
    BY <1>0, <1>1, <1>2, <1>5
  <2>3. UNCHANGED <<queues, nextId, goaway, max, phase, batch>> /\ connWin' = connWin
    BY <1>1 DEF ids
  <2> QED BY <2>1, <2>2, <2>3, <1>1, <1>4, <1>5, TurnInv
<1> QED BY <1>0, <1>2, <1>5

\* A stream that cannot go on is queued for what it waits for.
LEMMA BlockedInv ==
  ASSUME IInv, BlockOnStream \/ BlockOnConn \/ BodyPending
  PROVE  IInv'
<1>0. Reading /\ cursor \in Ids
  BY ReadingFacts DEF BlockOnStream, BlockOnConn, BodyPending
<1>1. /\ UNCHANGED <<streams, limits, ids, phase, batch, pendConc>> /\ cursor' = None
      /\ \/ pendStream' = pendStream \cup {cursor} /\ win[cursor] <= 0 /\ UNCHANGED <<pendSend, pendConn>>
         \/ pendConn' = Append(pendConn, cursor) /\ connWin <= 0 /\ UNCHANGED <<pendSend, pendStream>>
         \/ pendSend' = Append(pendSend, cursor) /\ UNCHANGED <<pendConn, pendStream>>
  BY DEF BlockOnStream, BlockOnConn, BodyPending
<1>2. connWin <= 0 => connWin = 0
  BY SMTT(30) DEF IInv, Shape, TypeOK
<1>3. TypeOK'
  <2>1. pendSend' \in Seq(Ids) /\ pendConn' \in Seq(Ids) /\ pendStream' \subseteq Ids
    <3>1. pendSend \in Seq(Ids) /\ pendConn \in Seq(Ids) /\ pendStream \subseteq Ids
      BY DEF IInv, Shape, TypeOK
    <3>2. Append(pendSend, cursor) \in Seq(Ids) /\ Append(pendConn, cursor) \in Seq(Ids)
      BY <3>1, <1>0, AppendFacts
    <3> QED BY <3>1, <3>2, <1>0, <1>1
  <2> QED BY <2>1, <1>1 DEF IInv, Shape, TypeOK, streams, limits, ids
<1> QED BY <1>0, <1>1, <1>2, <1>3, RequeueInv

\* The next stream of pending_send has its turn.
LEMMA NextPendingInv ==
  ASSUME IInv, NextPending
  PROVE  IInv'
<1> DEFINE c == Head(pendSend)
<1>0. /\ phase = "input" /\ cursor = None /\ batch \in Nat /\ batch > 0 /\ pendSend # <<>>
      /\ pendSend \in Seq(Ids) /\ Once(pendSend) /\ ~goaway /\ batch <= Len(pendSend)
  BY DEF NextPending, IInv, Shape, TypeOK, Placed
<1>1. /\ state' = state /\ header' = header /\ left' = left /\ win' = win
      /\ connWin' = connWin /\ initWin' = initWin /\ cur' = cur /\ max' = max
      /\ pendConc' = pendConc /\ pendConn' = pendConn /\ pendStream' = pendStream
      /\ nextId' = nextId /\ maxSendId' = maxSendId /\ goaway' = goaway /\ phase' = phase
      /\ cursor' = c /\ pendSend' = Tail(pendSend) /\ batch' = batch - 1
  BY DEF NextPending, streams, limits, ids
<1>2. /\ DOMAIN pendSend = 1 .. Len(pendSend) /\ Len(pendSend) \in Nat \ {0} /\ c = pendSend[1] /\ c \in Ids
      /\ Tail(pendSend) \in Seq(Ids) /\ Len(Tail(pendSend)) = Len(pendSend) - 1
      /\ DOMAIN Tail(pendSend) = 1 .. Len(pendSend) - 1
      /\ \A k \in 1 .. Len(pendSend) - 1 : Tail(pendSend)[k] = pendSend[k + 1]
  BY <1>0, TailFacts, LenFacts, SMTT(30)
<1>3. /\ \A i \in Ids : InSeq(i, pendSend) <=> i = c \/ InSeq(i, Tail(pendSend))
      /\ Once(Tail(pendSend)) /\ ~InSeq(c, Tail(pendSend))
  BY <1>0, InTail, OnceTail
<1>c. PICK h \in Ids : h = c
  BY <1>2
<1> HIDE DEF c
<1>4. ASSUME NEW j \in Ids
      PROVE  /\ Idle(j)' <=> Idle(j)
             /\ Unclosed(j)' <=> Unclosed(j)
             /\ Unsent(j)' <=> Unsent(j)
             /\ InSeq(j, pendConc)' <=> InSeq(j, pendConc)
             /\ InSeq(j, pendConn)' <=> InSeq(j, pendConn)
             /\ InSeq(j, pendSend)' <=> InSeq(j, pendSend) /\ j # h
             /\ InSeq(h, pendSend)
  BY <1>1, <1>3, <1>c DEF Idle, Unclosed, Unsent, InSeq
<1>5. Shape'
  <2>1. TypeOK'
    <3>1. batch' \in Nat /\ pendSend' \in Seq(Ids) /\ cursor' \in Ids \cup {None}
      BY <1>0, <1>1, <1>2, SMTT(30)
    <3> QED BY <3>1, <1>1 DEF IInv, Shape, TypeOK
  <2>2. batch' <= Len(pendSend')
    BY <1>0, <1>1, <1>2, SMTT(30)
  <2>3. \A j \in Ids : state'[j] \in Reached /\ (header'[j] # "none" <=> Idle(j)') /\ (state'[j] = "none" <=> j >= nextId')
    BY <1>1, <1>4 DEF IInv, Shape
  <2> QED BY <2>1, <2>2, <2>3, <1>0, <1>1 DEF Shape
<1>6. Placed'
  <2>1. Once(pendConc)' /\ Once(pendSend)' /\ Once(pendConn)'
    BY <1>1, <1>3 DEF IInv, Placed
  <2>2. (\A i \in pendStream' : win'[i] <= 0) /\ (pendConn' # <<>> => connWin' = 0)
    BY <1>1 DEF IInv, Placed
  <2>3. Running' <=> Running
    BY <1>1 DEF Running
  <2>4. ASSUME NEW i \in Ids
        PROVE  /\ InSeq(i, pendConc) => ~InSeq(i, pendSend) /\ ~InSeq(i, pendConn) /\ i \notin pendStream
               /\ InSeq(i, pendSend) => ~InSeq(i, pendConn) /\ i \notin pendStream
               /\ InSeq(i, pendConn) => i \notin pendStream
               /\ Queued(i) => state[i] \notin {"none", "LocalH", "LocalD"}
               /\ Running /\ Unsent(i) => Queued(i)
               /\ InSeq(i, pendConc) => Idle(i) \/ (goaway /\ ~Unclosed(i))
    BY <1>0, H2Assumption DEF IInv, Placed
  <2>5. ASSUME NEW i \in Ids
        PROVE  /\ Queued(i) <=> Queued(i)' \/ i = h
               /\ i = h => ~Queued(i)'
    BY <1>1, <1>4, <2>4 DEF Queued
  <2> QED BY <1>1, <1>4, <1>c, <2>1, <2>2, <2>3, <2>4, <2>5 DEF Placed
<1>7. Ordered'
  <2>1. /\ \A j, k \in DOMAIN pendConc : j < k => pendConc[j] < pendConc[k]
        /\ \A j, k \in DOMAIN pendSend :
             j < k /\ Idle(pendSend[j]) /\ Idle(pendSend[k]) => pendSend[j] < pendSend[k]
        /\ \A j \in DOMAIN pendSend, k \in DOMAIN pendConc : Idle(pendSend[j]) => pendSend[j] < pendConc[k]
    BY DEF IInv, Ordered
  <2>2. ASSUME NEW j \in DOMAIN pendSend'
        PROVE  j + 1 \in DOMAIN pendSend /\ pendSend'[j] = pendSend[j + 1] /\ j \in Int
    BY <1>1, <1>2, SMTT(30)
  <2>3. ASSUME NEW j \in DOMAIN pendSend', NEW k \in DOMAIN pendSend', j < k,
               state[pendSend'[j]] = "Idle", state[pendSend'[k]] = "Idle"
        PROVE  pendSend'[j] < pendSend'[k]
    <3>1. j + 1 < k + 1
      BY <2>2, <2>3, SMTT(30)
    <3> QED BY <3>1, <2>1, <2>2, <2>3 DEF Idle
  <2>4. ASSUME NEW j \in DOMAIN pendSend', NEW k \in DOMAIN pendConc, state[pendSend'[j]] = "Idle"
        PROVE  pendSend'[j] < pendConc[k]
    BY <2>1, <2>2, <2>4 DEF Idle
  <2>5. ASSUME NEW i \in Ids, Idle(i)
        PROVE  \/ InSeq(i, pendConc) /\ (Idle(h) => h <= i)
               \/ h = i
               \/ (Idle(h) => h <= i) /\ \E k \in 1 .. batch' : k \in DOMAIN pendSend' /\ pendSend'[k] = i
    <3>1. CASE InSeq(i, pendConc)
      <4>1. PICK k \in DOMAIN pendConc : pendConc[k] = i
        BY <3>1 DEF InSeq
      <4>2. Idle(h) => h < i
        BY <4>1, <2>1, <1>2, <1>c, SMTT(30)
      <4> QED BY <4>2, <3>1, SMTT(30) DEF Ids
    <3>2. CASE \E k \in 1 .. batch : k \in DOMAIN pendSend /\ pendSend[k] = i
      <4>1. PICK k \in 1 .. batch : k \in DOMAIN pendSend /\ pendSend[k] = i
        BY <3>2
      <4>2. CASE k = 1
        BY <4>1, <4>2, <1>2, <1>c
      <4>3. CASE k # 1
        <5>1. k - 1 \in 1 .. batch' /\ k - 1 \in DOMAIN pendSend' /\ pendSend'[k - 1] = i
          BY <4>1, <4>3, <1>0, <1>1, <1>2, SMTT(30)
        <5>2. 1 \in DOMAIN pendSend /\ 1 < k
          BY <4>1, <4>3, <1>0, <1>2, SMTT(30)
        <5>3. Idle(h) => h < i
          BY <5>2, <4>1, <2>1, <2>5, <1>2, <1>c
        <5> QED BY <5>1, <5>3, SMTT(30) DEF Ids
      <4> QED BY <4>2, <4>3
    <3>3. InSeq(i, pendConc) \/ \E k \in 1 .. batch : k \in DOMAIN pendSend /\ pendSend[k] = i
      BY <2>5, <1>0, H2Assumption DEF IInv, Ordered
    <3> QED BY <3>1, <3>2, <3>3
  <2>6. ASSUME NEW i \in Ids, Idle(i)
        PROVE  /\ Idle(h) => h <= i
               /\ \/ InSeq(i, pendConc)
                  \/ h = i
                  \/ \E k \in 1 .. batch' : k \in DOMAIN pendSend' /\ pendSend'[k] = i
    <3>1. h <= h
      BY SMTT(30) DEF Ids
    <3> QED BY <3>1, <2>5, <2>6
  <2>7. OpenedInOrder'
    BY <1>1 DEF IInv, Ordered, OpenedInOrder
  <2> QED BY <1>0, <1>1, <1>4, <1>c, <2>1, <2>3, <2>4, <2>6, <2>7 DEF Ordered, Idle
<1>8. Limited'
  <2>1. Counted' = Counted
    BY <1>4 DEF Counted
  <2>2. Running' <=> Running
    BY <1>1 DEF Running
  <2> QED BY <2>1, <2>2, <1>1, <1>4 DEF IInv, Limited
<1> QED BY <1>5, <1>6, <1>7, <1>8 DEF IInv

\* The batch is done: every stream that was not opened waits for a slot.
LEMMA EndBatchInv ==
  ASSUME IInv, EndBatch
  PROVE  IInv'
<1>0. phase = "input" /\ cursor = None /\ batch = 0 /\ ~goaway /\ Running /\ Running'
  <2>1. pendSend = <<>> => batch = 0
    BY SMTT(30) DEF EndBatch, IInv, Shape, TypeOK
  <2> QED BY <2>1 DEF EndBatch, IInv, Shape, Running
<1>1. /\ state' = state /\ header' = header /\ left' = left /\ win' = win
      /\ connWin' = connWin /\ initWin' = initWin /\ cur' = cur /\ max' = max
      /\ pendConc' = pendConc /\ pendSend' = pendSend /\ pendConn' = pendConn /\ pendStream' = pendStream
      /\ nextId' = nextId /\ maxSendId' = maxSendId /\ goaway' = goaway
      /\ phase' = "receive" /\ cursor' = cursor /\ batch' = 0
  BY DEF EndBatch, streams, limits, queues, ids
<1>2. ASSUME NEW j \in Ids
      PROVE  /\ Idle(j)' <=> Idle(j)
             /\ Unclosed(j)' <=> Unclosed(j)
             /\ Unsent(j)' <=> Unsent(j)
             /\ InSeq(j, pendConc)' <=> InSeq(j, pendConc)
             /\ InSeq(j, pendSend)' <=> InSeq(j, pendSend)
             /\ InSeq(j, pendConn)' <=> InSeq(j, pendConn)
             /\ Queued(j)' <=> Queued(j)
  BY <1>1 DEF Idle, Unclosed, Unsent, InSeq, Queued
<1>3. Shape'
  <2>1. TypeOK'
    BY <1>1 DEF IInv, Shape, TypeOK, Phases
  <2> QED BY <2>1, <1>0, <1>1, <1>2 DEF IInv, Shape
<1>4. Placed'
  BY <1>0, <1>1, <1>2 DEF IInv, Placed
<1>5. Ordered'
  <2>1. ASSUME NEW i \in Ids, Idle(i) PROVE InSeq(i, pendConc)
    BY <2>1, <1>0, H2Assumption, SMTT(30) DEF IInv, Ordered
  <2>2. OpenedInOrder'
    BY <1>1 DEF IInv, Ordered, OpenedInOrder
  <2> QED BY <2>1, <2>2, <1>0, <1>1, <1>2 DEF IInv, Ordered, Idle
<1>6. Limited'
  <2>1. Counted' = Counted
    BY <1>2 DEF Counted
  <2> QED BY <2>1, <1>0, <1>1 DEF IInv, Limited
<1> QED BY <1>3, <1>4, <1>5, <1>6 DEF IInv

---------------------------------------------------------------------------
(* New requests. *)

\* What is known of the id that the next request takes.
LEMMA NewIdFacts ==
  ASSUME IInv, phase = "request", nextId <= LastId, NEW n, n = nextId
  PROVE  /\ n \in Ids /\ cursor = None /\ ~goaway
         /\ ~InSeq(n, pendConc) /\ ~InSeq(n, pendSend) /\ ~InSeq(n, pendConn) /\ n \notin pendStream
         /\ state[n] = "none" /\ ~Idle(n) /\ ~Unclosed(n)
         /\ \A k \in DOMAIN pendConc : pendConc[k] \in Ids /\ pendConc[k] < n
         /\ \A k \in DOMAIN pendSend : pendSend[k] \in Ids /\ pendSend[k] < n
<1>1. n \in Ids /\ n \in Int
  BY H2Assumption, SMTT(30) DEF IInv, Shape, TypeOK, Ids
<1>2. state[n] = "none" /\ cursor = None /\ ~goaway
  <2>1. n >= nextId
    BY <1>1, SMTT(30)
  <2> QED BY <2>1, <1>1 DEF IInv, Shape
<1>3. ~Queued(n)
  BY <1>1, <1>2 DEF IInv, Placed
<1>4. ASSUME NEW i \in Ids, Queued(i) PROVE i < n
  <2>1. state[i] # "none"
    BY <1>4 DEF IInv, Placed
  <2>2. ~(i >= nextId)
    BY <2>1 DEF IInv, Shape
  <2> QED BY <2>2, <1>1, SMTT(30) DEF Ids
<1>5. ASSUME NEW k \in DOMAIN pendConc PROVE pendConc[k] \in Ids /\ InSeq(pendConc[k], pendConc)
  BY <1>5, InQueue DEF IInv, Shape, TypeOK
<1>6. ASSUME NEW k \in DOMAIN pendSend PROVE pendSend[k] \in Ids /\ InSeq(pendSend[k], pendSend)
  BY <1>6, InQueue DEF IInv, Shape, TypeOK
<1>7. ~Idle(n) /\ ~Unclosed(n)
  BY <1>2 DEF Idle, Unclosed
<1> QED BY <1>1, <1>2, <1>3, <1>4, <1>5, <1>6, <1>7 DEF Queued

\* A request is counted and queued to be sent, or waits for a slot.
LEMMA NewStreamInv ==
  ASSUME CardFacts, IInv, NEW h \in {"more", "last"}, NEW b \in 0 .. MaxBody, NewStream(h, b)
  PROVE  IInv'
<1>0. phase = "request" /\ nextId <= LastId
  BY DEF NewStream
<1>n. PICK n \in Ids : n = nextId
  BY <1>0, NewIdFacts
<1>1. /\ cursor = None /\ ~goaway
      /\ ~InSeq(n, pendConc) /\ ~InSeq(n, pendSend) /\ ~InSeq(n, pendConn) /\ n \notin pendStream
      /\ state[n] = "none" /\ ~Idle(n) /\ ~Unclosed(n)
      /\ \A k \in DOMAIN pendConc : pendConc[k] \in Ids /\ pendConc[k] < n
      /\ \A k \in DOMAIN pendSend : pendSend[k] \in Ids /\ pendSend[k] < n
  BY <1>0, <1>n, NewIdFacts
<1>2. /\ state' = [state EXCEPT ![n] = "Idle"] /\ header' = [header EXCEPT ![n] = h]
      /\ left' = [left EXCEPT ![n] = b] /\ win' = [win EXCEPT ![n] = initWin]
      /\ connWin' = connWin /\ initWin' = initWin /\ max' = max /\ pendConn' = pendConn /\ pendStream' = pendStream
      /\ maxSendId' = maxSendId /\ goaway' = goaway /\ phase' = phase /\ batch' = batch /\ cursor' = cursor
      /\ nextId' = n + 1
  BY <1>n DEF NewStream, loop
<1>3. \/ pendConc' = Append(pendConc, n) /\ cur' = cur /\ pendSend' = pendSend
      \/ pendSend' = Append(pendSend, n) /\ cur' = cur + 1 /\ pendConc' = pendConc /\ pendConc = <<>> /\ ~(cur >= max)
  BY <1>n DEF NewStream, MustWait
<1>4. /\ state \in [Ids -> States] /\ header \in [Ids -> Headers] /\ left \in [Ids -> 0 .. MaxBody]
      /\ win \in [Ids -> Int] /\ cur \in Int /\ max \in Int /\ initWin \in Int
      /\ pendConc \in Seq(Ids) /\ pendSend \in Seq(Ids) /\ LastId \in Nat
  BY H2Assumption, SMTT(30) DEF IInv, Shape, TypeOK
<1>5. /\ state'[n] = "Idle" /\ header'[n] # "none"
      /\ \A j \in Ids \ {n} : state'[j] = state[j] /\ header'[j] = header[j] /\ win'[j] = win[j]
  BY <1>2, <1>4
<1>6. /\ Idle(n)' /\ Unclosed(n)' /\ Unsent(n)'
      /\ \A j \in Ids \ {n} : /\ Idle(j)' <=> Idle(j)
                              /\ Unclosed(j)' <=> Unclosed(j)
                              /\ Unsent(j)' <=> Unsent(j)
  BY <1>5 DEF Idle, Unclosed, Unsent, ClosedStates
<1>7. /\ pendConc' \in Seq(Ids) /\ pendSend' \in Seq(Ids) /\ Once(pendConc)' /\ Once(pendSend)' /\ Once(pendConn)'
      /\ \A j \in Ids \ {n} : /\ InSeq(j, pendConc)' <=> InSeq(j, pendConc)
                              /\ InSeq(j, pendSend)' <=> InSeq(j, pendSend)
                              /\ InSeq(j, pendConn)' <=> InSeq(j, pendConn)
      /\ \/ InSeq(n, pendConc)' /\ ~InSeq(n, pendSend)'
         \/ ~InSeq(n, pendConc)' /\ InSeq(n, pendSend)'
      /\ ~InSeq(n, pendConn)'
  <2>1. Once(pendConc) /\ Once(pendSend) /\ Once(pendConn)
    BY DEF IInv, Placed
  <2>2. CASE pendConc' = Append(pendConc, n) /\ pendSend' = pendSend
    <3>1. /\ Append(pendConc, n) \in Seq(Ids) /\ Once(Append(pendConc, n))
          /\ \A j \in Ids : InSeq(j, Append(pendConc, n)) <=> InSeq(j, pendConc) \/ j = n
      <4>1. pendConc \in Seq(Ids) /\ n \in Ids /\ Once(pendConc) /\ ~InSeq(n, pendConc)
        BY <2>1, <1>1, <1>4
      <4> QED BY ONLY <4>1, AppendFacts, InAppend, OnceAppend, SMTT(30)
    <3> QED BY <2>1, <2>2, <3>1, <1>1, <1>2, <1>4
  <2>3. CASE pendSend' = Append(pendSend, n) /\ pendConc' = pendConc
    <3>1. /\ Append(pendSend, n) \in Seq(Ids) /\ Once(Append(pendSend, n))
          /\ \A j \in Ids : InSeq(j, Append(pendSend, n)) <=> InSeq(j, pendSend) \/ j = n
      <4>1. pendSend \in Seq(Ids) /\ n \in Ids /\ Once(pendSend) /\ ~InSeq(n, pendSend)
        BY <2>1, <1>1, <1>4
      <4> QED BY ONLY <4>1, AppendFacts, InAppend, OnceAppend, SMTT(30)
    <3> QED BY <2>1, <2>3, <3>1, <1>1, <1>2, <1>4
  <2> QED BY <2>2, <2>3, <1>3
<1>8. Shape'
  <2>1. TypeOK'
    <3>1. state' \in [Ids -> States] /\ header' \in [Ids -> Headers] /\ left' \in [Ids -> 0 .. MaxBody]
      <4>1. "Idle" \in States /\ h \in Headers
        BY DEF States, Headers
      <4> QED BY <4>1, <1>2, <1>4
    <3>2. win' \in [Ids -> Int]
      BY <1>2, <1>4
    <3>3. cur' \in Int
      BY <1>3, <1>4, SMTT(30)
    <3>4. nextId' \in 1 .. LastId + 1
      BY <1>2, <1>4, SMTT(30) DEF Ids
    <3> QED BY <3>1, <3>2, <3>3, <3>4, <1>2, <1>7 DEF IInv, Shape, TypeOK
  <2>2. ASSUME NEW j \in Ids
        PROVE  state'[j] \in Reached /\ (header'[j] # "none" <=> Idle(j)') /\ (state'[j] = "none" <=> j >= nextId')
    <3>1. CASE j = n
      <4>1. ~(n >= nextId')
        BY <1>2, SMTT(30) DEF Ids
      <4> QED BY <3>1, <4>1, <1>5, <1>6 DEF Reached
    <3>2. CASE j # n
      <4>1. j >= nextId' <=> j >= n
        BY <3>2, <1>2, SMTT(30) DEF Ids
      <4> QED BY <3>2, <4>1, <1>5, <1>6, <1>n DEF IInv, Shape
    <3> QED BY <3>1, <3>2
  <2> QED BY <2>1, <2>2, <1>0, <1>1, <1>2 DEF Shape
<1>9. Placed'
  <2>1. \A i \in pendStream' : win'[i] <= 0
    <3>1. \A i \in pendStream : i \in Ids \ {n} /\ win[i] <= 0
      BY <1>1 DEF IInv, Placed, Shape, TypeOK
    <3> QED BY <3>1, <1>2, <1>5
  <2>2. pendConn' # <<>> => connWin' = 0
    BY <1>2 DEF IInv, Placed
  <2>3. Running' <=> Running
    BY <1>2 DEF Running
  <2>4. ASSUME NEW i \in Ids
        PROVE  /\ InSeq(i, pendConc)' => ~InSeq(i, pendSend)' /\ ~InSeq(i, pendConn)' /\ i \notin pendStream'
               /\ InSeq(i, pendSend)' => ~InSeq(i, pendConn)' /\ i \notin pendStream'
               /\ InSeq(i, pendConn)' => i \notin pendStream'
               /\ i # cursor'
               /\ Queued(i)' => state'[i] \notin {"none", "LocalH", "LocalD"}
               /\ Running /\ Unsent(i)' => Queued(i)'
               /\ InSeq(i, pendConc)' => Idle(i)' \/ (goaway' /\ ~Unclosed(i)')
    <3>0. i # cursor'
      BY <1>1, <1>2, H2Assumption
    <3>1. CASE i = n
      BY <3>0, <3>1, <1>1, <1>2, <1>5, <1>6, <1>7 DEF Queued
    <3>2. CASE i # n
      <4>1. /\ InSeq(i, pendConc) => ~InSeq(i, pendSend) /\ ~InSeq(i, pendConn) /\ i \notin pendStream
            /\ InSeq(i, pendSend) => ~InSeq(i, pendConn) /\ i \notin pendStream
            /\ InSeq(i, pendConn) => i \notin pendStream
            /\ Queued(i) => state[i] \notin {"none", "LocalH", "LocalD"}
            /\ Running /\ Unsent(i) => Queued(i)
            /\ InSeq(i, pendConc) => Idle(i) \/ (goaway /\ ~Unclosed(i))
        BY <1>1, H2Assumption DEF IInv, Placed
      <4>2. Queued(i)' <=> Queued(i)
        BY <3>2, <1>2, <1>7 DEF Queued
      <4> QED BY <3>0, <3>2, <4>1, <4>2, <1>2, <1>5, <1>6, <1>7
    <3> QED BY <3>1, <3>2
  <2> QED BY <2>1, <2>2, <2>3, <2>4, <1>7 DEF Placed

<1>10. Ordered'
  <2>1. /\ \A j, k \in DOMAIN pendConc : j < k => pendConc[j] < pendConc[k]
        /\ \A j, k \in DOMAIN pendSend :
             j < k /\ Idle(pendSend[j]) /\ Idle(pendSend[k]) => pendSend[j] < pendSend[k]
        /\ \A j \in DOMAIN pendSend, k \in DOMAIN pendConc : Idle(pendSend[j]) => pendSend[j] < pendConc[k]
    BY DEF IInv, Ordered
  <2>2. \A k \in DOMAIN pendSend : state'[pendSend[k]] = state[pendSend[k]]
    BY <1>1, <1>5, SMTT(30) DEF Ids
  <2>3. /\ \A j, k \in DOMAIN pendConc' : j < k => pendConc'[j] < pendConc'[k]
        /\ \A j, k \in DOMAIN pendSend' :
             j < k /\ state'[pendSend'[j]] = "Idle" /\ state'[pendSend'[k]] = "Idle" => pendSend'[j] < pendSend'[k]
        /\ \A j \in DOMAIN pendSend', k \in DOMAIN pendConc' :
             state'[pendSend'[j]] = "Idle" => pendSend'[j] < pendConc'[k]
    <3>1. CASE pendConc' = Append(pendConc, n) /\ pendSend' = pendSend
      <4>1. /\ Len(pendConc) \in Nat
            /\ DOMAIN pendConc = 1 .. Len(pendConc) /\ DOMAIN pendConc' = 1 .. Len(pendConc) + 1
            /\ \A k \in DOMAIN pendConc : pendConc'[k] = pendConc[k]
            /\ pendConc'[Len(pendConc) + 1] = n
        BY <3>1, <1>4, AppendFacts, LenFacts, SMTT(30)
      <4>2. ASSUME NEW j \in DOMAIN pendConc', NEW k \in DOMAIN pendConc', j < k PROVE pendConc'[j] < pendConc'[k]
        <5>1. j \in DOMAIN pendConc /\ (k \in DOMAIN pendConc \/ k = Len(pendConc) + 1)
          BY <4>1, <4>2, SMTT(30)
        <5> QED BY <5>1, <4>1, <4>2, <2>1, <1>1
      <4>3. ASSUME NEW j \in DOMAIN pendSend, NEW k \in DOMAIN pendConc', Idle(pendSend[j])
            PROVE  pendSend[j] < pendConc'[k]
        <5>1. k \in DOMAIN pendConc \/ k = Len(pendConc) + 1
          BY <4>1, SMTT(30)
        <5> QED BY <5>1, <4>1, <4>3, <2>1, <1>1
      <4> QED BY <4>2, <4>3, <3>1, <2>1, <2>2, SMTT(30) DEF Idle
    <3>2. CASE pendSend' = Append(pendSend, n) /\ pendConc' = pendConc /\ pendConc = <<>>
      <4>1. /\ Len(pendSend) \in Nat
            /\ DOMAIN pendSend = 1 .. Len(pendSend) /\ DOMAIN pendSend' = 1 .. Len(pendSend) + 1
            /\ \A k \in DOMAIN pendSend : pendSend'[k] = pendSend[k]
            /\ pendSend'[Len(pendSend) + 1] = n
        BY <3>2, <1>4, AppendFacts, LenFacts, SMTT(30)
      <4>2. ASSUME NEW j \in DOMAIN pendSend', NEW k \in DOMAIN pendSend', j < k,
                   state'[pendSend'[j]] = "Idle", state'[pendSend'[k]] = "Idle"
            PROVE  pendSend'[j] < pendSend'[k]
        <5>1. j \in DOMAIN pendSend /\ (k \in DOMAIN pendSend \/ k = Len(pendSend) + 1)
          BY <4>1, <4>2, SMTT(30)
        <5> QED BY <5>1, <4>1, <4>2, <2>1, <2>2, <1>1 DEF Idle
      <4>3. DOMAIN pendConc' = {}
        BY <3>2, SMTT(30)
      <4> QED BY <4>2, <4>3
    <3> QED BY <3>1, <3>2, <1>3
  <2>4. ASSUME NEW i \in Ids, Idle(i)' PROVE InSeq(i, pendConc)' \/ InSeq(i, pendSend)'
    <3>1. i # n => InSeq(i, pendConc) \/ InSeq(i, pendSend)
      BY <2>4, <1>0, <1>6 DEF IInv, Ordered
    <3> QED BY <3>1, <1>7
  <2>5. OpenedInOrder'
    <3> SUFFICES ASSUME NEW i \in Ids, NEW j \in Ids, i < j, state'[i] = "Idle"
                 PROVE  state'[j] \in {"none", "Idle", "RemoteGoAway", "LocalGoAway"}
      BY DEF OpenedInOrder
    <3>1. CASE i = n
      <4>1. j >= nextId /\ j # n
        BY <3>1, <1>n, SMTT(30) DEF Ids
      <4> QED BY <4>1, <1>5 DEF IInv, Shape
    <3>2. CASE j = n
      BY <3>2, <1>5
    <3>3. CASE i # n /\ j # n
      BY <3>3, <1>5 DEF IInv, Ordered, OpenedInOrder
    <3> QED BY <3>1, <3>2, <3>3
  <2>6. phase' = "request" /\ cursor' = None
    BY <1>0, <1>1, <1>2
  <2> QED BY <2>3, <2>4, <2>5, <2>6 DEF Ordered, Idle
<1>11. Limited'
  <2>0. cur = Cardinality(Counted) /\ phase' = "request" /\ n \notin Counted
    BY <1>0, <1>1, <1>2 DEF IInv, Limited, Running, Counted
  <2>1. CASE pendConc' = Append(pendConc, n) /\ cur' = cur
    <3>1. InSeq(n, pendConc)'
      BY <2>1, <1>4, InAppend
    <3>2. Counted' = Counted
      BY <3>1, <2>0, <1>6, <1>7 DEF Counted
    <3>3. ASSUME NEW i \in Ids, Idle(i)', ~InSeq(i, pendConc)' PROVE cur <= max
      BY <3>1, <3>3, <1>0, <1>6, <1>7 DEF IInv, Limited
    <3> QED BY <2>0, <2>1, <3>2, <3>3, <1>2 DEF Limited
  <2>2. CASE pendConc' = pendConc /\ cur' = cur + 1 /\ ~(cur >= max)
    <3>1. ~InSeq(n, pendConc)'
      BY <2>2, <1>1
    <3>2. Counted' = Counted \cup {n}
      BY <3>1, <1>6, <1>7 DEF Counted
    <3>3. Cardinality(Counted') = cur + 1
      <4>1. n \in Ids /\ {n} \in SUBSET Ids /\ Counted \cap {n} = {}
        BY <2>0, <1>1
      <4>2. Cardinality({n}) = 1
        BY <4>1, CountOne
      <4>3. Cardinality(Counted \cup {n}) = Cardinality(Counted) + Cardinality({n})
        BY <4>1, CountedIds, CountUnion
      <4> QED BY <4>2, <4>3, <3>2, <2>0
    <3>4. cur' <= max'
      BY <2>2, <1>2, <1>4, SMTT(30)
    <3> QED BY <2>2, <3>3, <3>4 DEF Limited
  <2> QED BY <2>1, <2>2, <1>3
<1> QED BY <1>8, <1>9, <1>10, <1>11 DEF IInv

\* A queue without repetitions holds as many streams as it has entries.
LEMMA QueueCount ==
  ASSUME CardFacts, NEW q \in Seq(Ids), Once(q)
  PROVE  LET Q == {i \in Ids : InSeq(i, q)}
         IN  Q \in SUBSET Ids /\ Cardinality(Q) = Len(q)
BY DEF CardFacts

\* The streams that the limit allows move from pending_concurrency to pending_send.
LEMMA TryConsumeInv ==
  ASSUME CardFacts, IInv, TryConsume
  PROVE  IInv'
<1> DEFINE n == Admitted
           p == SubSeq(pendConc, 1, n)
           r == SubSeq(pendConc, n + 1, Len(pendConc))
<1>0. phase = "request" /\ cursor = None /\ ~goaway
  BY DEF TryConsume, IInv, Shape
<1>1. /\ state' = state /\ header' = header /\ left' = left /\ win' = win
      /\ connWin' = connWin /\ initWin' = initWin /\ max' = max /\ pendConn' = pendConn /\ pendStream' = pendStream
      /\ nextId' = nextId /\ maxSendId' = maxSendId /\ goaway' = goaway /\ cursor' = cursor
      /\ cur' = cur + n /\ pendSend' = pendSend \o p /\ pendConc' = r
      /\ phase' = "input" /\ batch' = Len(pendSend')
  BY DEF TryConsume, streams, ids
<1>2. /\ pendConc \in Seq(Ids) /\ pendSend \in Seq(Ids) /\ Once(pendConc) /\ Once(pendSend) /\ Once(pendConn)
      /\ cur \in Int /\ max \in Nat
  BY H2Assumption DEF IInv, Shape, TypeOK, Placed
<1>3. /\ n \in 0 .. Len(pendConc) /\ Len(pendConc) \in Nat
      /\ n = 0 \/ cur + n <= max
  <2>1. Len(pendConc) \in Nat
    BY <1>2, LenFacts
  <2>2. \A l \in Nat : LET m == IF cur < max THEN Least(max - cur, l) ELSE 0
                       IN  m \in 0 .. l /\ (m = 0 \/ cur + m <= max)
    BY <1>2, SMTT(30) DEF Least
  <2> QED BY <2>1, <2>2 DEF Admitted
<1> HIDE DEF n
<1>4. /\ p \in Seq(Ids) /\ r \in Seq(Ids) /\ Len(p) = n /\ Len(r) = Len(pendConc) - n
      /\ \A k \in 1 .. n : p[k] = pendConc[k]
      /\ \A k \in 1 .. Len(pendConc) - n : r[k] = pendConc[n + k]
      /\ \A i : InSeq(i, pendConc) <=> InSeq(i, p) \/ InSeq(i, r)
      /\ Once(p) /\ Once(r) /\ \A i : ~(InSeq(i, p) /\ InSeq(i, r))
  <2>1. pendConc \in Seq(Ids) /\ n \in 0 .. Len(pendConc) /\ Once(pendConc)
    BY <1>2, <1>3
  <2>2. /\ p \in Seq(Ids) /\ r \in Seq(Ids) /\ Len(p) = n /\ Len(r) = Len(pendConc) - n
        /\ \A k \in 1 .. n : p[k] = pendConc[k]
        /\ \A k \in 1 .. Len(pendConc) - n : r[k] = pendConc[n + k]
        /\ \A i : InSeq(i, pendConc) <=> InSeq(i, p) \/ InSeq(i, r)
        /\ Once(pendConc) => Once(p) /\ Once(r) /\ \A i : ~(InSeq(i, p) /\ InSeq(i, r))
    BY <2>1, Split
  <2> HIDE DEF p, r
  <2> QED BY <2>1, <2>2
<1> HIDE DEF p, r
<1>5. /\ DOMAIN p = 1 .. n /\ DOMAIN r = 1 .. Len(pendConc) - n
      /\ DOMAIN pendSend = 1 .. Len(pendSend) /\ DOMAIN pendConc = 1 .. Len(pendConc) /\ Len(pendSend) \in Nat
  BY <1>2, <1>4, LenFacts
<1>6. /\ pendSend \o p \in Seq(Ids) /\ Len(pendSend \o p) = Len(pendSend) + n
      /\ DOMAIN (pendSend \o p) = 1 .. Len(pendSend) + n
      /\ \A k \in 1 .. Len(pendSend) + n :
           (pendSend \o p)[k] = IF k <= Len(pendSend) THEN pendSend[k] ELSE p[k - Len(pendSend)]
  <2>1. /\ pendSend \o p \in Seq(Ids) /\ Len(pendSend \o p) = Len(pendSend) + Len(p)
        /\ \A k \in 1 .. Len(pendSend) + Len(p) :
             (pendSend \o p)[k] = IF k <= Len(pendSend) THEN pendSend[k] ELSE p[k - Len(pendSend)]
    <3>1. pendSend \in Seq(Ids) /\ p \in Seq(Ids)
      BY <1>2, <1>4
    <3> QED BY <3>1, ConcatFacts
  <2>2. DOMAIN (pendSend \o p) = 1 .. Len(pendSend \o p)
    BY <2>1, LenFacts
  <2> QED BY <2>1, <2>2, <1>4
<1>7. ASSUME NEW j \in Ids
      PROVE  /\ Idle(j)' <=> Idle(j)
             /\ Unclosed(j)' <=> Unclosed(j)
             /\ Unsent(j)' <=> Unsent(j)
             /\ InSeq(j, pendConn)' <=> InSeq(j, pendConn)
             /\ InSeq(j, pendConc)' <=> InSeq(j, r)
             /\ InSeq(j, pendSend)' <=> InSeq(j, pendSend) \/ InSeq(j, p)
  <2>1. InSeq(j, pendSend \o p) <=> InSeq(j, pendSend) \/ InSeq(j, p)
    BY <1>2, <1>4, InConcat
  <2>2. /\ InSeq(j, pendConn)' <=> InSeq(j, pendConn)
        /\ InSeq(j, pendConc)' <=> InSeq(j, r)
        /\ InSeq(j, pendSend)' <=> InSeq(j, pendSend \o p)
    BY <1>1 DEF InSeq
  <2> QED BY <2>1, <2>2, <1>1 DEF Idle, Unclosed, Unsent
<1>8. ASSUME NEW i \in Ids
      PROVE  /\ InSeq(i, pendConc) => ~InSeq(i, pendSend) /\ ~InSeq(i, pendConn) /\ i \notin pendStream /\ Idle(i)
             /\ InSeq(i, pendSend) => ~InSeq(i, pendConn) /\ i \notin pendStream
             /\ InSeq(i, pendConn) => i \notin pendStream
             /\ Queued(i) => state[i] \notin {"none", "LocalH", "LocalD"}
             /\ Running /\ Unsent(i) => Queued(i)
             /\ i # cursor
  BY <1>0, H2Assumption DEF IInv, Placed
<1>9. Shape'
  <2>1. TypeOK'
    <3>1. cur' \in Int /\ batch' \in Nat /\ phase' \in Phases
      BY <1>1, <1>2, <1>3, <1>5, <1>6, SMTT(30) DEF Phases
    <3> QED BY <3>1, <1>1, <1>4, <1>6 DEF IInv, Shape, TypeOK
  <2>2. batch' <= Len(pendSend')
    BY <1>1, <1>3, <1>5, <1>6, SMTT(30)
  <2> QED BY <2>1, <2>2, <1>0, <1>1, <1>7 DEF IInv, Shape
<1>10. Placed'
  <2>1. Once(pendSend)'
    BY <1>1, <1>2, <1>4, <1>8, OnceConcat
  <2>2. ASSUME NEW i \in Ids PROVE Queued(i)' <=> Queued(i)
    BY <1>1, <1>4, <1>7 DEF Queued
  <2>3. Running' <=> Running
    BY <1>0, <1>1 DEF Running
  <2>4. (\A i \in pendStream' : win'[i] <= 0) /\ (pendConn' # <<>> => connWin' = 0)
    BY <1>1 DEF IInv, Placed
  <2>5. Once(pendConc)' /\ Once(pendConn)'
    BY <1>1, <1>2, <1>4
  <2> QED BY <2>1, <2>2, <2>3, <2>4, <2>5, <1>1, <1>4, <1>7, <1>8 DEF Placed
<1>11. Ordered'
  <2>1. /\ \A j, k \in DOMAIN pendConc : j < k => pendConc[j] < pendConc[k]
        /\ \A j, k \in DOMAIN pendSend :
             j < k /\ Idle(pendSend[j]) /\ Idle(pendSend[k]) => pendSend[j] < pendSend[k]
        /\ \A j \in DOMAIN pendSend, k \in DOMAIN pendConc : Idle(pendSend[j]) => pendSend[j] < pendConc[k]
    BY DEF IInv, Ordered
  <2>2. ASSUME NEW k \in DOMAIN r PROVE n + k \in DOMAIN pendConc /\ r[k] = pendConc[n + k] /\ k \in Int /\ n + k > n
    <3>1. \A l \in Nat : \A m \in 0 .. l : \A j \in 1 .. l - m : m + j \in 1 .. l /\ j \in Int /\ m + j > m
      BY SMTT(30)
    <3>2. k \in 1 .. Len(pendConc) - n
      BY <1>5
    <3>3. n + k \in 1 .. Len(pendConc) /\ k \in Int /\ n + k > n
      BY <3>1, <3>2, <1>3
    <3> QED BY <3>2, <3>3, <1>4, <1>5
  <2>3. ASSUME NEW k \in DOMAIN (pendSend \o p)
        PROVE  \/ k \in DOMAIN pendSend /\ (pendSend \o p)[k] = pendSend[k]
               \/ /\ k - Len(pendSend) \in DOMAIN pendConc /\ k - Len(pendSend) <= n /\ k > Len(pendSend)
                  /\ (pendSend \o p)[k] = pendConc[k - Len(pendSend)]
    <3>1. CASE k <= Len(pendSend)
      BY <3>1, <1>3, <1>5, <1>6, SMTT(30)
    <3>2. CASE ~(k <= Len(pendSend))
      <4>1. k \in 1 .. Len(pendSend) + n /\ k - Len(pendSend) \in 1 .. n
        BY <3>2, <1>3, <1>5, <1>6, SMTT(30)
      <4>2. p[k - Len(pendSend)] = pendConc[k - Len(pendSend)] /\ (pendSend \o p)[k] = p[k - Len(pendSend)]
        BY <4>1, <3>2, <1>4, <1>6
      <4> QED BY <4>1, <4>2, <3>2, <1>3, <1>5, SMTT(30)
    <3> QED BY <3>1, <3>2
  <2>4. ASSUME NEW j \in DOMAIN r, NEW k \in DOMAIN r, j < k PROVE r[j] < r[k]
    <3>1. n + j < n + k
      BY <2>2, <2>4, <1>3, SMTT(30)
    <3> QED BY <3>1, <2>1, <2>2
  <2>5. ASSUME NEW j \in DOMAIN (pendSend \o p), NEW k \in DOMAIN (pendSend \o p), j < k,
               Idle((pendSend \o p)[j]), Idle((pendSend \o p)[k])
        PROVE  (pendSend \o p)[j] < (pendSend \o p)[k]
    <3>1. j \in Int /\ k \in Int /\ Len(pendSend) \in Int /\ \A l \in Int : j > l => j - l < k - l /\ k > l
      BY <2>5, <1>5, <1>6, SMTT(30)
    <3>2. CASE j \in DOMAIN pendSend /\ k \in DOMAIN pendSend
      BY <3>2, <2>1, <2>3, <2>5, <1>5, SMTT(30)
    <3>3. CASE j \in DOMAIN pendSend /\ k \notin DOMAIN pendSend
      BY <3>3, <2>1, <2>3, <2>5, <1>5, SMTT(30)
    <3>4. CASE j \notin DOMAIN pendSend
      <4>1. k \notin DOMAIN pendSend /\ j - Len(pendSend) < k - Len(pendSend)
        BY <3>1, <3>4, <2>3, <1>5, SMTT(30)
      <4> QED BY <4>1, <3>4, <2>1, <2>3
    <3> QED BY <3>2, <3>3, <3>4
  <2>6. ASSUME NEW j \in DOMAIN (pendSend \o p), NEW k \in DOMAIN r, Idle((pendSend \o p)[j])
        PROVE  (pendSend \o p)[j] < r[k]
    <3>1. CASE j \in DOMAIN pendSend /\ (pendSend \o p)[j] = pendSend[j]
      BY <3>1, <2>1, <2>2, <2>6
    <3>2. CASE /\ j - Len(pendSend) \in DOMAIN pendConc /\ j - Len(pendSend) <= n
               /\ (pendSend \o p)[j] = pendConc[j - Len(pendSend)]
      <4>1. j - Len(pendSend) < n + k
        BY <3>2, <2>2, <1>3, <1>5, SMTT(30)
      <4> QED BY <4>1, <3>2, <2>1, <2>2
    <3> QED BY <3>1, <3>2, <2>3
  <2>7. ASSUME NEW i \in Ids, Idle(i)
        PROVE  InSeq(i, r) \/ \E k \in 1 .. batch' : k \in DOMAIN pendSend' /\ pendSend'[k] = i
    <3>1. InSeq(i, pendConc) \/ InSeq(i, pendSend)
      BY <2>7, <1>0 DEF IInv, Ordered
    <3>2. InSeq(i, r) \/ InSeq(i, pendSend)'
      BY <3>1, <1>4, <1>7
    <3>3. DOMAIN pendSend' = 1 .. batch'
      BY <1>1, <1>6
    <3> QED BY <3>2, <3>3 DEF InSeq
  <2>8. OpenedInOrder'
    BY <1>1 DEF IInv, Ordered, OpenedInOrder
  <2>9. cursor' = None
    BY <1>0, <1>1
  <2> QED BY <2>4, <2>5, <2>6, <2>7, <2>8, <2>9, <1>1, <1>7 DEF Ordered, Idle
<1>12. Limited'
  <2> DEFINE P == {i \in Ids : InSeq(i, p)}
  <2>0. cur = Cardinality(Counted)
    BY <1>0 DEF IInv, Limited, Running
  <2>1. P \in SUBSET Ids /\ Cardinality(P) = n
    BY <1>4, QueueCount
  <2>2. Counted' = Counted \cup P /\ Counted \cap P = {}
    <3>1. ASSUME NEW i \in Ids PROVE i \in Counted' <=> i \in Counted \/ i \in P
      <4>1. InSeq(i, p) => Unclosed(i)
        BY <1>4, <1>8, OneStream
      <4> QED BY <4>1, <1>4, <1>7 DEF Counted
    <3>2. ASSUME NEW i \in Ids PROVE ~(i \in Counted /\ i \in P)
      BY <1>4 DEF Counted
    <3> QED BY <3>1, <3>2 DEF Counted
  <2> HIDE DEF P
  <2>3. Cardinality(Counted') = cur + n
    <3>1. Cardinality(Counted \cup P) = Cardinality(Counted) + Cardinality(P)
      BY <2>1, <2>2, CountedIds, CountUnion
    <3> QED BY <3>1, <2>0, <2>1, <2>2, <1>2, <1>3
  <2>4. ASSUME NEW i \in Ids, Idle(i), ~InSeq(i, r) PROVE cur + n <= max
    <3>1. CASE n = 0
      <4>1. ~InSeq(i, p)
        BY <3>1, <1>5, SMTT(30) DEF InSeq
      <4>2. cur <= max
        BY <4>1, <2>4, <1>0, <1>4 DEF IInv, Limited
      <4> QED BY <4>2, <3>1, <1>2, SMTT(30)
    <3>2. CASE n # 0
      BY <3>2, <1>3
    <3> QED BY <3>1, <3>2
  <2> QED BY <2>3, <2>4, <1>1, <1>7 DEF Limited
<1> QED BY <1>9, <1>10, <1>11, <1>12 DEF IInv

---------------------------------------------------------------------------
(* Every step, and the theorems. *)

\* A fresh Streams.
LEMMA InitInv == CardFacts /\ Init => IInv
<1> SUFFICES ASSUME CardFacts, Init PROVE IInv
  OBVIOUS
<1>0. /\ state = [i \in Ids |-> "none"] /\ header = [i \in Ids |-> "none"]
      /\ left = [i \in Ids |-> 0] /\ win = [i \in Ids |-> 0]
      /\ connWin = FirstWindow /\ initWin = FirstWindow /\ cur = 0 /\ max = FirstLimit
      /\ pendConc = <<>> /\ pendSend = <<>> /\ pendConn = <<>> /\ pendStream = {}
      /\ nextId = 1 /\ maxSendId = LastId /\ goaway = FALSE
      /\ phase = "receive" /\ batch = 0 /\ cursor = None
  BY DEF Init
<1>1. TypeOK
  <2>1. "none" \in States /\ "none" \in Headers /\ "receive" \in Phases /\ <<>> \in Seq(Ids)
    BY EmptyFacts DEF States, Headers, Phases
  <2>2. /\ FirstWindow \in Nat /\ FirstWindow \in Windows /\ FirstLimit \in Limits /\ LastId \in Nat
        /\ 1 \in 1 .. LastId + 1 /\ 0 \in 0 .. MaxBody /\ 0 \in Int /\ 0 \in Nat
    BY H2Assumption, SMTT(30)
  <2>3. /\ state \in [Ids -> States] /\ header \in [Ids -> Headers]
        /\ left \in [Ids -> 0 .. MaxBody] /\ win \in [Ids -> Int]
    BY <1>0, <2>1, <2>2
  <2>4. /\ connWin \in Nat /\ initWin \in Windows /\ cur \in Int /\ max \in Limits
        /\ nextId \in 1 .. LastId + 1 /\ maxSendId \in Nat /\ batch \in Nat
    BY <1>0, <2>2
  <2>5. /\ pendConc \in Seq(Ids) /\ pendSend \in Seq(Ids) /\ pendConn \in Seq(Ids) /\ pendStream \subseteq Ids
        /\ goaway \in BOOLEAN /\ phase \in Phases /\ cursor \in Ids \cup {None}
    BY <1>0, <2>1
  <2> QED BY <2>3, <2>4, <2>5 DEF TypeOK
<1>2. ASSUME NEW i \in Ids
      PROVE  /\ state[i] = "none" /\ header[i] = "none" /\ ~Idle(i) /\ ~Unclosed(i) /\ ~Unsent(i) /\ i # cursor
             /\ ~InSeq(i, pendConc) /\ ~InSeq(i, pendSend) /\ ~InSeq(i, pendConn) /\ ~Queued(i) /\ i >= nextId
  <2>1. ~InSeq(i, pendConc) /\ ~InSeq(i, pendSend) /\ ~InSeq(i, pendConn)
    BY <1>0, InEmpty
  <2>2. state[i] = "none" /\ header[i] = "none" /\ i # cursor /\ i >= nextId
    BY <1>0, H2Assumption, SMTT(30) DEF Ids
  <2> QED BY <2>1, <2>2, <1>0 DEF Idle, Unclosed, Unsent, Queued
<1>3. Shape
  BY <1>0, <1>1, <1>2 DEF Shape, Reached
<1>4. DOMAIN pendConc = {} /\ DOMAIN pendSend = {} /\ DOMAIN pendConn = {}
  BY <1>0, SMTT(30)
<1>5. Placed
  BY <1>0, <1>2, <1>4 DEF Placed, Once
<1>6. Ordered
  BY <1>2, <1>4 DEF Ordered, OpenedInOrder, Idle
<1>7. Limited
  <2>1. Counted = {}
    BY <1>2 DEF Counted
  <2> QED BY <2>1, <1>0 DEF Limited, CardFacts
<1> QED BY <1>3, <1>5, <1>6, <1>7 DEF IInv

\* Each step of ConnManager keeps the invariant.
LEMMA NextInv == CardFacts /\ IInv /\ [Next]_vars => IInv'
<1> SUFFICES ASSUME CardFacts, IInv, [Next]_vars PROVE IInv'
  OBVIOUS
<1>1. CASE StartPending \/ DealWithGoAway
  BY <1>1, PhaseInv
<1>2. CASE NewStream("last", 0) \/ \E b \in 0 .. MaxBody : NewStream("more", b)
  BY <1>2, NewStreamInv, H2Assumption, SMTT(30)
<1>3. CASE TryConsume
  BY <1>3, TryConsumeInv
<1>4. CASE Input
  BY <1>4, NextPendingInv, EndBatchInv, SkipClosedInv, SendHeadersInv, SendDataInv, FinishInv, BodyErrorInv,
     BlockedInv DEF Input
<1>5. CASE Frame
  BY <1>5, FrameInv
<1>6. CASE ConnectionError
  BY <1>6, ConnectionErrorInv
<1>7. CASE UNCHANGED vars
  BY <1>7, StutterInv
<1> QED BY <1>1, <1>2, <1>3, <1>4, <1>5, <1>6, <1>7 DEF Next

\* The invariant gives the properties of the runs.
LEMMA InvImplies == IInv => QueuedForReason /\ NeverDead /\ OpenedInOrder /\ CountExact
<1> SUFFICES ASSUME IInv PROVE QueuedForReason /\ NeverDead /\ OpenedInOrder /\ CountExact
  OBVIOUS
<1>1. NeverDead /\ OpenedInOrder
  BY DEF NeverDead, IInv, Shape, Ordered
<1>2. CountExact
  BY DEF CountExact, IInv, Limited, Counted
<1>3. ASSUME NEW i \in Ids
      PROVE  /\ Running /\ Unsent(i) => \E k \in 1 .. 5 : Places(i)[k]
             /\ \A j, k \in 1 .. 5 : Places(i)[j] /\ Places(i)[k] => j = k
  <2> DEFINE A == InSeq(i, pendConc)
             B == InSeq(i, pendSend)
             C == InSeq(i, pendConn)
             D == i \in pendStream
             E == i = cursor
  <2>1. /\ A => ~B /\ ~C /\ ~D /\ ~E
        /\ B => ~C /\ ~D /\ ~E
        /\ C => ~D /\ ~E
        /\ D => ~E
        /\ Running /\ Unsent(i) => A \/ B \/ C \/ D \/ E
    BY DEF IInv, Placed, Queued
  <2>2. Places(i) = <<A, B, C, D, E>>
    BY DEF Places
  <2> HIDE DEF A, B, C, D, E
  <2>3. /\ Places(i)[1] = A /\ Places(i)[2] = B /\ Places(i)[3] = C /\ Places(i)[4] = D /\ Places(i)[5] = E
    BY <2>2, SMTT(30)
  <2>4. 1 \in 1 .. 5 /\ 2 \in 1 .. 5 /\ 3 \in 1 .. 5 /\ 4 \in 1 .. 5 /\ 5 \in 1 .. 5
        /\ \A k \in 1 .. 5 : k = 1 \/ k = 2 \/ k = 3 \/ k = 4 \/ k = 5
    BY SMTT(30)
  <2> HIDE <2>2
  <2>5. Running /\ Unsent(i) => \E k \in 1 .. 5 : Places(i)[k]
    BY <2>1, <2>3, <2>4
  <2>6. ASSUME NEW j \in 1 .. 5, NEW k \in 1 .. 5, Places(i)[j], Places(i)[k] PROVE j = k
    BY <2>1, <2>3, <2>4, <2>6
  <2> QED BY <2>5, <2>6
<1> QED BY <1>1, <1>2, <1>3 DEF QueuedForReason, IInv, Placed

\* HEADERS are the only frame that opens a stream.
LEMMA OnlyHeadersOpen ==
  ASSUME IInv, [Next]_vars, NEW i \in Ids, Idle(i), state'[i] \in OpenStates
  PROVE  SendHeaders
<1>0. state \in [Ids -> States] /\ "Idle" \notin OpenStates
      /\ \A s \in ClosedStates \cup {"none"} : s \notin OpenStates
  BY DEF IInv, Shape, TypeOK, OpenStates, ClosedStates
<1>1. state'[i] # state[i]
  BY <1>0 DEF Idle
<1>2. ~UNCHANGED state
  BY <1>1
<1>3. ~UNCHANGED vars /\ ~StartPending /\ ~DealWithGoAway /\ ~TryConsume
  BY <1>2 DEF vars, streams, StartPending, DealWithGoAway, TryConsume
<1>4. ASSUME NEW h, NEW b, NewStream(h, b) PROVE FALSE
  <2>1. state' = [state EXCEPT ![nextId] = "Idle"]
    BY <1>4 DEF NewStream
  <2> QED BY <2>1, <1>0, <1>1 DEF Idle
<1>5. ASSUME NEW s, CloseAll(s) PROVE FALSE
  <2>1. state'[i] \in ClosedStates \cup {"none"}
    BY <1>5 DEF CloseAll, ClosedStates
  <2> QED BY <2>1, <1>0
<1>6. ASSUME NEW j, NEW s \in ClosedStates, state' = [state EXCEPT ![j] = s] PROVE FALSE
  BY <1>0, <1>1, <1>6
<1>7. ASSUME NEW j \in Ids, NEW t, state' = [state EXCEPT ![j] = t] PROVE j = i
  BY <1>0, <1>1, <1>7
<1>8. ~Input \/ SendHeaders
  <2>1. ~NextPending /\ ~EndBatch /\ ~SkipClosed /\ ~BlockOnStream /\ ~BlockOnConn /\ ~BodyPending
    BY <1>2 DEF NextPending, EndBatch, SkipClosed, BlockOnStream, BlockOnConn, BodyPending, streams
  <2>2. ~BodyError
    BY <1>6 DEF BodyError, Reset, ClosedStates
  <2>3. ASSUME Reading, NEW t, Sent(t) \/ Die PROVE FALSE
    <3>1. cursor \in Ids /\ state[cursor] # "Idle"
      BY <2>3, ReadingFacts
    <3>2. CASE Die
      BY <3>2, <1>2 DEF Die
    <3>3. CASE Sent(t)
      BY <3>1, <3>3, <1>7 DEF Sent, Idle
    <3> QED BY <2>3, <3>2, <3>3
  <2>4. ~Finish
    BY <2>3 DEF Finish
  <2>5. ASSUME NEW n \in 1 .. MaxBody, SendData(n) PROVE FALSE
    BY <2>3, <2>5 DEF SendData
  <2> QED BY <2>1, <2>2, <2>4, <2>5 DEF Input
<1>9. ~ConnectionError
  BY <1>5 DEF ConnectionError
<1>10. ~Frame
  <2>1. ASSUME NEW j \in Ids, NEW t, NEW g \in BOOLEAN, Receive(j, t, g), KnownToPeer(j) PROVE FALSE
    <3>1. CASE t = "error"
      BY <2>1, <3>1, <1>5 DEF Receive
    <3>2. CASE t # "error" /\ t = "ignore"
      BY <2>1, <3>2, <1>3 DEF Receive
    <3>3. CASE t # "error" /\ t # "ignore"
      <4>1. \E u : state' = [state EXCEPT ![j] = u]
        BY <2>1, <3>3 DEF Receive
      <4> QED BY <4>1, <2>1, <1>7 DEF KnownToPeer, Idle
    <3> QED BY <3>1, <3>2, <3>3
  <2>2. ASSUME NEW j \in Ids, RecvReset(j) \/ StreamError(j) PROVE FALSE
    <3>1. (\E u : state' = [state EXCEPT ![j] = u]) /\ KnownToPeer(j)
      BY <2>2 DEF RecvReset, StreamError, Reset
    <3> QED BY <3>1, <1>7 DEF KnownToPeer, Idle
  <2>3. ASSUME NEW j \in Ids, NEW n \in Increments, RecvStreamWindow(j, n) \/ RecvConnWindow(n) PROVE FALSE
    BY <2>3, <1>2, <1>5 DEF RecvStreamWindow, RecvConnWindow, streams
  <2>4. ASSUME NEW m \in Limits, NEW w \in Windows, RecvSettings(m, w) PROVE FALSE
    BY <2>4, <1>2, <1>5 DEF RecvSettings
  <2>5. ASSUME NEW l \in 0 .. LastId, NEW k \in BOOLEAN, RecvGoAway(l, k) PROVE FALSE
    <3>1. state' = [j \in Ids |-> IF j > l /\ Unclosed(j) THEN "RemoteGoAway" ELSE state[j]]
      BY <2>5, <1>5 DEF RecvGoAway
    <3>2. state'[i] \in ClosedStates \/ state'[i] = state[i]
      BY <3>1 DEF ClosedStates
    <3> QED BY <3>2, <1>0, <1>1
  <2>6. ASSUME NEW n \in Increments, RecvConnWindow(n) PROVE FALSE
    BY <2>3, <2>6
  <2>7. ASSUME NEW j \in Ids, NEW e \in BOOLEAN, NEW g \in BOOLEAN, RecvHeaders(j, e, g) \/ RecvData(j, e, g)
        PROVE  FALSE
    BY <2>1, <2>7 DEF RecvHeaders, RecvData
  <2> QED BY <2>2, <2>3, <2>4, <2>5, <2>6, <2>7 DEF Frame
<1> QED BY <1>3, <1>4, <1>8, <1>9, <1>10 DEF Next

\* HEADERS are sent within the limit.
LEMMA HeadersWithinLimit ==
  ASSUME CardFacts, IInv, SendHeaders
  PROVE  Cardinality({j \in Ids : state'[j] \in OpenStates}) <= max
<1> DEFINE O == {j \in Ids : state'[j] \in OpenStates}
<1>1. /\ cursor \in Ids /\ Idle(cursor) /\ ~InSeq(cursor, pendConc) /\ phase = "input"
      /\ state' = [state EXCEPT ![cursor] = state'[cursor]]
  BY SendHeadersInv, CursorFacts DEF SendHeaders
<1>2. ASSUME NEW j \in O PROVE j \in Counted
  <2>1. CASE j = cursor
    BY <2>1, <1>1, OneStream DEF Counted
  <2>2. CASE j # cursor
    <3>1. state[j] \in OpenStates
      BY <2>2, <1>1, <1>2 DEF IInv, Shape, TypeOK
    <3>2. Unclosed(j) /\ ~Idle(j)
      BY <3>1 DEF Unclosed, Idle, OpenStates, ClosedStates
    <3> QED BY <3>2, <1>2, OneStream DEF Counted
  <2> QED BY <2>1, <2>2
<1>3. Cardinality(O) <= Cardinality(Counted) /\ Cardinality(O) \in Nat
  <2>1. O \in SUBSET Counted
    BY <1>2
  <2> QED BY <2>1, CountedIds, CountParts
<1>4. cur = Cardinality(Counted) /\ cur <= max /\ cur \in Int /\ max \in Int
  BY <1>1, H2Assumption, SMTT(30) DEF IInv, Limited, Running, Shape, TypeOK
<1> QED BY <1>3, <1>4, SMTT(30)

=============================================================================
