-------------------------- MODULE SyncClientSteps ---------------------------
(***************************************************************************)
(* The inductive invariant of the blocking client, and proofs that every   *)
(* step of a thread and of the server keeps it, for any number of threads, *)
(* calls, retries and faults.  Facts about Cardinality are taken as the    *)
(* hypothesis CardFacts, which SyncClientProofs discharges.                *)
(***************************************************************************)
EXTENDS SyncClient, Integers, TLAPS

\* Time for the leaves that cite no prover.
USE ZenonT(30)

Framings == {"none", "zero", "length", "chunk", "close"}

\* The framings of responses with a body.
Bodied == {"length", "chunk", "close"}

\* What the theorems assume of the constants: finitely many threads, and a
\* server that answers in one of the framings of the model.
Sensible == /\ IsFiniteSet(Threads) /\ Nobody \notin Threads
            /\ Plans \subseteq [Threads -> Seq(Framings)]
            /\ Retries \in Nat

Calls == Threads \X Nat
Cells == [of : Calls, is : Framings \cup {"b", "z"}]
Places == {"idle", "lock", "scan", "dispatch", "write", "head", "body", "done", "failed"}
CallType == [pc : Places, n : Nat, idx : Nat \ {0}, conn : Nat, retries : Nat, framing : Framings, left : Nat,
             pre : Seq(Cells), body : Nat]
ConnType == [occupied : BOOLEAN, shutdown : BOOLEAN, asked : Seq(Calls), wire : Seq(Cells), eof : BOOLEAN,
             cut : BOOLEAN, dirty : BOOLEAN]

TypeOK == /\ plan \in [Threads -> Seq(Framings)]
          /\ call \in [Threads -> CallType]
          /\ conns \in Seq(ConnType)
          /\ list \in Seq(1..Len(conns))
          /\ lock \in Threads \cup {Nobody}
          /\ misled \in BOOLEAN

---------------------------------------------------------------------------
(* The cells on a connection. *)

\* Every head is followed by its body, cut short only by the end of the
\* connection.
Aligned(w, eof) ==
  \A i \in 1..Len(w) : w[i].is \in {"length", "chunk"} =>
    /\ i + 1 <= Len(w) => w[i + 1].is = "b"
    /\ i + 2 <= Len(w) => w[i + 2].is = IF w[i].is = "length" THEN "b" ELSE "z"
    /\ ~eof => i + 2 <= Len(w)

\* A connection that no call has left in the middle of an exchange has nothing
\* on it when it is given back, so that the next call finds nothing there.
ConnOK(k) == /\ Aligned(k.wire, k.eof)
             /\ ~k.dirty => ~k.cut /\ (~k.occupied => k.wire = <<>> /\ k.asked = <<>>)

\* All cells of w belong to the call.
Mine(w, who) == \A i \in 1..Len(w) : w[i].of = who

\* The cells of the body that were not read.
Rest(x) == CASE x.framing = "length" -> x.left [] x.framing = "chunk" -> 2 - x.body [] OTHER -> 0

\* Before the head is read a clean connection has the answer of this call, or
\* nothing yet.
HeadOK(k, who) ==
  /\ k.asked \in {<<>>, <<who>>}
  /\ k.asked # <<>> => k.wire = <<>>
  /\ k.wire # <<>> => /\ k.wire[1].is \in Framings /\ Mine(k.wire, who)
                      /\ Len(k.wire) <= IF k.wire[1].is \in Bodied THEN 3 ELSE 1

\* The cells kept from the read of the head, then those on the connection.
Unread(x, k) == x.pre \o k.wire

\* got is the beginning of r, and s is r without its first n cells.
Front(got, r) == Len(got) \in 1..Len(r) /\ \A i \in 1..Len(got) : got[i] = r[i]
Behind(s, r, n) == Len(s) = Len(r) - n /\ \A i \in 1..Len(s) : s[i] = r[n + i]

\* While the body is read: what is kept and what is on the connection begin
\* with the cells of the body that were not read, and on a clean connection
\* there is nothing else.
BodyOK(x, k, who) ==
  LET r == Unread(x, k)
  IN  /\ x.framing \in {"zero", "length", "chunk"}
      /\ x.framing = "zero" => x.left = 0
      /\ x.framing = "length" => x.body + x.left = 2
      /\ x.framing = "chunk" => x.left = 1 /\ x.body \in {0, 1}
      /\ \A i \in 1..Len(r) : i <= Rest(x) => r[i].is = IF x.framing = "chunk" /\ i = Rest(x) THEN "z" ELSE "b"
      /\ ~k.eof => Rest(x) <= Len(r)
      /\ ~k.dirty => k.asked = <<>> /\ Len(r) <= Rest(x) /\ Mine(r, who)

\* The call x of who with the connection k.
UserOK(x, k, who) ==
  /\ x.pc \in {"scan", "write"} /\ ~k.dirty => k.wire = <<>> /\ k.asked = <<>>
  /\ x.pc = "head" /\ ~k.dirty => HeadOK(k, who)
  /\ x.pc = "body" => BodyOK(x, k, who)

---------------------------------------------------------------------------
(* The inductive invariant. *)

\* A thread is in the scan exactly when it has the mutex, and the entry it
\* dispatches to is still in the list; where it has a handle, whose flag is
\* set, and what it finds on that connection; its call is one of the plan;
\* a call that is done has its body.
UserInv(t) ==
  /\ call[t].pc \in {"scan", "dispatch"} <=> lock = t
  /\ call[t].pc = "dispatch" => call[t].idx <= Len(list)
  /\ call[t].pc \in {"write", "head", "body"} => call[t].conn # 0
  /\ call[t].pc \in {"idle", "lock", "dispatch", "done", "failed"} => call[t].conn = 0
  /\ call[t].conn # 0 => /\ call[t].conn \in 1..Len(conns) /\ conns[call[t].conn].occupied
                         /\ UserOK(call[t], conns[call[t].conn], Me(t))
  /\ call[t].n <= Len(plan[t]) /\ (call[t].pc # "idle" => call[t].n # 0)
  /\ call[t].pc \in {"idle", "lock", "scan", "dispatch", "write", "head"} => call[t].body = 0 /\ call[t].framing = "none"
  /\ call[t].pc = "done" => call[t].body >= BodyLeft(call[t].framing)

\* The cells of a connection, and that the calls sent on it are of the plan.
WireInv(c) == /\ ConnOK(conns[c])
              /\ \A i \in 1..Len(conns[c].asked) : conns[c].asked[i][2] \in 1..Len(plan[conns[c].asked[i][1]])

\* No two threads have a handle of the same connection: dispatch finds the
\* flag of a connection in use set.
Sole == \A t, u \in Threads : call[t].conn # 0 /\ call[t].conn = call[u].conn => t = u

IInv == /\ TypeOK /\ Sole /\ ~misled
        /\ \A t \in Threads : UserInv(t)
        /\ \A c \in 1..Len(conns) : WireInv(c)

---------------------------------------------------------------------------
(* Sequences. *)

\* What is left of a sequence when its first n elements are read.
LEMMA Suffix ==
  ASSUME NEW S, NEW s \in Seq(S), NEW n \in 0..Len(s)
  PROVE  LET r == SubSeq(s, n + 1, Len(s))
         IN  r \in Seq(S) /\ Len(r) = Len(s) - n /\ \A i \in 1..Len(r) : r[i] = s[n + i]
  BY SMTT(30)

\* The first n elements of a sequence.
LEMMA Prefix ==
  ASSUME NEW S, NEW s \in Seq(S), NEW n \in 0..Len(s)
  PROVE  LET r == SubSeq(s, 1, n)
         IN  r \in Seq(S) /\ Len(r) = n /\ \A i \in 1..n : r[i] = s[i]
  BY SMTT(30)

\* Two sequences one after the other.
LEMMA Concat ==
  ASSUME NEW S, NEW s \in Seq(S), NEW t \in Seq(S)
  PROVE  LET r == s \o t
         IN  /\ r \in Seq(S) /\ Len(r) = Len(s) + Len(t)
             /\ \A i \in 1..Len(s) : r[i] = s[i]
             /\ \A i \in 1..Len(t) : r[Len(s) + i] = t[i]
             /\ \A i \in 1..Len(r) : i > Len(s) => r[i] = t[i - Len(s)] /\ i - Len(s) \in 1..Len(t)
  BY SMTT(30)

\* A sequence of two.
LEMMA Pair ==
  ASSUME NEW S, NEW a \in S, NEW d \in S
  PROVE  <<a, d>> \in Seq(S) /\ Len(<<a, d>>) = 2 /\ <<a, d>>[1] = a /\ <<a, d>>[2] = d
  BY SMTT(30)

\* Aligned when the first n cells are read.
LEMMA AlignedSuffix ==
  ASSUME NEW w \in Seq(Cells), NEW eof \in BOOLEAN, Aligned(w, eof), NEW n \in 0..Len(w)
  PROVE  Aligned(SubSeq(w, n + 1, Len(w)), eof)
<1> DEFINE r == SubSeq(w, n + 1, Len(w))
<1>1. Len(r) = Len(w) - n /\ Len(w) \in Nat /\ \A i \in 1..Len(r) : r[i] = w[n + i]
  BY Suffix, SMTT(30)
<1> HIDE DEF r
<1>2. ASSUME NEW i \in 1..Len(r), r[i].is \in {"length", "chunk"}
      PROVE  /\ i + 1 <= Len(r) => r[i + 1].is = "b"
             /\ i + 2 <= Len(r) => r[i + 2].is = IF r[i].is = "length" THEN "b" ELSE "z"
             /\ ~eof => i + 2 <= Len(r)
  <2>1. PICK j \in 1..Len(w) : j = n + i
    BY <1>1, SMTT(30)
  <2>2. r[i] = w[j]
    BY <1>1, <2>1
  <2>3. i + 1 <= Len(r) => j + 1 <= Len(w) /\ r[i + 1] = w[j + 1]
    <3> SUFFICES ASSUME i + 1 <= Len(r) PROVE j + 1 <= Len(w) /\ r[i + 1] = w[j + 1]
      OBVIOUS
    <3>1. i + 1 \in 1..Len(r) /\ n + (i + 1) = j + 1 /\ j + 1 <= Len(w)
      BY <1>1, <2>1, SMTT(30)
    <3>2. r[i + 1] = w[n + (i + 1)]
      BY <1>1, <3>1
    <3> QED BY <3>1, <3>2
  <2>4. i + 2 <= Len(r) => j + 2 <= Len(w) /\ r[i + 2] = w[j + 2]
    <3> SUFFICES ASSUME i + 2 <= Len(r) PROVE j + 2 <= Len(w) /\ r[i + 2] = w[j + 2]
      OBVIOUS
    <3>1. i + 2 \in 1..Len(r) /\ n + (i + 2) = j + 2 /\ j + 2 <= Len(w)
      BY <1>1, <2>1, SMTT(30)
    <3>2. r[i + 2] = w[n + (i + 2)]
      BY <1>1, <3>1
    <3> QED BY <3>1, <3>2
  <2>5. j + 2 <= Len(w) => i + 2 <= Len(r)
    BY <1>1, <2>1, SMTT(30)
  <2>6. w[j].is \in {"length", "chunk"}
    BY <1>2, <2>2
  <2>7. /\ j + 1 <= Len(w) => w[j + 1].is = "b"
        /\ j + 2 <= Len(w) => w[j + 2].is = IF w[j].is = "length" THEN "b" ELSE "z"
        /\ ~eof => j + 2 <= Len(w)
    BY <2>6 DEF Aligned
  <2> QED BY <2>2, <2>3, <2>4, <2>5, <2>7
<1> QED BY <1>2 DEF r, Aligned

\* Aligned when the connection ends after n cells.
LEMMA AlignedPrefix ==
  ASSUME NEW w \in Seq(Cells), NEW eof \in BOOLEAN, Aligned(w, eof), NEW n \in 0..Len(w)
  PROVE  Aligned(SubSeq(w, 1, n), TRUE)
<1> DEFINE r == SubSeq(w, 1, n)
<1>1. r \in Seq(Cells) /\ Len(r) = n /\ \A i \in 1..n : r[i] = w[i]
  BY Prefix, SMTT(30)
<1> HIDE DEF r
<1>2. Aligned(r, TRUE)
  <2>1. n \in 0..Len(w) /\ Len(w) \in Nat /\ Aligned(w, eof)
    BY SMTT(30)
  <2> QED BY ONLY <1>1, <2>1, SMTT(30) DEF Aligned
<1> QED BY <1>2 DEF r

\* An answer: the head, and the body it announces.
LEMMA ReplyCells ==
  ASSUME NEW of \in Calls, NEW f \in Framings
  PROVE  LET r == Reply(of, f)
         IN  /\ r \in Seq(Cells) /\ Mine(r, of) /\ Aligned(r, FALSE)
             /\ Len(r) = IF f \in Bodied THEN 3 ELSE 1
             /\ r[1].is = f
<1> DEFINE h == <<[of |-> of, is |-> f]>>
           Cell(x) == [of |-> of, is |-> x]
           b == CASE f \in {"length", "close"} -> <<Cell("b"), Cell("b")>> [] f = "chunk" -> <<Cell("b"), Cell("z")>> [] OTHER -> <<>>
           r == h \o b
<1>1. Reply(of, f) = r
  BY DEF Reply
<1>2. h \in Seq(Cells) /\ Len(h) = 1 /\ h[1].is = f /\ h[1].of = of
  BY SMTT(30) DEF Cells
<1>3. CASE f \in Bodied
  <2>1. /\ b \in Seq(Cells) /\ Len(b) = 2 /\ b[1].of = of /\ b[2].of = of
        /\ b[1].is = "b" /\ b[2].is = IF f = "chunk" THEN "z" ELSE "b"
    <3>1. ASSUME f \in {"length", "close"} PROVE b = <<Cell("b"), Cell("b")>>
      BY <3>1
    <3>2. ASSUME f = "chunk" PROVE b = <<Cell("b"), Cell("z")>>
      BY <3>2, SMTT(30)
    <3> HIDE DEF b
    <3>0. /\ Cell("b") \in Cells /\ Cell("z") \in Cells /\ Cell("b").of = of /\ Cell("z").of = of
          /\ Cell("b").is = "b" /\ Cell("z").is = "z"
      BY SMTT(30) DEF Cells
    <3> HIDE DEF Cell
    <3>3. CASE f \in {"length", "close"}
      <4>1. b = <<Cell("b"), Cell("b")>> BY <3>1, <3>3
      <4>2. Len(b) = 2 /\ b \in Seq(Cells) /\ b[1] = Cell("b") /\ b[2] = Cell("b") BY <3>0, <4>1, Pair
      <4> QED BY <3>0, <3>3, <4>2
    <3>4. CASE f = "chunk"
      <4>1. b = <<Cell("b"), Cell("z")>> BY <3>2, <3>4
      <4>2. Len(b) = 2 /\ b \in Seq(Cells) /\ b[1] = Cell("b") /\ b[2] = Cell("z") BY <3>0, <4>1, Pair
      <4> QED BY <3>0, <3>4, <4>2
    <3> QED BY <1>3, <3>3, <3>4 DEF Bodied
  <2> HIDE DEF h, b
  <2>2. r \in Seq(Cells) /\ Len(r) = 3 /\ r[1] = h[1] /\ r[2] = b[1] /\ r[3] = b[2]
    <3>1. /\ r \in Seq(Cells) /\ Len(r) = Len(h) + Len(b)
          /\ \A i \in 1..Len(h) : r[i] = h[i]
          /\ \A i \in 1..Len(b) : r[Len(h) + i] = b[i]
      <4>1. h \in Seq(Cells) /\ b \in Seq(Cells) BY <1>2, <2>1
      <4> QED BY <4>1, Concat, SMTT(30)
    <3> HIDE DEF r
    <3> QED BY <1>2, <2>1, <3>1, SMTT(30)
  <2> HIDE DEF r
  <2>3. \A i \in 1..Len(r) : i = 1 \/ i = 2 \/ i = 3
    BY <2>2, SMTT(30)
  <2>4. Mine(r, of)
    BY <1>2, <2>1, <2>2, <2>3 DEF Mine
  <2>5. Aligned(r, FALSE)
    BY <1>2, <1>3, <2>1, <2>2, SMTT(30) DEF Aligned
  <2> QED BY <1>1, <1>2, <1>3, <2>2, <2>4, <2>5
<1>4. CASE f \notin Bodied
  <2>1. b = <<>> /\ b \in Seq(Cells)
    BY <1>4, SMTT(30) DEF Bodied
  <2> HIDE DEF h, b
  <2>2. r \in Seq(Cells) /\ Len(r) = 1 /\ r[1] = h[1]
    BY <1>2, <2>1, SMTT(30)
  <2> HIDE DEF r
  <2>3. \A i \in 1..Len(r) : i = 1
    BY <2>2, SMTT(30)
  <2>4. Mine(r, of) /\ Aligned(r, FALSE)
    BY <1>2, <1>4, <2>2, <2>3 DEF Mine, Aligned, Bodied
  <2> QED BY <1>1, <1>2, <1>4, <2>2, <2>4
<1> QED BY <1>3, <1>4

\* Aligned when a whole answer follows.
LEMMA AlignedConcat ==
  ASSUME NEW w \in Seq(Cells), Aligned(w, FALSE), NEW v \in Seq(Cells), Aligned(v, FALSE)
  PROVE  Aligned(w \o v, FALSE)
<1> DEFINE r == w \o v
<1>1. /\ r \in Seq(Cells) /\ Len(r) = Len(w) + Len(v) /\ Len(w) \in Nat /\ Len(v) \in Nat
      /\ \A i \in 1..Len(w) : r[i] = w[i]
      /\ \A i \in 1..Len(v) : r[Len(w) + i] = v[i]
  BY Concat, SMTT(30)
<1> HIDE DEF r
<1>2. ASSUME NEW i \in 1..Len(r), r[i].is \in {"length", "chunk"}
      PROVE  i + 2 <= Len(r) /\ r[i + 1].is = "b" /\ r[i + 2].is = IF r[i].is = "length" THEN "b" ELSE "z"
  <2>1. CASE i <= Len(w)
    <3>1. i \in 1..Len(w)
      BY <2>1, SMTT(30)
    <3>2. i + 2 <= Len(w) /\ i + 1 <= Len(w) /\ i + 1 \in 1..Len(w) /\ i + 2 \in 1..Len(w)
      <4>1. i + 2 <= Len(w)
        BY <1>1, <1>2, <3>1 DEF Aligned
      <4> QED BY <1>1, <3>1, <4>1, SMTT(30)
    <3>3. w[i + 1].is = "b" /\ w[i + 2].is = IF w[i].is = "length" THEN "b" ELSE "z"
      BY <1>1, <1>2, <3>1, <3>2 DEF Aligned
    <3>4. i + 2 <= Len(r)
      BY <1>1, <3>2, SMTT(30)
    <3> QED BY <1>1, <3>1, <3>2, <3>3, <3>4
  <2>2. CASE i > Len(w)
    <3>1. PICK j \in 1..Len(v) : i = Len(w) + j
      <4>1. i - Len(w) \in 1..Len(v) /\ i = Len(w) + (i - Len(w))
        BY <1>1, <2>2, SMTT(30)
      <4> QED BY <4>1
    <3>2. r[i] = v[j]
      BY <1>1, <3>1
    <3>3. j + 2 <= Len(v)
      BY <1>2, <3>2 DEF Aligned
    <3>4. /\ j + 1 <= Len(v) /\ j + 1 \in 1..Len(v) /\ j + 2 \in 1..Len(v)
          /\ i + 1 = Len(w) + (j + 1) /\ i + 2 = Len(w) + (j + 2) /\ i + 2 <= Len(r)
      BY <1>1, <3>1, <3>3, SMTT(30)
    <3>5. v[j + 1].is = "b" /\ v[j + 2].is = IF v[j].is = "length" THEN "b" ELSE "z"
      BY <1>2, <3>2, <3>3, <3>4 DEF Aligned
    <3>6. r[i + 1] = v[j + 1] /\ r[i + 2] = v[j + 2]
      <4>1. r[Len(w) + (j + 1)] = v[j + 1] /\ r[Len(w) + (j + 2)] = v[j + 2]
        BY <1>1, <3>4
      <4> QED BY <3>4, <4>1
    <3> QED BY <3>2, <3>4, <3>5, <3>6
  <2> QED BY <1>1, <2>1, <2>2, SMTT(30)
<1> QED BY <1>2 DEF r, Aligned

---------------------------------------------------------------------------
(* Reading a body. *)

\* What is taken of Cardinality.
CardFacts == \A n \in Nat :
  /\ Cardinality(1..n) = n
  /\ \A D \in SUBSET (1..n) : Cardinality(D) \in Nat /\ (D # {} => Cardinality(D) # 0)

\* The data cells of what was read are counted.
LEMMA DataCount ==
  ASSUME CardFacts, NEW got \in Seq(Cells)
  PROVE  /\ Data(got) \in Nat
         /\ (\A i \in 1..Len(got) : got[i].is = "b") => Data(got) = Len(got)
         /\ (\E i \in 1..Len(got) : got[i].is = "b") => Data(got) >= 1
<1> DEFINE D == {i \in 1..Len(got) : got[i].is = "b"}
<1>0. Len(got) \in Nat /\ 1 \in Int /\ Len(got) \in Int
  BY SMTT(30)
<1>1. Cardinality(1..Len(got)) = Len(got)
  BY <1>0 DEF CardFacts
<1>2. D \in SUBSET (1..Len(got))
  OBVIOUS
<1>3. Cardinality(D) \in Nat /\ (D # {} => Cardinality(D) # 0)
  <2> HIDE DEF D
  <2> QED BY <1>0, <1>2 DEF CardFacts
<1>4. ASSUME \A i \in 1..Len(got) : got[i].is = "b" PROVE Cardinality(D) = Len(got)
  <2>1. D = 1..Len(got) BY <1>4
  <2> QED BY <1>1, <2>1
<1>5. ASSUME \E i \in 1..Len(got) : got[i].is = "b" PROVE Cardinality(D) >= 1
  <2>1. D # {} BY <1>5
  <2>2. Cardinality(D) # 0 BY <1>3, <2>1
  <2> HIDE DEF D
  <2> QED BY <1>3, <2>2, SMTT(30)
<1> QED BY <1>3, <1>4, <1>5 DEF Data

\* Unread is a sequence, as long as its parts.
LEMMA UnreadCells ==
  ASSUME NEW x \in CallType, NEW k \in ConnType
  PROVE  /\ Unread(x, k) \in Seq(Cells) /\ x.pre \in Seq(Cells) /\ k.wire \in Seq(Cells)
         /\ Len(x.pre) \in Nat /\ Len(k.wire) \in Nat /\ Len(Unread(x, k)) \in Nat
         /\ Len(Unread(x, k)) = Len(x.pre) + Len(k.wire)
         /\ \A i \in 1..Len(x.pre) : Unread(x, k)[i] = x.pre[i]
         /\ \A i \in 1..Len(k.wire) : Unread(x, k)[Len(x.pre) + i] = k.wire[i]
<1>1. x.pre \in Seq(Cells) /\ k.wire \in Seq(Cells)
  BY SMTT(30) DEF CallType, ConnType
<1>2. Len(x.pre) \in Nat /\ Len(k.wire) \in Nat
  BY <1>1, SMTT(30)
<1> DEFINE a == x.pre
           w == k.wire
           r == a \o w
<1>3. a \in Seq(Cells) /\ w \in Seq(Cells) /\ Len(a) \in Nat /\ Len(w) \in Nat
  BY <1>1, <1>2
<1> HIDE DEF a, w
<1>4. /\ r \in Seq(Cells) /\ Len(r) = Len(a) + Len(w)
      /\ \A i \in 1..Len(a) : r[i] = a[i]
      /\ \A i \in 1..Len(w) : r[Len(a) + i] = w[i]
  BY <1>3, Concat, SMTT(30)
<1> HIDE DEF r
<1>5. Len(r) \in Nat
  BY <1>3, <1>4, SMTT(30)
<1>6. Unread(x, k) = r
  BY DEF Unread, r, a, w
<1> QED BY <1>1, <1>2, <1>4, <1>5, <1>6 DEF a, w

\* The counts of a body of one chunk of which everything is read.
LEMMA CountTwo ==
  ASSUME NEW n, NEW q, NEW b, q = 2 - b, b = 0, n = q
  PROVE  n = 2 /\ q = 2 /\ 1 \in 1..n /\ 1 <= q /\ 1 # q
  BY SMTT(30)

\* The counts of a buffer and a connection that are read from.
LEMMA CountRest ==
  ASSUME NEW n \in Nat, NEW m \in 1..n, NEW p \in Nat, NEW w \in Nat, NEW l \in Nat, l = n - m, l = p + w
  PROVE  l >= w
  BY SMTT(30)

\* The place of a cell before and after m cells were read.
LEMMA CountPlace ==
  ASSUME NEW n \in Nat, NEW m \in 1..n, NEW l \in Nat, l = n - m, NEW q \in Nat, m <= q, NEW z, z = q - m,
         NEW i \in 1..l, i <= z
  PROVE  m + i \in 1..n /\ m + i <= q /\ (m + i = q <=> i = z)
  BY SMTT(30)

\* When cells of the body are read and nothing came after its end, they are
\* the next ones; the body is complete with its last cell, and all its data
\* was then counted.
LEMMA BodyRead ==
  ASSUME CardFacts, NEW t \in Threads, call[t] \in CallType, NEW k \in ConnType, NEW who, BodyOK(call[t], k, who),
         NEW got \in Seq(Cells), Front(got, Unread(call[t], k)),
         ~Excess(t, got)
  PROVE  /\ Len(got) <= Rest(call[t]) /\ Rest(call[t]) \in Nat
         /\ Complete(t, got) <=> Len(got) = Rest(call[t])
         /\ Complete(t, got) => call[t].body + Data(got) >= BodyLeft(call[t].framing)
         /\ ~Complete(t, got) => Data(got) = Len(got)
         /\ call[t].framing = "length" => call[t].left - Len(got) \in Nat
<1> DEFINE x == call[t]
           r == Unread(call[t], k)
<1>0. /\ x.framing \in {"zero", "length", "chunk"}
      /\ x.framing = "zero" => x.left = 0
      /\ x.framing = "length" => x.body + x.left = 2
      /\ x.framing = "chunk" => x.left = 1 /\ x.body \in {0, 1}
      /\ \A i \in 1..Len(r) : i <= Rest(x) => r[i].is = IF x.framing = "chunk" /\ i = Rest(x) THEN "z" ELSE "b"
      /\ x.left \in Nat /\ x.body \in Nat /\ Len(got) \in Nat /\ Len(got) >= 1
      /\ Len(got) <= Len(r) /\ Len(r) \in Nat
  <2>1. Len(got) \in 1..Len(r) /\ Len(r) \in Nat
    BY UnreadCells DEF Front
  <2>2. Len(got) \in Nat /\ Len(got) >= 1 /\ Len(got) <= Len(r)
    BY <2>1, SMTT(30)
  <2>3. x.left \in Nat /\ x.body \in Nat
    BY SMTT(30) DEF CallType
  <2> QED BY <2>1, <2>2, <2>3 DEF BodyOK
<1>1. \A i \in 1..Len(got) : got[i] = r[i]
  BY DEF Front
<1> HIDE DEF r
<1>2. CASE x.framing = "zero"
  BY <1>0, <1>2, SMTT(30) DEF Excess
<1>3. CASE x.framing = "length"
  <2>1. Rest(x) = x.left
    BY <1>3 DEF Rest
  <2>2. Len(got) <= x.left
    BY <1>0, <1>3, SMTT(30) DEF Excess
  <2>3. \A i \in 1..Len(got) : got[i].is = "b"
    <3> SUFFICES ASSUME NEW i \in 1..Len(got) PROVE got[i].is = "b"
      OBVIOUS
    <3>1. i \in 1..Len(r) /\ i <= Rest(x)
      BY <1>0, <2>1, <2>2, SMTT(30)
    <3>2. x.framing # "chunk"
      BY <1>3
    <3> QED BY <1>0, <1>1, <3>1, <3>2
  <2>4. Data(got) = Len(got)
    BY <2>3, DataCount
  <2>5. Complete(t, got) <=> Len(got) >= x.left
    BY <1>3 DEF Complete
  <2>6. BodyLeft(x.framing) = 2
    BY <1>3 DEF BodyLeft
  <2> QED BY <1>0, <1>3, <2>1, <2>2, <2>4, <2>5, <2>6, SMTT(30)
<1>4. CASE x.framing = "chunk"
  <2>1. Rest(x) = 2 - x.body /\ Rest(x) \in 1..2
    BY <1>0, <1>4, SMTT(30) DEF Rest
  <2>2. /\ ~\E i \in 1..Len(got) : IsHead(got[i]) \/ (got[i].is = "z" /\ i < Len(got))
        /\ Complete(t, got) <=> \E i \in 1..Len(got) : got[i].is = "z"
    BY <1>4 DEF Excess, Complete
  <2>3. \A i \in 1..Len(got) : i <= Rest(x) => got[i].is = IF i = Rest(x) THEN "z" ELSE "b"
    <3> SUFFICES ASSUME NEW i \in 1..Len(got), i <= Rest(x) PROVE got[i].is = IF i = Rest(x) THEN "z" ELSE "b"
      OBVIOUS
    <3>1. i \in 1..Len(r)
      BY <1>0, SMTT(30)
    <3> QED BY <1>0, <1>1, <1>4, <3>1
  <2>4. Len(got) <= Rest(x)
    <3> SUFFICES ASSUME Rest(x) < Len(got) PROVE FALSE
      BY <1>0, <2>1, SMTT(30)
    <3>0. Rest(x) < Len(got) /\ Len(got) \in Nat /\ Rest(x) \in 1..2
      BY <1>0, <2>1
    <3>1. Rest(x) \in 1..Len(got) /\ Rest(x) <= Rest(x)
      BY ONLY <3>0, SMTT(30)
    <3>2. got[Rest(x)].is = "z"
      BY <2>3, <3>1
    <3> QED BY <2>2, <3>1, <3>2
  <2>5. Complete(t, got) <=> Len(got) = Rest(x)
    <3>1. ASSUME Len(got) = Rest(x) PROVE Complete(t, got)
      <4>0. Len(got) = Rest(x) /\ Rest(x) \in 1..2
        BY <2>1, <3>1
      <4>1. Rest(x) \in 1..Len(got) /\ Rest(x) <= Rest(x)
        BY ONLY <4>0, SMTT(30)
      <4>2. got[Rest(x)].is = "z"
        BY <2>3, <4>1
      <4> QED BY <2>2, <4>1, <4>2
    <3>2. ASSUME Complete(t, got) PROVE Len(got) = Rest(x)
      <4>1. PICK i \in 1..Len(got) : got[i].is = "z"
        BY <2>2, <3>2
      <4>2. i <= Rest(x)
        BY <1>0, <2>1, <2>4, SMTT(30)
      <4>3. i = Rest(x)
        BY <2>3, <4>1, <4>2
      <4> QED BY <1>0, <2>1, <2>4, <4>3, SMTT(30)
    <3> QED BY <3>1, <3>2
  <2>6. ASSUME Complete(t, got) PROVE x.body + Data(got) >= BodyLeft(x.framing)
    <3>0. BodyLeft(x.framing) = 1
      BY <1>4 DEF BodyLeft
    <3>1. CASE x.body = 0
      <4>1. Len(got) = 2 /\ Rest(x) = 2 /\ 1 \in 1..Len(got) /\ 1 <= Rest(x) /\ 1 # Rest(x)
        BY <2>1, <2>5, <2>6, <3>1, CountTwo
      <4>2. got[1].is = "b"
        BY <2>3, <4>1
      <4>3. Data(got) >= 1 /\ Data(got) \in Nat
        BY <4>1, <4>2, DataCount
      <4> QED BY <1>0, <3>0, <4>3, SMTT(30)
    <3>2. CASE x.body = 1
      <4>1. Data(got) \in Nat
        BY DataCount
      <4> QED BY <3>0, <3>2, <4>1, SMTT(30)
    <3> QED BY <1>0, <1>4, <3>1, <3>2
  <2>7. ASSUME ~Complete(t, got) PROVE Data(got) = Len(got)
    <3>1. \A i \in 1..Len(got) : i <= Rest(x) /\ i # Rest(x)
      BY <1>0, <2>1, <2>4, <2>5, <2>7, SMTT(30)
    <3>2. \A i \in 1..Len(got) : got[i].is = "b"
      BY <2>3, <3>1
    <3> QED BY <3>2, DataCount
  <2> QED BY <1>4, <2>1, <2>4, <2>5, <2>6, <2>7, SMTT(30)
<1> QED BY <1>0, <1>2, <1>3, <1>4

\* What one decode of got makes of the call x and of its connection k.
ReadCall(t, got, x, y) ==
  /\ y.n = x.n /\ y.framing = x.framing
  /\ Excess(t, got) => y.pc = "failed" /\ y.conn = 0
  /\ ~Excess(t, got) =>
       /\ y.body = x.body + Data(got)
       /\ y.left = IF y.framing = "length" THEN x.left - Len(got) ELSE x.left
       /\ Complete(t, got) => y.pc = "done" /\ y.conn = 0
       /\ ~Complete(t, got) => y.pc = "body" /\ y.conn = x.conn
ReadConn(t, got, k, v) ==
  /\ v.asked = k.asked /\ v.eof = k.eof /\ v.cut = k.cut
  /\ Excess(t, got) => v.dirty
  /\ ~Excess(t, got) => v.dirty = k.dirty /\ (~Complete(t, got) => v.occupied = k.occupied)

\* The fields of a call.
LEMMA CallFields ==
  ASSUME NEW x \in CallType
  PROVE  /\ x.pc \in Places /\ x.n \in Nat /\ x.idx \in Nat \ {0} /\ x.conn \in Nat /\ x.retries \in Nat
         /\ x.framing \in Framings /\ x.left \in Nat /\ x.pre \in Seq(Cells) /\ x.body \in Nat
  BY SMTT(30) DEF CallType

\* The rest of the body after such a read: nothing on a clean connection once
\* it is complete, and else what BodyOK says.
LEMMA BodyLater ==
  ASSUME CardFacts, NEW t \in Threads, call[t] \in CallType, NEW k \in ConnType, NEW who, BodyOK(call[t], k, who),
         NEW got \in Seq(Cells), Front(got, Unread(call[t], k)), ~Excess(t, got),
         NEW x \in CallType, NEW j \in ConnType, Behind(Unread(x, j), Unread(call[t], k), Len(got)),
         ReadCall(t, got, call[t], x), ReadConn(t, got, k, j)
  PROVE  /\ Complete(t, got) /\ ~k.dirty => j.wire = <<>>
         /\ ~Complete(t, got) => BodyOK(x, j, who)
<1>a. PICK r \in Seq(Cells) : r = Unread(call[t], k)
  BY UnreadCells
<1>b. PICK s \in Seq(Cells) : s = Unread(x, j)
  BY UnreadCells
<1>c. Front(got, r) /\ Behind(s, r, Len(got))
  BY <1>a, <1>b
<1> DEFINE m == Len(got)
<1>1. /\ m <= Rest(call[t]) /\ Rest(call[t]) \in Nat
      /\ Complete(t, got) <=> m = Rest(call[t])
      /\ ~Complete(t, got) => Data(got) = m
      /\ call[t].framing = "length" => call[t].left - m \in Nat
  BY BodyRead
<1>2. /\ Len(r) \in Nat /\ m \in 1..Len(r) /\ Len(s) = Len(r) - m /\ Len(s) \in Nat
      /\ j.wire \in Seq(Cells) /\ Len(j.wire) \in Nat /\ Len(s) >= Len(j.wire)
  <2>1. /\ Len(r) \in Nat /\ Len(s) \in Nat /\ j.wire \in Seq(Cells) /\ Len(j.wire) \in Nat
        /\ Len(x.pre) \in Nat /\ Len(s) = Len(x.pre) + Len(j.wire)
    BY <1>a, <1>b, UnreadCells
  <2>2. m \in 1..Len(r) /\ Len(s) = Len(r) - m
    BY <1>c DEF Front, Behind
  <2> HIDE DEF m
  <2>3. Len(s) >= Len(j.wire)
    BY <2>1, <2>2, CountRest
  <2> QED BY <2>1, <2>2, <2>3
<1>3. \A i \in 1..Len(s) : s[i] = r[m + i]
  BY <1>c DEF Behind
<1>4. /\ \A i \in 1..Len(r) : i <= Rest(call[t]) =>
           r[i].is = IF call[t].framing = "chunk" /\ i = Rest(call[t]) THEN "z" ELSE "b"
      /\ ~k.eof => Rest(call[t]) <= Len(r)
      /\ ~k.dirty => k.asked = <<>> /\ Len(r) <= Rest(call[t]) /\ Mine(r, who)
      /\ call[t].framing \in {"zero", "length", "chunk"}
      /\ call[t].framing = "zero" => call[t].left = 0
      /\ call[t].framing = "length" => call[t].body + call[t].left = 2
      /\ call[t].framing = "chunk" => call[t].left = 1 /\ call[t].body \in {0, 1}
  BY <1>a DEF BodyOK
<1> HIDE DEF m
<1>5. ASSUME Complete(t, got), ~k.dirty PROVE j.wire = <<>>
  <2>1. Len(s) = 0
    BY <1>1, <1>2, <1>4, <1>5, SMTT(30)
  <2> QED BY <1>2, <2>1, SMTT(30)
<1>6. ASSUME ~Complete(t, got), x.framing = call[t].framing, x.body = call[t].body + Data(got),
             x.left = IF x.framing = "length" THEN call[t].left - Len(got) ELSE call[t].left,
             j.eof = k.eof, j.dirty = k.dirty, j.asked = k.asked
      PROVE  BodyOK(x, j, who)
  <2>0. Data(got) = m /\ m # Rest(call[t])
    BY <1>1, <1>6
  <2>0a. x.left = IF x.framing = "length" THEN call[t].left - m ELSE call[t].left
    BY <1>6 DEF m
  <2>0b. call[t].left \in Nat /\ call[t].body \in Nat
    BY CallFields
  <2>1. Rest(x) = Rest(call[t]) - m
    <3>1. CASE x.framing = "length"
      BY <1>6, <2>0a, <3>1 DEF Rest
    <3>2. CASE x.framing = "chunk"
      <4>1. Rest(x) = 2 - x.body /\ Rest(call[t]) = 2 - call[t].body
        BY <1>6, <3>2, SMTT(30) DEF Rest
      <4> QED BY <1>2, <1>6, <2>0, <2>0b, <4>1, SMTT(30)
    <3>3. CASE x.framing = "zero"
      <4>1. Rest(call[t]) = 0
        BY <1>6, <3>3, SMTT(30) DEF Rest
      <4> QED BY <1>1, <1>2, <4>1, SMTT(30)
    <3> QED BY <1>4, <1>6, <3>1, <3>2, <3>3
  <2>2. /\ x.framing \in {"zero", "length", "chunk"}
        /\ x.framing = "zero" => x.left = 0
        /\ x.framing = "length" => x.body + x.left = 2
        /\ x.framing = "chunk" => x.left = 1 /\ x.body \in {0, 1}
    <3>1. x.framing = "chunk" => x.body \in {0, 1}
      <4> SUFFICES ASSUME x.framing = "chunk" PROVE x.body \in {0, 1}
        OBVIOUS
      <4>1. Rest(call[t]) = 2 - call[t].body
        BY <1>6, SMTT(30) DEF Rest
      <4>2. /\ m \in 1..Len(r) /\ Len(r) \in Nat /\ x.body = call[t].body + m /\ call[t].body \in {0, 1}
            /\ m <= Rest(call[t]) /\ m # Rest(call[t])
        BY <1>1, <1>2, <1>4, <1>6, <2>0
      <4> QED BY ONLY <4>1, <4>2, SMTT(30)
    <3>2. x.framing = "length" => x.body + x.left = 2
      BY <1>2, <1>4, <1>6, <2>0, <2>0a, <2>0b, SMTT(30)
    <3> QED BY <1>4, <1>6, <2>0a, <3>1, <3>2
  <2>3. \A i \in 1..Len(s) : i <= Rest(x) => s[i].is = IF x.framing = "chunk" /\ i = Rest(x) THEN "z" ELSE "b"
    <3> SUFFICES ASSUME NEW i \in 1..Len(s), i <= Rest(x)
                 PROVE  s[i].is = IF x.framing = "chunk" /\ i = Rest(x) THEN "z" ELSE "b"
      OBVIOUS
    <3>1. m + i \in 1..Len(r) /\ m + i <= Rest(call[t]) /\ (m + i = Rest(call[t]) <=> i = Rest(x))
      <4>1. /\ Len(r) \in Nat /\ m \in 1..Len(r) /\ Len(s) \in Nat /\ Len(s) = Len(r) - m
            /\ Rest(call[t]) \in Nat /\ m <= Rest(call[t]) /\ Rest(x) = Rest(call[t]) - m
            /\ i \in 1..Len(s) /\ i <= Rest(x)
        BY <1>1, <1>2, <2>1
      <4> QED BY ONLY <4>1, SMTT(30)
    <3> QED BY <1>3, <1>4, <1>6, <3>1
  <2>4. ~j.eof => Rest(x) <= Len(s)
    <3>1. ~j.eof => Rest(call[t]) <= Len(r)
      BY <1>4, <1>6
    <3>2. /\ Rest(call[t]) \in Nat /\ Len(r) \in Nat /\ m \in 1..Len(r)
          /\ Rest(x) = Rest(call[t]) - m /\ Len(s) = Len(r) - m
      BY <1>1, <1>2, <2>1
    <3> QED BY ONLY <3>1, <3>2, SMTT(30)
  <2>5. ~j.dirty => j.asked = <<>> /\ Len(s) <= Rest(x) /\ Mine(s, who)
    <3> SUFFICES ASSUME ~j.dirty PROVE j.asked = <<>> /\ Len(s) <= Rest(x) /\ Mine(s, who)
      OBVIOUS
    <3>1. j.asked = <<>> /\ Len(r) <= Rest(call[t]) /\ Mine(r, who)
      BY <1>4, <1>6
    <3>2. Len(s) <= Rest(x)
      BY <1>1, <1>2, <2>1, <3>1, SMTT(30)
    <3>3. \A i \in 1..Len(s) : m + i \in 1..Len(r)
      BY <1>2, SMTT(30)
    <3> QED BY <1>3, <3>1, <3>2, <3>3 DEF Mine
  <2> QED BY <1>b, <2>2, <2>3, <2>4, <2>5 DEF BodyOK
<1> QED BY <1>5, <1>6 DEF ReadCall, ReadConn

---------------------------------------------------------------------------
(* Steps. *)

\* A step of thread t that touches its own call and at most connection c,
\* which no other thread has a handle of, preserves the invariant of everyone
\* else.
LEMMA ThreadStep ==
  ASSUME IInv, NEW t \in Threads, NEW c \in Nat,
         plan' = plan, ~misled', misled' \in BOOLEAN,
         call' \in [Threads -> CallType], \A u \in Threads : u # t => call'[u] = call[u],
         conns' \in Seq(ConnType), Len(conns') \in Nat, Len(conns) <= Len(conns'),
         \A d \in 1..Len(conns') : d # c => d \in 1..Len(conns) /\ conns'[d] = conns[d],
         \A u \in Threads : u # t /\ call[u].conn # 0 => call[u].conn # c,
         list' \in Seq(1..Len(conns')), lock' \in Threads \cup {Nobody},
         \A u \in Threads : u # t => (lock' = u <=> lock = u),
         list' = list \/ lock = t,
         c \in 1..Len(conns') => WireInv(c)',
         UserInv(t)',
         call'[t].conn # 0 => call'[t].conn = c \/ call'[t].conn = call[t].conn
  PROVE  IInv'
<1>1. TypeOK'
  BY DEF IInv, TypeOK
<1>2. Sole'
  <2> SUFFICES ASSUME NEW u \in Threads, NEW v \in Threads, call'[u].conn # 0, call'[u].conn = call'[v].conn, u # v
               PROVE  FALSE
    BY DEF Sole
  <2>0. Sole
    BY DEF IInv
  <2>1. CASE u # t /\ v # t
    BY <2>0, <2>1 DEF Sole
  <2>2. CASE u = t
    BY <2>0, <2>2 DEF Sole
  <2>3. CASE v = t
    BY <2>0, <2>3 DEF Sole
  <2> QED BY <2>1, <2>2, <2>3
<1>3. ASSUME NEW u \in Threads PROVE UserInv(u)'
  <2>1. CASE u = t
    BY <2>1
  <2>2. CASE u # t
    <3>1. call'[u] = call[u] /\ Me(u)' = Me(u) /\ UserInv(u)
      BY <2>2 DEF IInv, Me
    <3>2. call[u].conn # 0 => call[u].conn \in 1..Len(conns') /\ conns'[call[u].conn] = conns[call[u].conn]
      <4> SUFFICES ASSUME call[u].conn # 0
                   PROVE  call[u].conn \in 1..Len(conns') /\ conns'[call[u].conn] = conns[call[u].conn]
        OBVIOUS
      <4>1. call[u].conn \in 1..Len(conns) /\ call[u].conn # c
        BY <2>2, <3>1 DEF UserInv
      <4>2. Len(conns) \in Nat
        BY SMTT(30) DEF IInv, TypeOK
      <4>3. \A n, m \in Nat : n <= m => \A i \in 1..n : i \in 1..m
        BY SMTT(30)
      <4>4. call[u].conn \in 1..Len(conns')
        BY <4>1, <4>2, <4>3
      <4> QED BY <4>1, <4>4
    <3>3. call[u].pc = "dispatch" => lock = u /\ u # t
      BY <2>2, <3>1 DEF UserInv
    <3>4. call[u].pc = "dispatch" => list' = list
      BY <3>3
    <3> QED BY <2>2, <3>1, <3>2, <3>4 DEF UserInv
  <2> QED BY <2>1, <2>2
<1>4. ASSUME NEW d \in 1..Len(conns') PROVE WireInv(d)'
  <2>1. CASE d = c
    BY <2>1
  <2>2. CASE d # c
    <3>1. d \in 1..Len(conns) /\ conns'[d] = conns[d]
      BY <2>2
    <3> QED BY <3>1 DEF IInv, WireInv
  <2> QED BY <2>1, <2>2
<1> QED BY <1>1, <1>2, <1>3, <1>4 DEF IInv

\* A step of the server on connection c: the flag of its user stays, and its
\* user finds what it may find.
LEMMA ServerStep ==
  ASSUME IInv, NEW c \in 1..Len(conns), UNCHANGED <<plan, call, list, lock, misled>>,
         conns' \in Seq(ConnType), Len(conns') = Len(conns),
         \A d \in 1..Len(conns) : d # c => conns'[d] = conns[d],
         conns'[c].occupied = conns[c].occupied,
         WireInv(c)',
         \A t \in Threads : call[t].conn = c => UserOK(call[t], conns'[c], Me(t))
  PROVE  IInv'
<1>1. TypeOK'
  BY DEF IInv, TypeOK
<1>2. Sole'
  BY DEF IInv, Sole
<1>3. ASSUME NEW t \in Threads PROVE UserInv(t)'
  <2>1. UserInv(t) /\ Me(t)' = Me(t)
    BY DEF IInv, Me
  <2>2. CASE call[t].conn = c
    BY <2>1, <2>2 DEF UserInv
  <2>3. CASE call[t].conn # c
    BY <2>1, <2>3 DEF UserInv
  <2> QED BY <2>2, <2>3
<1>4. ASSUME NEW d \in 1..Len(conns') PROVE WireInv(d)'
  <2>1. CASE d # c
    BY <2>1 DEF IInv, WireInv
  <2> QED BY <2>1
<1> QED BY <1>1, <1>2, <1>3, <1>4 DEF IInv

\* What the invariant says of one thread.
LEMMA OfThread ==
  ASSUME IInv, NEW t \in Threads
  PROVE  /\ UserInv(t) /\ call[t] \in CallType /\ call \in [Threads -> CallType]
         /\ conns \in Seq(ConnType) /\ Len(conns) \in Nat /\ list \in Seq(1..Len(conns)) /\ Len(list) \in Nat
         /\ misled = FALSE /\ lock \in Threads \cup {Nobody}
         /\ plan[t] \in Seq(Framings) /\ Len(plan[t]) \in Nat
<1>1. /\ UserInv(t) /\ call[t] \in CallType /\ call \in [Threads -> CallType] /\ conns \in Seq(ConnType)
      /\ list \in Seq(1..Len(conns)) /\ misled = FALSE /\ lock \in Threads \cup {Nobody} /\ plan[t] \in Seq(Framings)
  BY DEF IInv, TypeOK
<1>2. Len(conns) \in Nat /\ Len(list) \in Nat /\ Len(plan[t]) \in Nat
  BY <1>1, SMTT(30)
<1> QED BY <1>1, <1>2

\* A step of thread t that touches no connection.
LEMMA CallStep ==
  ASSUME IInv, NEW t \in Threads, UNCHANGED <<plan, conns, misled>>,
         call' \in [Threads -> CallType], \A u \in Threads : u # t => call'[u] = call[u],
         list' \in Seq(1..Len(conns)), lock' \in Threads \cup {Nobody},
         \A u \in Threads : u # t => (lock' = u <=> lock = u),
         list' = list \/ lock = t,
         UserInv(t)', call'[t].conn \in {0, call[t].conn}
  PROVE  IInv'
<1>1. /\ conns \in Seq(ConnType) /\ Len(conns) \in Nat /\ misled = FALSE
  BY OfThread
<1>2. 0 \in Nat /\ ~(0 \in 1..Len(conns)) /\ Len(conns) <= Len(conns)
  BY <1>1, SMTT(30)
<1> QED BY <1>1, <1>2, ThreadStep

\* A call begins.
LEMMA StepRequest ==
  ASSUME Sensible, IInv, NEW t \in Threads, request(t)
  PROVE  IInv'
<1>1. /\ UserInv(t) /\ call[t] \in CallType /\ call \in [Threads -> CallType] /\ plan[t] \in Seq(Framings)
      /\ list \in Seq(1..Len(conns)) /\ lock \in Threads \cup {Nobody} /\ Len(plan[t]) \in Nat
  BY OfThread
<1>2. /\ call[t].pc = "idle" /\ call[t].n < Len(plan[t])
      /\ call' = [call EXCEPT ![t] = [Idle EXCEPT !.pc = "lock", !.n = call[t].n + 1, !.retries = Retries]]
      /\ UNCHANGED <<plan, conns, list, lock, misled>>
  BY DEF request
<1>3. [Idle EXCEPT !.pc = "lock", !.n = call[t].n + 1, !.retries = Retries] \in CallType
  <2>1. /\ "lock" \in Places /\ 1 \in Nat \ {0} /\ 0 \in Nat /\ "none" \in Framings /\ <<>> \in Seq(Cells)
        /\ Retries \in Nat
    BY SMTT(30) DEF Places, Framings, Sensible
  <2>2. call[t].n \in Nat
    BY <1>1 DEF CallType
  <2>3. call[t].n + 1 \in Nat
    BY <2>2, SMTT(30)
  <2> QED BY <2>1, <2>3 DEF Idle, CallType
<1>4. call' \in [Threads -> CallType] /\ \A u \in Threads : u # t => call'[u] = call[u]
  BY <1>1, <1>2, <1>3
<1>5. /\ call'[t].pc = "lock" /\ call'[t].conn = 0 /\ call'[t].body = 0 /\ call'[t].framing = "none"
      /\ call'[t].n = call[t].n + 1
  BY <1>1, <1>2, SMTT(30) DEF Idle
<1>6. call[t].n \in Nat /\ call'[t].n <= Len(plan[t]) /\ call'[t].n # 0
  <2>1. call[t].n \in Nat /\ call[t].n < Len(plan[t]) /\ call'[t].n = call[t].n + 1 /\ Len(plan[t]) \in Nat
    BY <1>1, <1>2, <1>5, CallFields, OfThread
  <2> QED BY ONLY <2>1, SMTT(30)
<1>7. UserInv(t)'
  BY <1>1, <1>2, <1>5, <1>6 DEF UserInv
<1> QED BY <1>1, <1>2, <1>4, <1>5, <1>7, CallStep

\* A thread takes the mutex of the list.
LEMMA StepLock ==
  ASSUME Sensible, IInv, NEW t \in Threads, Lock(t)
  PROVE  IInv'
<1>1. /\ UserInv(t) /\ call[t] \in CallType /\ call \in [Threads -> CallType]
      /\ list \in Seq(1..Len(conns))
  BY OfThread
<1>2. /\ call[t].pc = "lock" /\ lock = Nobody /\ lock' = t
      /\ call' = [call EXCEPT ![t].pc = "scan", ![t].idx = 1]
      /\ UNCHANGED <<plan, conns, list, misled>>
  BY DEF Lock
<1>3. /\ call' \in [Threads -> CallType]
      /\ \A u \in Threads : u # t => call'[u] = call[u]
  <2>1. "scan" \in Places /\ 1 \in Nat \ {0}
    BY SMTT(30) DEF Places
  <2> QED BY <1>1, <1>2, <2>1 DEF CallType
<1>4. /\ call'[t].pc = "scan" /\ call'[t].conn = call[t].conn /\ call'[t].body = call[t].body
      /\ call'[t].framing = call[t].framing /\ call'[t].n = call[t].n
  BY <1>1, <1>2 DEF CallType
<1>5. call[t].conn = 0 /\ call'[t].conn = 0
  BY <1>1, <1>2, <1>4 DEF UserInv
<1>6. UserInv(t)'
  BY <1>1, <1>2, <1>4, <1>5 DEF UserInv
<1>7. \A u \in Threads : u # t => (lock' = u <=> lock = u)
  BY <1>2 DEF Sensible
<1> QED BY <1>1, <1>2, <1>3, <1>5, <1>6, <1>7, CallStep

\* The result of a call is taken.
LEMMA StepReturn ==
  ASSUME Sensible, IInv, NEW t \in Threads, return(t)
  PROVE  IInv'
<1>1. /\ UserInv(t) /\ call[t] \in CallType /\ call \in [Threads -> CallType]
      /\ list \in Seq(1..Len(conns)) /\ lock \in Threads \cup {Nobody}
  BY OfThread
<1>2. /\ call[t].pc \in {"done", "failed"}
      /\ call' = [call EXCEPT ![t] = [Idle EXCEPT !.n = call[t].n]]
      /\ UNCHANGED <<plan, conns, list, lock, misled>>
  BY DEF return
<1>3. [Idle EXCEPT !.n = call[t].n] \in CallType
  <2>1. "idle" \in Places /\ 1 \in Nat \ {0} /\ 0 \in Nat /\ "none" \in Framings /\ <<>> \in Seq(Cells)
    BY SMTT(30) DEF Places, Framings
  <2> QED BY <1>1, <2>1 DEF Idle, CallType
<1>4. call' \in [Threads -> CallType] /\ \A u \in Threads : u # t => call'[u] = call[u]
  BY <1>1, <1>2, <1>3
<1>5. /\ call'[t].pc = "idle" /\ call'[t].conn = 0 /\ call'[t].body = 0 /\ call'[t].framing = "none"
      /\ call'[t].n = call[t].n
  BY <1>1, <1>2, SMTT(30) DEF Idle
<1>6. UserInv(t)'
  BY <1>1, <1>2, <1>5 DEF UserInv
<1> QED BY <1>1, <1>2, <1>4, <1>5, <1>6, CallStep

\* One element of a sequence is taken out.
LEMMA Cut ==
  ASSUME NEW S, NEW s \in Seq(S), NEW i \in 1..Len(s)
  PROVE  SubSeq(s, 1, i - 1) \o SubSeq(s, i + 1, Len(s)) \in Seq(S)
<1>1. i - 1 \in 0..Len(s) /\ i \in 0..Len(s)
  BY SMTT(30)
<1>2. SubSeq(s, 1, i - 1) \in Seq(S) /\ SubSeq(s, i + 1, Len(s)) \in Seq(S)
  BY <1>1, Prefix, Suffix
<1> QED BY <1>2, Concat

\* An element is added to a sequence.
LEMMA Add ==
  ASSUME NEW S, NEW s \in Seq(S), NEW v \in S, NEW r, r = Append(s, v)
  PROVE  /\ r \in Seq(S) /\ Len(r) = Len(s) + 1 /\ Len(s) \in Nat /\ r[Len(s) + 1] = v
         /\ \A j \in 1..Len(s) : r[j] = s[j]
  BY SMTT(30)

\* An attempt that is given up: the call has no connection, and is made again
\* or fails.
LEMMA RetriedCall ==
  ASSUME NEW t \in Threads, call \in [Threads -> CallType]
  PROVE  LET f == Retried(t)
         IN  /\ f \in [Threads -> CallType] /\ \A u \in Threads : u # t => f[u] = call[u]
             /\ f[t].pc \in {"lock", "failed"} /\ f[t].conn = 0
             /\ f[t].n = call[t].n /\ f[t].body = call[t].body /\ f[t].framing = call[t].framing
<1>1. call[t] \in CallType /\ call[t].retries \in Nat
  BY CallFields
<1>2. (IF call[t].retries = 0 THEN 0 ELSE call[t].retries - 1) \in Nat /\ 0 \in Nat /\ "lock" \in Places /\ "failed" \in Places
  BY <1>1, SMTT(30) DEF Places
<1> DEFINE r == IF call[t].retries = 0 THEN 0 ELSE call[t].retries - 1
           q == IF call[t].retries = 0 THEN "failed" ELSE "lock"
<1>3. Retried(t) = [call EXCEPT ![t].pc = q, ![t].conn = 0, ![t].retries = r]
  BY DEF Retried
<1>4. r \in Nat /\ q \in Places /\ q \in {"lock", "failed"}
  BY <1>2
<1> HIDE DEF r, q
<1>5. /\ Retried(t) \in [Threads -> CallType] /\ \A u \in Threads : u # t => Retried(t)[u] = call[u]
  <2>1. Retried(t) = [call EXCEPT ![t] = [call[t] EXCEPT !.pc = q, !.conn = 0, !.retries = r]]
    BY <1>3
  <2>2. [call[t] EXCEPT !.pc = q, !.conn = 0, !.retries = r] \in CallType
    BY <1>1, <1>2, <1>4 DEF CallType
  <2> QED BY <2>1, <2>2
<1>6. /\ Retried(t)[t].pc \in {"lock", "failed"} /\ Retried(t)[t].conn = 0
      /\ Retried(t)[t].n = call[t].n /\ Retried(t)[t].body = call[t].body /\ Retried(t)[t].framing = call[t].framing
  <2> DEFINE y == [call[t] EXCEPT !.pc = q, !.conn = 0, !.retries = r]
  <2>1. Retried(t) = [call EXCEPT ![t] = y]
    BY <1>3
  <2>2. y.pc = q /\ y.conn = 0 /\ y.n = call[t].n /\ y.body = call[t].body /\ y.framing = call[t].framing
    BY <1>1 DEF CallType
  <2> HIDE DEF y
  <2>3. Retried(t)[t] = y
    BY <2>1
  <2> QED BY <1>4, <2>2, <2>3
<1> QED BY <1>5, <1>6

\* An entry of the list is taken out, passed over, or looked at.
LEMMA StepIsShutdown ==
  ASSUME Sensible, IInv, NEW t \in Threads, is_shutdown(t)
  PROVE  IInv'
<1>1. /\ UserInv(t) /\ call[t] \in CallType /\ call \in [Threads -> CallType] /\ Len(list) \in Nat
      /\ list \in Seq(1..Len(conns)) /\ lock \in Threads \cup {Nobody}
  BY OfThread
<1>2. call[t].pc = "scan" /\ call[t].idx <= Len(list) /\ UNCHANGED <<plan, conns, lock, misled>>
  BY DEF is_shutdown
<1>3. lock = t /\ call[t].idx \in 1..Len(list)
  <2>1. call[t].idx \in Nat \ {0}
    BY <1>1, CallFields
  <2> QED BY <1>1, <1>2, <2>1, SMTT(30) DEF UserInv
<1>4. CASE conns[list[call[t].idx]].shutdown
  <2>1. call' = call /\ list' = SubSeq(list, 1, call[t].idx - 1) \o SubSeq(list, call[t].idx + 1, Len(list))
    BY <1>4 DEF is_shutdown
  <2>2. list' \in Seq(1..Len(conns))
    BY <1>1, <1>3, <2>1, Cut
  <2>3. UserInv(t)'
    BY <1>1, <1>2, <1>3, <2>1 DEF UserInv, Me
  <2> QED BY <1>1, <1>2, <1>3, <2>1, <2>2, <2>3, CallStep
<1>5. CASE ~conns[list[call[t].idx]].shutdown /\ call[t].conn = 0
  <2>1. call' = [call EXCEPT ![t].pc = "dispatch"] /\ list' = list
    BY <1>5 DEF is_shutdown
  <2>2. "dispatch" \in Places
    BY DEF Places
  <2>3. /\ call' \in [Threads -> CallType] /\ \A u \in Threads : u # t => call'[u] = call[u]
        /\ call'[t].pc = "dispatch" /\ call'[t].conn = call[t].conn /\ call'[t].idx = call[t].idx
        /\ call'[t].n = call[t].n /\ call'[t].body = call[t].body /\ call'[t].framing = call[t].framing
    BY <1>1, <2>1, <2>2 DEF CallType
  <2>4. UserInv(t)'
    BY <1>1, <1>2, <1>3, <1>5, <2>1, <2>3 DEF UserInv
  <2> QED BY <1>1, <1>2, <1>3, <2>1, <2>3, <2>4, CallStep
<1>6. CASE ~conns[list[call[t].idx]].shutdown /\ call[t].conn # 0
  <2>1. call' = [call EXCEPT ![t].idx = call[t].idx + 1] /\ list' = list
    BY <1>6 DEF is_shutdown
  <2>2. call[t].idx + 1 \in Nat \ {0}
    BY <1>3, SMTT(30)
  <2>3. /\ call' \in [Threads -> CallType] /\ \A u \in Threads : u # t => call'[u] = call[u]
        /\ call'[t].pc = call[t].pc /\ call'[t].conn = call[t].conn
        /\ call'[t].n = call[t].n /\ call'[t].body = call[t].body /\ call'[t].framing = call[t].framing
    BY <1>1, <2>1, <2>2 DEF CallType
  <2>4. UserInv(t)'
    BY <1>1, <1>2, <1>3, <1>6, <2>1, <2>3 DEF UserInv, UserOK
  <2> QED BY <1>1, <1>2, <1>3, <2>1, <2>3, <2>4, CallStep
<1> QED BY <1>4, <1>5, <1>6

\* One connection changes.
LEMMA Touch ==
  ASSUME conns \in Seq(ConnType), NEW c \in 1..Len(conns), NEW v \in ConnType, conns' = [conns EXCEPT ![c] = v]
  PROVE  /\ conns' \in Seq(ConnType) /\ Len(conns') = Len(conns) /\ conns'[c] = v
         /\ \A d \in 1..Len(conns) : d # c => conns'[d] = conns[d]
  BY SMTT(30)

\* A step of thread t that touches a connection no other thread uses.
LEMMA ConnStep ==
  ASSUME IInv, NEW t \in Threads, NEW c \in 1..Len(conns), NEW v \in ConnType, conns' = [conns EXCEPT ![c] = v],
         UNCHANGED <<plan, list, lock>>, misled' = FALSE,
         call' \in [Threads -> CallType], \A u \in Threads : u # t => call'[u] = call[u],
         \A u \in Threads : u # t => call[u].conn # c,
         ConnOK(v), v.asked = <<>> \/ v.asked = conns[c].asked \/ v.asked = Append(conns[c].asked, Me(t)),
         call[t].n # 0, call'[t].conn \in {0, c}, UserInv(t)'
  PROVE  IInv'
<1>1. /\ conns \in Seq(ConnType) /\ Len(conns) \in Nat /\ list \in Seq(1..Len(conns)) /\ lock \in Threads \cup {Nobody}
      /\ call[t] \in CallType /\ UserInv(t) /\ Len(plan[t]) \in Nat
  BY OfThread
<1>2. /\ conns' \in Seq(ConnType) /\ Len(conns') = Len(conns) /\ conns'[c] = v
      /\ \A d \in 1..Len(conns) : d # c => conns'[d] = conns[d]
  BY <1>1, Touch
<1>3. c \in Nat /\ Len(conns) <= Len(conns)
  BY <1>1, SMTT(30)
<1>4. conns[c].asked \in Seq(Calls)
  <2>1. conns[c] \in ConnType
    BY <1>1, SMTT(30)
  <2> QED BY <2>1 DEF ConnType
<1>5. \A i \in 1..Len(conns[c].asked) : conns[c].asked[i][2] \in 1..Len(plan[conns[c].asked[i][1]])
  BY DEF IInv, WireInv
<1>6. \A i \in 1..Len(v.asked) : v.asked[i][2] \in 1..Len(plan[v.asked[i][1]])
  <2>1. CASE v.asked = <<>>
    <3>1. Len(<<>>) = 0 /\ \A i \in 1..0 : FALSE
      BY SMTT(30)
    <3> QED BY <2>1, <3>1
  <2>2. CASE v.asked = conns[c].asked
    BY <1>5, <2>2
  <2>3. CASE v.asked = Append(conns[c].asked, Me(t))
    <3>1. call[t].n \in 1..Len(plan[t]) /\ call[t].n \in Nat
      <4>1. call[t].n \in Nat /\ call[t].n <= Len(plan[t])
        BY <1>1, CallFields DEF UserInv
      <4> QED BY <1>1, <4>1, SMTT(30)
    <3>2. Me(t) \in Calls /\ Me(t)[1] = t /\ Me(t)[2] = call[t].n
      BY <3>1 DEF Me, Calls
    <3> DEFINE a == conns[c].asked
    <3>3. /\ Len(v.asked) = Len(a) + 1 /\ Len(a) \in Nat /\ v.asked[Len(a) + 1] = Me(t)
          /\ \A i \in 1..Len(a) : v.asked[i] = a[i]
      BY ONLY <1>4, <2>3, <3>2, Add, SMTT(30)
    <3> HIDE DEF a
    <3>4. \A i \in 1..Len(v.asked) : i \in 1..Len(a) \/ i = Len(a) + 1
      BY <3>3, SMTT(30)
    <3>5. ASSUME NEW i \in 1..Len(v.asked) PROVE v.asked[i][2] \in 1..Len(plan[v.asked[i][1]])
      <4>1. CASE i = Len(a) + 1
        BY <3>1, <3>2, <3>3, <4>1
      <4>2. CASE i \in 1..Len(a)
        <5>1. v.asked[i] = a[i]
          BY <3>3, <4>2
        <5>2. a[i][2] \in 1..Len(plan[a[i][1]])
          BY <1>5, <4>2 DEF a
        <5> QED BY <5>1, <5>2
      <4> QED BY <3>4, <4>1, <4>2
    <3> QED BY <3>5
  <2> QED BY <2>1, <2>2, <2>3
<1>7. WireInv(c)'
  BY <1>2, <1>6 DEF WireInv
<1> QED BY <1>1, <1>2, <1>3, <1>7, ThreadStep

\* An entry is busy, or is taken: its flag was clear, so that no thread has
\* its handle, and a clean connection has nothing on it.
LEMMA StepDispatch ==
  ASSUME Sensible, IInv, NEW t \in Threads, dispatch(t)
  PROVE  IInv'
<1>1. /\ UserInv(t) /\ call[t] \in CallType /\ call \in [Threads -> CallType] /\ Len(list) \in Nat
      /\ list \in Seq(1..Len(conns)) /\ lock \in Threads \cup {Nobody} /\ conns \in Seq(ConnType) /\ misled = FALSE
  BY OfThread
<1>2. call[t].pc = "dispatch" /\ UNCHANGED <<plan, list, lock, misled>>
  BY DEF dispatch
<1>3. call[t].idx \in 1..Len(list) /\ call[t].idx + 1 \in Nat \ {0}
  <2>1. call[t].idx \in Nat \ {0} /\ call[t].idx <= Len(list)
    BY <1>1, <1>2, CallFields DEF UserInv
  <2> QED BY <1>1, <2>1, SMTT(30)
<1> DEFINE c == list[call[t].idx]
<1>4. c \in 1..Len(conns) /\ call[t].conn = 0 /\ lock = t
  <2>1. \A i \in 1..Len(list) : list[i] \in 1..Len(conns)
    BY <1>1, SMTT(30)
  <2> QED BY <1>1, <1>2, <1>3, <2>1 DEF UserInv
<1>5. "scan" \in Places /\ c \in Nat /\ c # 0
  BY <1>4, SMTT(30) DEF Places
<1>6. CASE conns[c].occupied
  <2>1. call' = [call EXCEPT ![t].pc = "scan", ![t].idx = call[t].idx + 1] /\ conns' = conns
    BY <1>6 DEF dispatch
  <2>2. call' = [call EXCEPT ![t] = [call[t] EXCEPT !.pc = "scan", !.idx = call[t].idx + 1]]
    BY <2>1
  <2>3. [call[t] EXCEPT !.pc = "scan", !.idx = call[t].idx + 1] \in CallType
    BY <1>1, <1>3, <1>5 DEF CallType
  <2>4. /\ call'[t].pc = "scan" /\ call'[t].conn = call[t].conn
        /\ call'[t].n = call[t].n /\ call'[t].body = call[t].body /\ call'[t].framing = call[t].framing
    BY <1>1, <2>2 DEF CallType
  <2>5. call' \in [Threads -> CallType] /\ \A u \in Threads : u # t => call'[u] = call[u]
    BY <1>1, <2>2, <2>3
  <2>6. UserInv(t)'
    BY <1>1, <1>2, <1>4, <2>1, <2>4 DEF UserInv
  <2> QED BY <1>1, <1>2, <2>1, <2>4, <2>5, <2>6, CallStep
<1>7. CASE ~conns[c].occupied
  <2> DEFINE v == [conns[c] EXCEPT !.occupied = TRUE]
  <2>1. call' = [call EXCEPT ![t].pc = "scan", ![t].idx = call[t].idx + 1, ![t].conn = c]
        /\ conns' = [conns EXCEPT ![c].occupied = TRUE]
    BY <1>7 DEF dispatch, Dispatched
  <2>2. call' = [call EXCEPT ![t] = [call[t] EXCEPT !.pc = "scan", !.idx = call[t].idx + 1, !.conn = c]]
    BY <2>1
  <2>3. [call[t] EXCEPT !.pc = "scan", !.idx = call[t].idx + 1, !.conn = c] \in CallType
    BY <1>1, <1>3, <1>5 DEF CallType
  <2>4. /\ call'[t].pc = "scan" /\ call'[t].conn = c
        /\ call'[t].n = call[t].n /\ call'[t].body = call[t].body /\ call'[t].framing = call[t].framing
    BY <1>1, <2>2 DEF CallType
  <2>5. call' \in [Threads -> CallType] /\ \A u \in Threads : u # t => call'[u] = call[u]
    BY <1>1, <2>2, <2>3
  <2>6. conns' = [conns EXCEPT ![c] = v] /\ conns[c] \in ConnType
    <3>1. \A i \in 1..Len(conns) : conns[i] \in ConnType
      BY <1>1, SMTT(30)
    <3> QED BY <1>4, <2>1, <3>1
  <2>7. /\ v \in ConnType /\ v.occupied /\ v.wire = conns[c].wire /\ v.asked = conns[c].asked /\ v.eof = conns[c].eof
        /\ v.cut = conns[c].cut /\ v.dirty = conns[c].dirty
    BY <2>6 DEF ConnType
  <2> HIDE DEF v, c
  <2>8. Len(conns') = Len(conns) /\ conns'[c] = v
    BY <1>1, <1>4, <2>6, <2>7, Touch
  <2>9. ConnOK(conns[c]) /\ ConnOK(v)
    BY <1>4, <2>7 DEF IInv, WireInv, ConnOK
  <2>10. \A u \in Threads : u # t => call[u].conn # c
    BY <1>5, <1>7 DEF IInv, UserInv
  <2>11. UserOK(call'[t], v, Me(t)')
    BY <1>7, <2>4, <2>7, <2>9 DEF UserOK, ConnOK
  <2>12. UserInv(t)'
    BY <1>1, <1>2, <1>4, <1>5, <2>4, <2>7, <2>8, <2>11 DEF UserInv
  <2>13. call[t].n # 0
    BY <1>1, <1>2 DEF UserInv
  <2> QED BY <1>1, <1>2, <1>4, <2>4, <2>5, <2>6, <2>7, <2>9, <2>10, <2>12, <2>13, ConnStep
<1> QED BY <1>6, <1>7

\* The end of the scan with a connection.
LEMMA StepFound ==
  ASSUME Sensible, IInv, NEW t \in Threads, Found(t)
  PROVE  IInv'
<1>1. /\ UserInv(t) /\ call[t] \in CallType /\ call \in [Threads -> CallType] /\ list \in Seq(1..Len(conns))
  BY OfThread
<1>2. /\ call[t].pc = "scan" /\ call[t].conn # 0 /\ lock' = Nobody /\ UNCHANGED <<plan, conns, list, misled>>
      /\ call' = [call EXCEPT ![t].pc = "write"]
  BY DEF Found
<1>3. "write" \in Places
  BY DEF Places
<1>4. /\ call' \in [Threads -> CallType] /\ \A u \in Threads : u # t => call'[u] = call[u]
      /\ call'[t].pc = "write" /\ call'[t].conn = call[t].conn
      /\ call'[t].n = call[t].n /\ call'[t].body = call[t].body /\ call'[t].framing = call[t].framing
  BY <1>1, <1>2, <1>3 DEF CallType
<1>5. lock = t /\ Nobody # t /\ \A u \in Threads : u # t => (lock' = u <=> lock = u)
  BY <1>1, <1>2 DEF UserInv, Sensible
<1>6. UserInv(t)'
  BY <1>1, <1>2, <1>4, <1>5 DEF UserInv, UserOK
<1> QED BY <1>1, <1>2, <1>4, <1>5, <1>6, CallStep

\* Connect fails: the mutex is released and the attempt is over.
LEMMA StepConnectErr ==
  ASSUME Sensible, IInv, NEW t \in Threads, connect_err(t)
  PROVE  IInv'
<1>1. /\ UserInv(t) /\ call[t] \in CallType /\ call \in [Threads -> CallType] /\ list \in Seq(1..Len(conns))
  BY OfThread
<1>2. /\ call[t].pc = "scan" /\ lock' = Nobody /\ UNCHANGED <<plan, conns, list, misled>> /\ call' = Retried(t)
  BY DEF connect_err
<1>3. /\ call' \in [Threads -> CallType] /\ \A u \in Threads : u # t => call'[u] = call[u]
      /\ call'[t].pc \in {"lock", "failed"} /\ call'[t].conn = 0
      /\ call'[t].n = call[t].n /\ call'[t].body = call[t].body /\ call'[t].framing = call[t].framing
  BY <1>1, <1>2, RetriedCall
<1>4. lock = t /\ Nobody # t /\ \A u \in Threads : u # t => (lock' = u <=> lock = u)
  BY <1>1, <1>2 DEF UserInv, Sensible
<1>5. UserInv(t)'
  BY <1>1, <1>2, <1>3, <1>4 DEF UserInv
<1> QED BY <1>1, <1>2, <1>3, <1>4, <1>5, CallStep

\* A new connection: nothing on it, and its opener has the handle.
LEMMA StepConnect ==
  ASSUME Sensible, IInv, NEW t \in Threads, connect(t)
  PROVE  IInv'
<1>1. /\ UserInv(t) /\ call[t] \in CallType /\ call \in [Threads -> CallType] /\ list \in Seq(1..Len(conns))
      /\ conns \in Seq(ConnType) /\ Len(conns) \in Nat /\ misled = FALSE
  BY OfThread
<1> DEFINE k == [occupied |-> TRUE, shutdown |-> FALSE, asked |-> <<>>, wire |-> <<>>, eof |-> FALSE,
                 cut |-> FALSE, dirty |-> FALSE]
<1>0. PICK c \in Nat : c = Len(conns) + 1
  <2>1. Len(conns) + 1 \in Nat
    BY <1>1, SMTT(30)
  <2> QED BY <2>1
<1>2. /\ call[t].pc = "scan" /\ call[t].conn = 0 /\ lock' = Nobody /\ UNCHANGED <<plan, misled>>
      /\ call' = [call EXCEPT ![t].pc = "write", ![t].conn = c]
      /\ conns' = Append(conns, k) /\ list' = Append(list, c)
  BY <1>0 DEF connect
<1>3. k \in ConnType /\ k.occupied /\ k.asked = <<>> /\ k.wire = <<>>
  <2>1. <<>> \in Seq(Calls) /\ <<>> \in Seq(Cells) /\ TRUE \in BOOLEAN /\ FALSE \in BOOLEAN
    BY SMTT(30)
  <2> QED BY <2>1 DEF ConnType
<1>4. ConnOK(k) /\ Len(k.asked) = 0
  <2>1. Len(<<>>) = 0 /\ \A i \in 1..0 : FALSE
    BY SMTT(30)
  <2>2. k.wire = <<>> /\ ~k.cut /\ k.occupied /\ Len(k.asked) = 0
    BY <1>3, <2>1
  <2> QED BY <2>1, <2>2 DEF ConnOK, Aligned
<1>5. "write" \in Places /\ c \in Nat /\ c # 0 /\ c \in 1..c
  BY <1>0, <1>1, SMTT(30) DEF Places
<1> HIDE DEF k
<1>6. /\ conns' \in Seq(ConnType) /\ Len(conns') = c /\ conns'[c] = k
      /\ \A d \in 1..Len(conns) : conns'[d] = conns[d]
  BY ONLY <1>0, <1>1, <1>2, <1>3, Add, SMTT(30)
<1>7. list' \in Seq(1..c)
  <2>1. \A i \in 1..Len(list) : list[i] \in 1..c
    BY <1>0, <1>1, SMTT(30)
  <2>2. list \in Seq(1..c)
    BY ONLY <1>1, <2>1, SMTT(30)
  <2> QED BY ONLY <1>2, <1>5, <2>2, SMTT(30)
<1>8. \A d \in 1..c : d # c => d \in 1..Len(conns)
  BY <1>0, <1>1, SMTT(30)
<1>9. Len(conns) <= c
  BY <1>0, <1>1, SMTT(30)
<1>10. \A u \in Threads : u # t /\ call[u].conn # 0 => call[u].conn # c
  <2>1. \A i \in 1..Len(conns) : i # c
    BY <1>0, <1>1, SMTT(30)
  <2> QED BY <2>1 DEF IInv, UserInv
<1>11. call' = [call EXCEPT ![t] = [call[t] EXCEPT !.pc = "write", !.conn = c]]
  BY <1>2
<1>12. [call[t] EXCEPT !.pc = "write", !.conn = c] \in CallType
  BY <1>1, <1>5 DEF CallType
<1>13. call' \in [Threads -> CallType] /\ \A u \in Threads : u # t => call'[u] = call[u]
  BY <1>1, <1>11, <1>12
<1>14. /\ call'[t].pc = "write" /\ call'[t].conn = c
       /\ call'[t].n = call[t].n /\ call'[t].body = call[t].body /\ call'[t].framing = call[t].framing
  BY <1>1, <1>11 DEF CallType
<1>15. lock = t /\ Nobody # t /\ \A u \in Threads : u # t => (lock' = u <=> lock = u)
  BY <1>1, <1>2 DEF UserInv, Sensible
<1>16. UserInv(t)'
  <2>1. UserOK(call'[t], conns'[c], Me(t)')
    BY <1>3, <1>6, <1>14 DEF UserOK
  <2>2. /\ call[t].n <= Len(plan[t]) /\ call[t].n # 0 /\ call[t].body = 0 /\ call[t].framing = "none"
    BY <1>1, <1>2 DEF UserInv
  <2>3. lock' # t /\ plan' = plan /\ c \in 1..Len(conns') /\ conns'[c].occupied /\ c # 0
    BY <1>2, <1>3, <1>5, <1>6, <1>15
  <2> QED BY <1>14, <2>1, <2>2, <2>3 DEF UserInv
<1>17. WireInv(c)'
  <2>1. \A i \in 1..0 : FALSE
    BY SMTT(30)
  <2> QED BY <1>4, <1>6, <2>1 DEF WireInv
<1>18. \A d \in 1..Len(conns') : d # c => d \in 1..Len(conns) /\ conns'[d] = conns[d]
  BY <1>6, <1>8
<1>19. /\ plan' = plan /\ ~misled' /\ misled' \in BOOLEAN /\ Len(conns') \in Nat /\ Len(conns) <= Len(conns')
       /\ list' \in Seq(1..Len(conns')) /\ lock' \in Threads \cup {Nobody}
  BY <1>1, <1>2, <1>5, <1>6, <1>7, <1>9
<1> QED BY <1>6, <1>10, <1>13, <1>14, <1>15, <1>16, <1>17, <1>18, <1>19, ThreadStep

\* What the invariant says of a connection and the thread that has its handle.
LEMMA OfUser ==
  ASSUME IInv, NEW t \in Threads, call[t].conn # 0, NEW c, c = call[t].conn
  PROVE  /\ c \in 1..Len(conns) /\ conns[c] \in ConnType /\ conns[c].occupied
         /\ ConnOK(conns[c]) /\ UserOK(call[t], conns[c], Me(t))
         /\ \A u \in Threads : u # t => call[u].conn # c
         /\ c # 0 /\ c \in Nat
<1>1. UserInv(t) /\ conns \in Seq(ConnType) /\ Len(conns) \in Nat
  BY OfThread
<1>2. c \in 1..Len(conns) /\ conns[c].occupied /\ UserOK(call[t], conns[c], Me(t))
  BY <1>1 DEF UserInv
<1>3. \A i \in 1..Len(conns) : conns[i] \in ConnType /\ i \in Nat
  BY <1>1, SMTT(30)
<1>4. ConnOK(conns[c])
  BY <1>2 DEF IInv, WireInv
<1>5. \A u \in Threads : u # t => call[u].conn # c
  BY DEF IInv, Sole
<1> QED BY <1>2, <1>3, <1>4, <1>5

\* The thread gives its connection back, in the state v.
LEMMA LetGo ==
  ASSUME Sensible, IInv, NEW t \in Threads, call[t].pc \in {"write", "head", "body"}, NEW c, c = call[t].conn,
         NEW v \in ConnType, conns' = [conns EXCEPT ![c] = v], ConnOK(v), v.asked = conns[c].asked,
         UNCHANGED <<plan, list, lock>>, misled' = FALSE,
         call' \in [Threads -> CallType], \A u \in Threads : u # t => call'[u] = call[u],
         call'[t].pc \in {"lock", "failed", "done"}, call'[t].conn = 0, call'[t].n = call[t].n,
         call'[t].pc = "lock" => call'[t].body = 0 /\ call'[t].framing = "none",
         call'[t].pc = "done" => call'[t].body >= BodyLeft(call'[t].framing)
  PROVE  IInv'
<1>1. UserInv(t) /\ call[t].conn # 0
  BY OfThread DEF UserInv
<1>2. c \in 1..Len(conns) /\ \A u \in Threads : u # t => call[u].conn # c
  BY <1>1, OfUser
<1>3. lock # t
  BY <1>1 DEF UserInv
<1>4. UserInv(t)'
  BY <1>1, <1>3 DEF UserInv
<1>5. call[t].n # 0
  BY <1>1 DEF UserInv
<1> QED BY <1>2, <1>4, <1>5, ConnStep

\* The end of the connection excuses what is missing.
LEMMA AlignedEnd ==
  ASSUME NEW w, NEW eof, Aligned(w, eof)
  PROVE  Aligned(w, TRUE)
  BY DEF Aligned

\* The request body fails: the connection is left dirty and cut.
LEMMA StepBodyErr ==
  ASSUME Sensible, IInv, NEW t \in Threads, body_err(t)
  PROVE  IInv'
<1>1. UserInv(t) /\ call \in [Threads -> CallType] /\ conns \in Seq(ConnType) /\ misled = FALSE
  BY OfThread
<1>2. /\ call[t].pc = "write" /\ UNCHANGED <<plan, list, lock, misled>> /\ call' = Retried(t)
      /\ conns' = [DropDirty(call[t].conn) EXCEPT ![call[t].conn].cut = TRUE]
  BY DEF body_err
<1>3. PICK c : c = call[t].conn
  OBVIOUS
<1> DEFINE k == conns[c]
           v == [k EXCEPT !.occupied = FALSE, !.dirty = TRUE, !.cut = TRUE]
<1>4. call[t].conn # 0 /\ c \in 1..Len(conns) /\ k \in ConnType /\ ConnOK(k)
  BY <1>1, <1>2, <1>3, OfUser DEF UserInv
<1>5. conns' = [conns EXCEPT ![c] = v]
  BY <1>1, <1>2, <1>3, <1>4 DEF DropDirty
<1>6. v \in ConnType /\ v.asked = k.asked /\ v.wire = k.wire /\ v.eof = k.eof /\ v.dirty
  BY <1>4 DEF ConnType
<1> HIDE DEF v
<1>7. ConnOK(v)
  BY <1>4, <1>6 DEF ConnOK
<1>8. /\ call' \in [Threads -> CallType] /\ \A u \in Threads : u # t => call'[u] = call[u]
      /\ call'[t].pc \in {"lock", "failed"} /\ call'[t].conn = 0
      /\ call'[t].n = call[t].n /\ call'[t].body = call[t].body /\ call'[t].framing = call[t].framing
  BY <1>1, <1>2, RetriedCall
<1>9. call'[t].body = 0 /\ call'[t].framing = "none"
  BY <1>1, <1>2, <1>8 DEF UserInv
<1>10. call[t].pc \in {"write", "head", "body"} /\ misled' = FALSE /\ UNCHANGED <<plan, list, lock>>
  BY <1>1, <1>2
<1> QED BY <1>3, <1>5, <1>6, <1>7, <1>8, <1>9, <1>10, LetGo

\* The head cannot be read: the connection is left dirty, and has ended.
LEMMA StepReadErr ==
  ASSUME Sensible, IInv, NEW t \in Threads, read_err(t)
  PROVE  IInv'
<1>1. UserInv(t) /\ call \in [Threads -> CallType] /\ conns \in Seq(ConnType) /\ misled = FALSE
  BY OfThread
<1>2. /\ call[t].pc = "head" /\ UNCHANGED <<plan, list, lock, misled>> /\ call' = Retried(t)
      /\ conns' = [DropDirty(call[t].conn) EXCEPT ![call[t].conn].eof = TRUE]
  BY DEF read_err
<1>3. PICK c : c = call[t].conn
  OBVIOUS
<1> DEFINE k == conns[c]
           v == [k EXCEPT !.occupied = FALSE, !.dirty = TRUE, !.eof = TRUE]
<1>4. call[t].conn # 0 /\ c \in 1..Len(conns) /\ k \in ConnType /\ ConnOK(k)
  BY <1>1, <1>2, <1>3, OfUser DEF UserInv
<1>5. conns' = [conns EXCEPT ![c] = v]
  BY <1>1, <1>2, <1>3, <1>4 DEF DropDirty
<1>6. v \in ConnType /\ v.asked = k.asked /\ v.wire = k.wire /\ v.eof = TRUE /\ v.dirty
  BY <1>4 DEF ConnType
<1> HIDE DEF v
<1>7. ConnOK(v)
  BY <1>4, <1>6, AlignedEnd DEF ConnOK
<1>8. /\ call' \in [Threads -> CallType] /\ \A u \in Threads : u # t => call'[u] = call[u]
      /\ call'[t].pc \in {"lock", "failed"} /\ call'[t].conn = 0
      /\ call'[t].n = call[t].n /\ call'[t].body = call[t].body /\ call'[t].framing = call[t].framing
  BY <1>1, <1>2, RetriedCall
<1>9. call'[t].body = 0 /\ call'[t].framing = "none"
  BY <1>1, <1>2, <1>8 DEF UserInv
<1>10. call[t].pc \in {"write", "head", "body"} /\ misled' = FALSE /\ UNCHANGED <<plan, list, lock>>
  BY <1>1, <1>2
<1> QED BY <1>3, <1>5, <1>6, <1>7, <1>8, <1>9, <1>10, LetGo

\* The response is dropped before its end: the connection is left dirty.
LEMMA StepLeave ==
  ASSUME Sensible, IInv, NEW t \in Threads, leave(t)
  PROVE  IInv'
<1>1. UserInv(t) /\ call \in [Threads -> CallType] /\ conns \in Seq(ConnType) /\ misled = FALSE /\ call[t] \in CallType
  BY OfThread
<1>2. /\ call[t].pc = "body" /\ UNCHANGED <<plan, list, lock, misled>>
      /\ call' = [call EXCEPT ![t].pc = "failed", ![t].conn = 0] /\ conns' = DropDirty(call[t].conn)
  BY DEF leave
<1>3. PICK c : c = call[t].conn
  OBVIOUS
<1> DEFINE k == conns[c]
           v == [k EXCEPT !.occupied = FALSE, !.dirty = TRUE]
<1>4. call[t].conn # 0 /\ c \in 1..Len(conns) /\ k \in ConnType /\ ConnOK(k)
  BY <1>1, <1>2, <1>3, OfUser DEF UserInv
<1>5. conns' = [conns EXCEPT ![c] = v]
  BY <1>1, <1>2, <1>3, <1>4 DEF DropDirty
<1>6. v \in ConnType /\ v.asked = k.asked /\ v.wire = k.wire /\ v.eof = k.eof /\ v.dirty
  BY <1>4 DEF ConnType
<1> HIDE DEF v
<1>7. ConnOK(v)
  BY <1>4, <1>6 DEF ConnOK
<1>8. /\ call' \in [Threads -> CallType] /\ \A u \in Threads : u # t => call'[u] = call[u]
      /\ call'[t].pc = "failed" /\ call'[t].conn = 0 /\ call'[t].n = call[t].n
  <2>1. "failed" \in Places /\ 0 \in Nat
    BY SMTT(30) DEF Places
  <2> QED BY <1>1, <1>2, <2>1 DEF CallType
<1>9. call[t].pc \in {"write", "head", "body"} /\ misled' = FALSE /\ UNCHANGED <<plan, list, lock>>
  BY <1>1, <1>2
<1> QED BY <1>3, <1>5, <1>6, <1>7, <1>8, <1>9, LetGo

\* The body cannot be read: the connection is left dirty, and has ended.
LEMMA StepDataErr ==
  ASSUME Sensible, IInv, NEW t \in Threads, data_err(t)
  PROVE  IInv'
<1>1. UserInv(t) /\ call \in [Threads -> CallType] /\ conns \in Seq(ConnType) /\ misled = FALSE /\ call[t] \in CallType
  BY OfThread
<1>2. /\ call[t].pc = "body" /\ UNCHANGED <<plan, list, lock, misled>>
      /\ call' = [call EXCEPT ![t].pc = "failed", ![t].conn = 0]
      /\ conns' = [DropDirty(call[t].conn) EXCEPT ![call[t].conn].eof = TRUE]
  BY DEF data_err
<1>3. PICK c : c = call[t].conn
  OBVIOUS
<1> DEFINE k == conns[c]
           v == [k EXCEPT !.occupied = FALSE, !.dirty = TRUE, !.eof = TRUE]
<1>4. call[t].conn # 0 /\ c \in 1..Len(conns) /\ k \in ConnType /\ ConnOK(k)
  BY <1>1, <1>2, <1>3, OfUser DEF UserInv
<1>5. conns' = [conns EXCEPT ![c] = v]
  BY <1>1, <1>2, <1>3, <1>4 DEF DropDirty
<1>6. v \in ConnType /\ v.asked = k.asked /\ v.wire = k.wire /\ v.eof = TRUE /\ v.dirty
  BY <1>4 DEF ConnType
<1> HIDE DEF v
<1>7. ConnOK(v)
  BY <1>4, <1>6, AlignedEnd DEF ConnOK
<1>8. /\ call' \in [Threads -> CallType] /\ \A u \in Threads : u # t => call'[u] = call[u]
      /\ call'[t].pc = "failed" /\ call'[t].conn = 0 /\ call'[t].n = call[t].n
  <2>1. "failed" \in Places /\ 0 \in Nat
    BY SMTT(30) DEF Places
  <2> QED BY <1>1, <1>2, <2>1 DEF CallType
<1>9. call[t].pc \in {"write", "head", "body"} /\ misled' = FALSE /\ UNCHANGED <<plan, list, lock>>
  BY <1>1, <1>2
<1> QED BY <1>3, <1>5, <1>6, <1>7, <1>8, <1>9, LetGo

\* The last chunk is the only cell "z" of a body, and its last one.
LEMMA LastChunk ==
  ASSUME NEW x \in CallType, NEW k \in ConnType, NEW who, BodyOK(x, k, who), x.framing = "chunk",
         NEW n \in Nat, n + 1 \in 1..Len(Unread(x, k)),
         Unread(x, k)[n + 1].is = "z", \A i \in 1..n : Unread(x, k)[i].is = "b"
  PROVE  /\ x.body + n = 1
         /\ ~k.dirty => k.asked = <<>> /\ Len(Unread(x, k)) <= n + 1 /\ Mine(Unread(x, k), who)
<1>1. PICK r \in Seq(Cells) : r = Unread(x, k)
  BY UnreadCells
<1>2. /\ x.body \in {0, 1} /\ Rest(x) = 2 - x.body
      /\ \A i \in 1..Len(r) : i <= Rest(x) => r[i].is = IF i = Rest(x) THEN "z" ELSE "b"
      /\ ~k.dirty => k.asked = <<>> /\ Len(r) <= Rest(x) /\ Mine(r, who)
  <2>1. Rest(x) = 2 - x.body
    BY SMTT(30) DEF Rest
  <2> QED BY <1>1, <2>1 DEF BodyOK
<1>3. Len(r) \in Nat /\ n + 1 \in 1..Len(r) /\ Rest(x) \in 1..2
  BY <1>1, <1>2, SMTT(30)
<1>4. ~(n + 1 < Rest(x))
  <2> SUFFICES ASSUME n + 1 < Rest(x) PROVE FALSE
    OBVIOUS
  <2>1. n + 1 <= Rest(x) /\ n + 1 # Rest(x)
    BY <1>3, SMTT(30)
  <2>2. r[n + 1].is = "b"
    BY <1>2, <1>3, <2>1
  <2> QED BY <1>1, <2>2
<1>5. ~(Rest(x) < n + 1)
  <2> SUFFICES ASSUME Rest(x) < n + 1 PROVE FALSE
    OBVIOUS
  <2>1. Rest(x) \in 1..n /\ Rest(x) \in 1..Len(r) /\ Rest(x) <= Rest(x)
    BY <1>3, SMTT(30)
  <2>2. r[Rest(x)].is = "z"
    BY <1>2, <2>1
  <2> QED BY <1>1, <2>1, <2>2
<1>6. Rest(x) = n + 1
  BY <1>3, <1>4, <1>5, SMTT(30)
<1>7. x.body + n = 1
  BY ONLY <1>2, <1>6, n \in Nat, SMTT(30)
<1> QED BY <1>1, <1>2, <1>6, <1>7

\* A read ends inside the last chunk: the body had all its data, and the
\* connection is left dirty unless the chunk was kept from the read of the head.
LEMMA StepDataCut ==
  ASSUME Sensible, IInv, NEW t \in Threads, data_cut(t)
  PROVE  IInv'
<1>1. UserInv(t) /\ call \in [Threads -> CallType] /\ conns \in Seq(ConnType) /\ misled = FALSE /\ call[t] \in CallType
  BY OfThread
<1>2. call[t].pc = "body" /\ call[t].framing = "chunk" /\ UNCHANGED <<plan, list, lock>>
  BY DEF data_cut
<1> DEFINE Ends(c, p, how, r, n) ==
             /\ r[n + 1].is = "z" /\ \A i \in 1..n : r[i].is = "b"
             /\ p = 0 \/ n <= p
             /\ misled' = (misled \/ NotMine(t, c, SubSeq(conns[c].wire, 1, n + 1 - p)))
             /\ call' = CutShort(t, how, n)
             /\ conns' = IF n < p THEN Drop(c)
                         ELSE [DropDirty(c) EXCEPT ![c].wire = SubSeq(@, n + 1 - p, Len(@))]
<1>3. PICK c \in {call[t].conn}, p \in {Len(call[t].pre)}, how \in {"done", "failed"} :
        \E r \in {call[t].pre \o conns[c].wire} : \E n \in 0..(Len(r) - 1) : Ends(c, p, how, r, n)
  BY DEF data_cut
<1>4. PICK r \in {call[t].pre \o conns[c].wire} : \E n \in 0..(Len(r) - 1) : Ends(c, p, how, r, n)
  BY <1>3
<1>5. PICK n \in 0..(Len(r) - 1) : Ends(c, p, how, r, n)
  BY <1>4
<1>6. /\ call[t].conn # 0 /\ c = call[t].conn /\ c \in 1..Len(conns) /\ conns[c] \in ConnType /\ ConnOK(conns[c])
      /\ BodyOK(call[t], conns[c], Me(t))
  BY <1>1, <1>2, OfUser DEF UserInv, UserOK
<1>7. PICK k \in ConnType : k = conns[c]
  BY <1>6
<1>8. PICK w \in Seq(Cells) : w = k.wire
  BY DEF ConnType
<1>9. /\ r = Unread(call[t], k) /\ r \in Seq(Cells) /\ Len(r) \in Nat /\ p \in Nat /\ Len(w) \in Nat
      /\ Len(r) = p + Len(w) /\ \A i \in 1..Len(w) : r[p + i] = w[i]
  <2>1. r = Unread(call[t], k) /\ p = Len(call[t].pre)
    BY <1>7 DEF Unread
  <2> QED BY <1>1, <1>8, <2>1, UnreadCells
<1>10. n \in Nat /\ n + 1 \in 1..Len(r)
  BY ONLY <1>9, n \in 0..(Len(r) - 1), SMTT(30)
<1>11. /\ call[t].body + n = 1
       /\ ~k.dirty => k.asked = <<>> /\ Len(r) <= n + 1 /\ Mine(r, Me(t))
  BY <1>1, <1>2, <1>5, <1>6, <1>7, <1>9, <1>10, LastChunk
<1>12. /\ call' \in [Threads -> CallType] /\ \A u \in Threads : u # t => call'[u] = call[u]
       /\ call'[t].pc = how /\ call'[t].conn = 0 /\ call'[t].n = call[t].n
       /\ call'[t].body = 1 /\ call'[t].framing = "chunk"
  <2>1. how \in Places /\ 0 \in Nat /\ 1 \in Nat
    BY SMTT(30) DEF Places
  <2>2. call' = [call EXCEPT ![t].pc = how, ![t].conn = 0, ![t].body = 1]
    BY <1>5, <1>11 DEF CutShort
  <2> QED BY <1>1, <1>2, <2>1, <2>2 DEF CallType
<1>13. call'[t].body >= BodyLeft(call'[t].framing)
  <2>1. BodyLeft("chunk") = 1 /\ 1 >= 1
    BY SMTT(30) DEF BodyLeft
  <2> QED BY <1>12, <2>1
<1>14. call[t].pc \in {"write", "head", "body"} /\ call'[t].pc \in {"lock", "failed", "done"} /\ call'[t].pc # "lock"
  BY <1>2, <1>12
<1>15. CASE n < p
  <2> DEFINE v == [k EXCEPT !.occupied = FALSE]
  <2>1. conns' = [conns EXCEPT ![c] = v]
    BY <1>5, <1>7, <1>15 DEF Drop
  <2>2. /\ v \in ConnType /\ v.asked = k.asked /\ v.wire = k.wire /\ v.eof = k.eof /\ v.dirty = k.dirty
        /\ v.cut = k.cut
    BY DEF ConnType
  <2> HIDE DEF v
  <2>3. ~k.dirty => w = <<>>
    <3>1. ~k.dirty => Len(r) <= n + 1
      BY <1>11
    <3>2. ~k.dirty => Len(w) = 0
      BY ONLY <1>9, <1>10, <1>15, <3>1, SMTT(30)
    <3> QED BY ONLY <3>2, w \in Seq(Cells), SMTT(30)
  <2>4. ConnOK(v)
    BY <1>6, <1>7, <1>8, <1>11, <2>2, <2>3 DEF ConnOK
  <2>5. misled' = FALSE
    <3>1. SubSeq(w, 1, n + 1 - p) = <<>>
      BY ONLY <1>9, <1>10, <1>15, w \in Seq(Cells), SMTT(30)
    <3>2. \A i \in 1..Len(<<>>) : FALSE
      BY SMTT(30)
    <3> QED BY <1>1, <1>5, <1>7, <1>8, <3>1, <3>2 DEF NotMine
  <2> QED BY <1>2, <1>6, <1>7, <1>12, <1>13, <1>14, <2>1, <2>2, <2>4, <2>5, LetGo
<1>16. CASE ~(n < p)
  <2>1. PICK m \in 0..Len(w) : n - p = m /\ n + 1 - p = m + 1 /\ m + 1 \in 1..Len(w)
    <3>1. n - p \in 0..Len(w) /\ n + 1 - p = (n - p) + 1 /\ (n - p) + 1 \in 1..Len(w)
      BY ONLY <1>9, <1>10, <1>16, SMTT(30)
    <3> QED BY <3>1
  <2> DEFINE q == SubSeq(w, m + 1, Len(w))
             v == [k EXCEPT !.occupied = FALSE, !.dirty = TRUE, !.wire = q]
  <2>2. q \in Seq(Cells) /\ Aligned(q, k.eof)
    <3>1. Aligned(w, k.eof) /\ k.eof \in BOOLEAN
      BY <1>6, <1>7, <1>8 DEF ConnOK, ConnType
    <3> QED BY <3>1, Suffix, AlignedSuffix
  <2>3. conns' = [conns EXCEPT ![c] = v]
    <3> DEFINE d == [k EXCEPT !.occupied = FALSE, !.dirty = TRUE]
    <3>1. conns' = [DropDirty(c) EXCEPT ![c].wire = SubSeq(DropDirty(c)[c].wire, m + 1, Len(DropDirty(c)[c].wire))]
      BY <1>5, <1>16, <2>1
    <3>2. DropDirty(c) = [conns EXCEPT ![c] = d]
      BY <1>7 DEF DropDirty
    <3>3. d.wire = w
      BY <1>8 DEF ConnType
    <3>4. v = [d EXCEPT !.wire = q]
      OBVIOUS
    <3> HIDE DEF d, v
    <3>5. [conns EXCEPT ![c] = d][c] = d
      BY ONLY <1>1, <1>6, SMTT(30)
    <3>6. conns' = [[conns EXCEPT ![c] = d] EXCEPT ![c].wire = q]
      BY <3>1, <3>2, <3>3, <3>5
    <3>7. conns' = [[conns EXCEPT ![c] = d] EXCEPT ![c] = v]
      BY <3>4, <3>5, <3>6
    <3> QED BY <3>7
  <2>4. v \in ConnType /\ v.asked = k.asked /\ v.wire = q /\ v.eof = k.eof /\ v.dirty
    BY <2>2 DEF ConnType
  <2> HIDE DEF v
  <2>5. ConnOK(v)
    BY <2>2, <2>4 DEF ConnOK
  <2>6. misled' = FALSE
    <3> DEFINE g == SubSeq(w, 1, m + 1)
    <3>1. m + 1 \in 0..Len(w)
      BY ONLY <2>1, SMTT(30)
    <3>2. Len(g) = m + 1 /\ \A i \in 1..m + 1 : g[i] = w[i]
      BY <3>1, Prefix
    <3> HIDE DEF g
    <3> SUFFICES ASSUME ~k.dirty, NEW i \in 1..Len(g), g[i].of # Me(t) PROVE FALSE
      BY <1>1, <1>5, <1>7, <1>8, <2>1 DEF NotMine, g
    <3>3. i \in 1..m + 1 /\ i \in 1..Len(w) /\ p + i \in 1..Len(r)
      BY ONLY <1>9, <2>1, <3>2, i \in 1..Len(g), SMTT(30)
    <3>4. g[i] = r[p + i]
      BY <1>9, <3>2, <3>3
    <3> QED BY <1>11, <3>3, <3>4 DEF Mine
  <2> QED BY <1>2, <1>6, <1>7, <1>12, <1>13, <1>14, <2>3, <2>4, <2>5, <2>6, LetGo
<1> QED BY <1>15, <1>16

\* The connection ends inside the body: nothing is left on it.
LEMMA StepDataEof ==
  ASSUME Sensible, IInv, NEW t \in Threads, data_eof(t)
  PROVE  IInv'
<1>1. UserInv(t) /\ call \in [Threads -> CallType] /\ conns \in Seq(ConnType) /\ misled = FALSE /\ call[t] \in CallType
  BY OfThread
<1>2. /\ call[t].pc = "body" /\ UNCHANGED <<plan, list, lock, misled>>
      /\ conns[call[t].conn].wire = <<>>
      /\ call' = [call EXCEPT ![t].pc = "failed", ![t].conn = 0]
      /\ conns' = [Drop(call[t].conn) EXCEPT ![call[t].conn].shutdown = TRUE]
  BY DEF data_eof, Ended
<1>3. PICK c : c = call[t].conn
  OBVIOUS
<1> DEFINE k == conns[c]
           v == [k EXCEPT !.occupied = FALSE, !.shutdown = TRUE]
<1>4. /\ call[t].conn # 0 /\ c \in 1..Len(conns) /\ k \in ConnType /\ ConnOK(k)
      /\ UserOK(call[t], k, Me(t))
  BY <1>1, <1>2, <1>3, OfUser DEF UserInv
<1>5. conns' = [conns EXCEPT ![c] = v]
  BY <1>1, <1>2, <1>3, <1>4 DEF Drop
<1>6. /\ v \in ConnType /\ v.asked = k.asked /\ v.wire = k.wire /\ v.eof = k.eof /\ v.dirty = k.dirty
      /\ v.cut = k.cut
  BY <1>4 DEF ConnType
<1> HIDE DEF v
<1>7. ConnOK(v)
  <2>1. ~k.dirty => k.asked = <<>>
    BY <1>2, <1>4 DEF UserOK, BodyOK
  <2>2. k.wire = <<>>
    BY <1>2, <1>3
  <2> QED BY <1>4, <1>6, <2>1, <2>2 DEF ConnOK
<1>8. /\ call' \in [Threads -> CallType] /\ \A u \in Threads : u # t => call'[u] = call[u]
      /\ call'[t].pc = "failed" /\ call'[t].conn = 0 /\ call'[t].n = call[t].n
  <2>1. "failed" \in Places /\ 0 \in Nat
    BY SMTT(30) DEF Places
  <2> QED BY <1>1, <1>2, <2>1 DEF CallType
<1>9. call[t].pc \in {"write", "head", "body"} /\ misled' = FALSE /\ UNCHANGED <<plan, list, lock>>
  BY <1>1, <1>2
<1> QED BY <1>3, <1>5, <1>6, <1>7, <1>8, <1>9, LetGo

\* The head is written: the server is asked, unless it takes the bytes for the
\* rest of an earlier request; an ended connection is given up.
LEMMA StepWriteAll ==
  ASSUME Sensible, IInv, NEW t \in Threads, write_all(t)
  PROVE  IInv'
<1>1. /\ UserInv(t) /\ call \in [Threads -> CallType] /\ conns \in Seq(ConnType) /\ misled = FALSE /\ call[t] \in CallType
      /\ list \in Seq(1..Len(conns)) /\ lock \in Threads \cup {Nobody}
  BY OfThread
<1>2. call[t].pc = "write" /\ UNCHANGED <<plan, list, lock, misled>>
  BY DEF write_all
<1>3. PICK c : c = call[t].conn
  OBVIOUS
<1> DEFINE k == conns[c]
<1>4. /\ call[t].conn # 0 /\ c \in 1..Len(conns) /\ k \in ConnType /\ ConnOK(k) /\ c \in Nat /\ c # 0
      /\ UserOK(call[t], k, Me(t)) /\ k.occupied /\ \A u \in Threads : u # t => call[u].conn # c
  BY <1>1, <1>2, <1>3, OfUser DEF UserInv
<1>5. call[t].pc \in {"write", "head", "body"} /\ misled' = FALSE /\ UNCHANGED <<plan, list, lock>> /\ lock # t
  BY <1>1, <1>2 DEF UserInv
<1>6. CASE k.eof
  <2> DEFINE v == [k EXCEPT !.occupied = FALSE, !.dirty = TRUE]
  <2>1. conns' = DropDirty(c) /\ call' = Retried(t)
    BY <1>3, <1>6 DEF write_all
  <2>2. conns' = [conns EXCEPT ![c] = v]
    BY <1>1, <1>4, <2>1 DEF DropDirty
  <2>3. v \in ConnType /\ v.asked = k.asked /\ v.wire = k.wire /\ v.eof = k.eof /\ v.dirty
    BY <1>4 DEF ConnType
  <2> HIDE DEF v
  <2>4. ConnOK(v)
    BY <1>4, <2>3 DEF ConnOK
  <2>5. /\ call' \in [Threads -> CallType] /\ \A u \in Threads : u # t => call'[u] = call[u]
        /\ call'[t].pc \in {"lock", "failed"} /\ call'[t].conn = 0
        /\ call'[t].n = call[t].n /\ call'[t].body = call[t].body /\ call'[t].framing = call[t].framing
    BY <1>1, <2>1, RetriedCall
  <2>6. call'[t].body = 0 /\ call'[t].framing = "none"
    BY <1>1, <1>2, <2>5 DEF UserInv
  <2> QED BY <1>3, <1>5, <2>2, <2>3, <2>4, <2>5, <2>6, LetGo
<1>7. CASE ~k.eof
  <2>1. /\ call' = [call EXCEPT ![t].pc = "head"]
        /\ conns' = IF k.cut THEN conns ELSE [conns EXCEPT ![c].asked = Append(k.asked, Me(t))]
    BY <1>3, <1>7 DEF write_all
  <2>2. "head" \in Places
    BY DEF Places
  <2>3. /\ call' \in [Threads -> CallType] /\ \A u \in Threads : u # t => call'[u] = call[u]
        /\ call'[t].pc = "head" /\ call'[t].conn = c
        /\ call'[t].n = call[t].n /\ call'[t].body = call[t].body /\ call'[t].framing = call[t].framing
    BY <1>1, <1>3, <2>1, <2>2 DEF CallType
  <2>4. Me(t)' = Me(t) /\ Me(t) \in Calls
    <3>1. call[t].n \in Nat
      BY <1>1, CallFields
    <3> QED BY <2>3, <3>1 DEF Me, Calls
  <2>5. CASE k.cut
    <3>1. conns' = conns /\ k.dirty
      BY <1>4, <2>1, <2>5 DEF ConnOK
    <3>2. UserOK(call'[t], k, Me(t)')
      BY <2>3, <3>1 DEF UserOK
    <3>3. UserInv(t)'
      BY <1>1, <1>2, <1>4, <1>5, <2>3, <3>1, <3>2 DEF UserInv
    <3> QED BY <1>1, <1>2, <1>3, <2>3, <3>1, <3>3, CallStep
  <2>6. CASE ~k.cut
    <3> DEFINE v == [k EXCEPT !.asked = Append(k.asked, Me(t))]
    <3>1. conns' = [conns EXCEPT ![c] = v]
      BY <2>1, <2>6
    <3>2. k.asked \in Seq(Calls)
      BY <1>4 DEF ConnType
    <3>3. Append(k.asked, Me(t)) \in Seq(Calls)
      BY ONLY <2>4, <3>2, Add, SMTT(30)
    <3>4. /\ v \in ConnType /\ v.asked = Append(k.asked, Me(t)) /\ v.wire = k.wire /\ v.eof = k.eof /\ v.dirty = k.dirty
          /\ v.occupied = k.occupied /\ v.cut = k.cut
      BY <1>4, <3>3 DEF ConnType
    <3> HIDE DEF v
    <3>5. ConnOK(v)
      BY <1>4, <3>4 DEF ConnOK
    <3>6. ~v.dirty => v.wire = <<>> /\ v.asked = <<Me(t)>>
      <4> SUFFICES ASSUME ~v.dirty PROVE v.wire = <<>> /\ v.asked = <<Me(t)>>
        OBVIOUS
      <4>1. k.wire = <<>> /\ k.asked = <<>>
        BY <1>2, <1>4, <3>4 DEF UserOK
      <4>2. Append(<<>>, Me(t)) = <<Me(t)>>
        BY SMTT(30)
      <4> QED BY <3>4, <4>1, <4>2
    <3>7. UserOK(call'[t], v, Me(t)')
      BY <2>3, <2>4, <3>6 DEF UserOK, HeadOK
    <3>8. Len(conns') = Len(conns) /\ conns'[c] = v
      BY <1>1, <1>4, <3>1, <3>4, Touch
    <3>9. UserInv(t)'
      BY <1>1, <1>2, <1>4, <1>5, <2>3, <3>4, <3>7, <3>8 DEF UserInv
    <3>10. call[t].n # 0
      BY <1>1, <1>2 DEF UserInv
    <3> QED BY <1>4, <1>5, <2>3, <3>1, <3>4, <3>5, <3>9, <3>10, ConnStep
  <2> QED BY <2>5, <2>6
<1> QED BY <1>6, <1>7

\* Cells are read from what was kept.
LEMMA SplitPre ==
  ASSUME NEW x \in CallType, NEW k \in ConnType, NEW n \in 1..Len(x.pre),
         NEW y \in CallType, NEW j \in ConnType, y.pre = SubSeq(x.pre, n + 1, Len(x.pre)), j.wire = k.wire,
         NEW got, got = SubSeq(x.pre, 1, n)
  PROVE  got \in Seq(Cells) /\ Len(got) = n /\ Front(got, Unread(x, k)) /\ Behind(Unread(y, j), Unread(x, k), Len(got))
<1> DEFINE r == Unread(x, k)
           s == Unread(y, j)
           p == x.pre
           q == y.pre
           w == k.wire
<1>1. /\ p \in Seq(Cells) /\ w \in Seq(Cells) /\ Len(p) \in Nat /\ Len(w) \in Nat /\ Len(r) = Len(p) + Len(w)
      /\ \A i \in 1..Len(p) : r[i] = p[i]
      /\ \A i \in 1..Len(w) : r[Len(p) + i] = w[i]
  BY UnreadCells
<1>2. /\ Len(q) \in Nat /\ Len(s) = Len(q) + Len(w)
      /\ \A i \in 1..Len(q) : s[i] = q[i]
      /\ \A i \in 1..Len(w) : s[Len(q) + i] = w[i]
  <2>1. /\ Len(q) \in Nat /\ Len(s) = Len(q) + Len(j.wire)
        /\ \A i \in 1..Len(q) : s[i] = q[i]
        /\ \A i \in 1..Len(j.wire) : s[Len(q) + i] = j.wire[i]
    BY UnreadCells
  <2> QED BY <2>1
<1>3. q = SubSeq(p, n + 1, Len(p)) /\ got = SubSeq(p, 1, n) /\ n \in 1..Len(p)
  OBVIOUS
<1> HIDE DEF r, s, p, q, w
<1>4. n \in 0..Len(p)
  BY <1>1, <1>3, SMTT(30)
<1>5. got \in Seq(Cells) /\ Len(got) = n /\ \A i \in 1..n : got[i] = p[i]
  BY ONLY <1>1, <1>3, <1>4, Prefix, SMTT(30)
<1>6. Len(q) = Len(p) - n /\ \A i \in 1..Len(q) : q[i] = p[n + i]
  BY ONLY <1>1, <1>3, <1>4, Suffix, SMTT(30)
<1>7. Front(got, r)
  <2>1. n \in 1..Len(r) /\ \A i \in 1..n : i \in 1..Len(p)
    BY ONLY <1>1, <1>3, SMTT(30)
  <2> QED BY <1>1, <1>5, <2>1 DEF Front
<1>8. Behind(s, r, n)
  <2>1. Len(s) = Len(r) - n
    <3>1. /\ Len(p) \in Nat /\ Len(w) \in Nat /\ Len(r) = Len(p) + Len(w) /\ n \in 1..Len(p)
          /\ Len(s) = Len(q) + Len(w) /\ Len(q) = Len(p) - n
      BY <1>1, <1>2, <1>3, <1>6
    <3> QED BY ONLY <3>1, SMTT(30)
  <2>2. ASSUME NEW i \in 1..Len(s) PROVE s[i] = r[n + i]
    <3>1. CASE i \in 1..Len(q)
      <4>0. n \in 1..Len(p) /\ i \in 1..Len(q) /\ Len(q) = Len(p) - n /\ Len(p) \in Nat
        BY <1>1, <1>3, <1>6, <3>1
      <4>1. n + i \in 1..Len(p)
        BY ONLY <4>0, SMTT(30)
      <4> QED BY <1>1, <1>2, <1>6, <3>1, <4>1
    <3>2. CASE i \notin 1..Len(q)
      <4>1. PICK d \in 1..Len(w) : i = Len(q) + d
        <5>1. i - Len(q) \in 1..Len(w) /\ i = Len(q) + (i - Len(q))
          BY ONLY <1>1, <1>2, <2>2, <3>2, SMTT(30)
        <5> QED BY <5>1
      <4>2. s[i] = w[d]
        BY <1>2, <4>1
      <4>3. n + i = Len(p) + d
        BY ONLY <1>1, <1>2, <1>3, <1>6, <4>1, SMTT(30)
      <4> QED BY <1>1, <4>2, <4>3
    <3> QED BY <3>1, <3>2
  <2> QED BY <2>1, <2>2 DEF Behind
<1> QED BY <1>5, <1>7, <1>8 DEF r, s

\* Nothing was kept.
LEMMA UnreadWire ==
  ASSUME NEW x, NEW k \in ConnType, x.pre = <<>>
  PROVE  Unread(x, k) = k.wire
<1>1. k.wire \in Seq(Cells)
  BY DEF ConnType
<1>2. \A z \in Seq(Cells) : <<>> \o z = z
  BY SMTT(30)
<1> QED BY <1>1, <1>2 DEF Unread

\* Cells are read from the connection.
LEMMA SplitWire ==
  ASSUME NEW w \in Seq(Cells), NEW n \in 1..Len(w)
  PROVE  /\ SubSeq(w, 1, n) \in Seq(Cells) /\ Len(SubSeq(w, 1, n)) = n
         /\ Front(SubSeq(w, 1, n), w) /\ Behind(SubSeq(w, n + 1, Len(w)), w, n)
<1> DEFINE got == SubSeq(w, 1, n)
           q == SubSeq(w, n + 1, Len(w))
<1>1. n \in 0..Len(w)
  BY SMTT(30)
<1>2. got \in Seq(Cells) /\ Len(got) = n /\ \A i \in 1..n : got[i] = w[i]
  BY <1>1, Prefix
<1>3. q \in Seq(Cells) /\ Len(q) = Len(w) - n /\ \A i \in 1..Len(q) : q[i] = w[n + i]
  BY <1>1, Suffix
<1> QED BY <1>2, <1>3 DEF Front, Behind

\* Decoded does that to the call.
LEMMA DecodedCall ==
  ASSUME CardFacts, NEW t \in Threads, call \in [Threads -> CallType], NEW got \in Seq(Cells),
         ~Excess(t, got) /\ call[t].framing = "length" => call[t].left - Len(got) \in Nat
  PROVE  /\ Decoded(t, got) \in [Threads -> CallType]
         /\ \A u \in Threads : u # t => Decoded(t, got)[u] = call[u]
         /\ ReadCall(t, got, call[t], Decoded(t, got)[t])
         /\ Decoded(t, got)[t].pre = call[t].pre
<1>1. call[t] \in CallType /\ call[t].left \in Nat /\ call[t].body \in Nat /\ call[t].conn \in Nat
  BY CallFields
<1>2. Data(got) \in Nat
  BY DataCount
<1>3. "failed" \in Places /\ "done" \in Places /\ "body" \in Places /\ 0 \in Nat /\ call[t].body + Data(got) \in Nat
  BY <1>1, <1>2, SMTT(30) DEF Places
<1>4. CASE Excess(t, got)
  <2> DEFINE y == [call[t] EXCEPT !.pc = "failed", !.conn = 0]
  <2>1. Decoded(t, got) = [call EXCEPT ![t] = y]
    BY <1>4 DEF Decoded
  <2>2. y \in CallType /\ y.pc = "failed" /\ y.conn = 0 /\ y.n = call[t].n /\ y.framing = call[t].framing /\ y.pre = call[t].pre
    BY <1>1, <1>3 DEF CallType
  <2> HIDE DEF y
  <2>3. Decoded(t, got)[t] = y /\ Decoded(t, got) \in [Threads -> CallType]
        /\ \A u \in Threads : u # t => Decoded(t, got)[u] = call[u]
    BY <2>1, <2>2
  <2> QED BY <1>4, <2>2, <2>3 DEF ReadCall
<1>5. CASE ~Excess(t, got)
  <2> DEFINE q == IF Complete(t, got) THEN "done" ELSE "body"
             e == IF Complete(t, got) THEN 0 ELSE call[t].conn
             b == call[t].body + Data(got)
             l == IF call[t].framing = "length" THEN call[t].left - Len(got) ELSE call[t].left
             y == [call[t] EXCEPT !.pc = q, !.conn = e, !.body = b, !.left = l]
  <2>1. q \in Places /\ e \in Nat /\ b \in Nat /\ l \in Nat
    BY <1>1, <1>3, <1>5
  <2>2. Decoded(t, got) = [call EXCEPT ![t].pc = q, ![t].conn = e, ![t].body = b, ![t].left = l]
    BY <1>1, <1>5, Zenon DEF Decoded
  <2> HIDE DEF q, e, b, l
  <2>3. Decoded(t, got) = [call EXCEPT ![t] = y]
    BY <2>2
  <2>4. y \in CallType
    BY <1>1, <2>1 DEF CallType
  <2>5. /\ y.pc = q /\ y.conn = e /\ y.n = call[t].n /\ y.framing = call[t].framing /\ y.pre = call[t].pre
        /\ y.body = b /\ y.left = l
    BY <1>1 DEF CallType
  <2> HIDE DEF y
  <2>6. Decoded(t, got)[t] = y /\ Decoded(t, got) \in [Threads -> CallType]
        /\ \A u \in Threads : u # t => Decoded(t, got)[u] = call[u]
    BY <2>3, <2>4
  <2> QED BY <1>5, <2>5, <2>6 DEF ReadCall, q, e, b, l
<1> QED BY <1>4, <1>5

\* A read of the body, from what was kept or from the connection.
LEMMA ReadStep ==
  ASSUME CardFacts, Sensible, IInv, NEW t \in Threads, call[t].pc = "body", NEW c, c = call[t].conn,
         NEW got \in Seq(Cells), Front(got, Unread(call[t], conns[c])),
         NEW v \in ConnType, conns' = [conns EXCEPT ![c] = v], ReadConn(t, got, conns[c], v), Aligned(v.wire, v.eof),
         call' \in [Threads -> CallType], \A u \in Threads : u # t => call'[u] = call[u],
         ReadCall(t, got, call[t], call'[t]),
         Behind(Unread(call'[t], v), Unread(call[t], conns[c]), Len(got)),
         UNCHANGED <<plan, list, lock>>, misled' = FALSE
  PROVE  IInv'
<1>1. UserInv(t) /\ call[t] \in CallType /\ conns \in Seq(ConnType) /\ call'[t] \in CallType
  BY OfThread
<1> DEFINE k == conns[c]
           x == call[t]
<1>2. /\ call[t].conn # 0 /\ c \in 1..Len(conns) /\ k \in ConnType /\ ConnOK(k) /\ k.occupied /\ c # 0
      /\ BodyOK(x, k, Me(t)) /\ \A u \in Threads : u # t => call[u].conn # c
  BY <1>1, OfUser DEF UserInv, UserOK
<1>3. PICK y \in CallType : y = call'[t]
  BY <1>1
<1>4. Len(conns') = Len(conns) /\ conns'[c] = v
  <2>1. conns' = [conns EXCEPT ![c] = v] /\ c \in 1..Len(conns) /\ v \in ConnType /\ conns \in Seq(ConnType)
    BY <1>1, <1>2
  <2> QED BY ONLY <2>1, Touch
<1>5. x.pc \in {"write", "head", "body"} /\ lock # t /\ call[t].n # 0
  BY <1>1 DEF UserInv
<1>6. CASE Excess(t, got)
  <2>1. y.pc = "failed" /\ y.conn = 0 /\ y.n = x.n /\ v.dirty /\ v.asked = k.asked
    BY <1>3, <1>6 DEF ReadCall, ReadConn
  <2>2. ConnOK(v)
    BY <2>1 DEF ConnOK
  <2> QED BY <1>3, <1>5, <2>1, <2>2, LetGo
<1>7. CASE ~Excess(t, got)
  <2>1. /\ y.n = x.n /\ y.framing = x.framing /\ y.body = x.body + Data(got)
        /\ y.left = IF y.framing = "length" THEN x.left - Len(got) ELSE x.left
        /\ v.dirty = k.dirty /\ v.asked = k.asked /\ v.eof = k.eof /\ v.cut = k.cut
    BY <1>3, <1>7 DEF ReadCall, ReadConn
  <2>2. /\ Complete(t, got) /\ ~k.dirty => v.wire = <<>>
        /\ ~Complete(t, got) => BodyOK(y, v, Me(t))
    <3>1. /\ Front(got, Unread(x, k)) /\ Behind(Unread(y, v), Unread(x, k), Len(got))
          /\ ReadCall(t, got, x, y) /\ ReadConn(t, got, k, v) /\ x \in CallType /\ k \in ConnType /\ BodyOK(x, k, Me(t))
          /\ y \in CallType /\ v \in ConnType /\ got \in Seq(Cells) /\ t \in Threads
      BY <1>1, <1>2, <1>3
    <3> HIDE DEF k
    <3> QED BY ONLY CardFacts, <1>7, <3>1, BodyLater
  <2>3. CASE Complete(t, got)
    <3>1. y.pc = "done" /\ y.conn = 0
      BY <1>3, <1>7, <2>3 DEF ReadCall
    <3>2. x.body + Data(got) >= BodyLeft(x.framing)
      <4>1. call[t] \in CallType /\ k \in ConnType /\ BodyOK(call[t], k, Me(t)) /\ Front(got, Unread(call[t], k))
        BY <1>1, <1>2
      <4> HIDE DEF k
      <4> QED BY <1>7, <2>3, <4>1, BodyRead
    <3>3. ConnOK(v)
      <4>1. ~v.dirty => ~v.cut /\ v.wire = <<>> /\ v.asked = <<>>
        BY <1>2, <2>1, <2>2, <2>3 DEF ConnOK, BodyOK
      <4> QED BY <4>1 DEF ConnOK
    <3>4. y.body >= BodyLeft(y.framing)
      BY <2>1, <3>2
    <3> QED BY <1>3, <1>5, <2>1, <3>1, <3>3, <3>4, LetGo
  <2>4. CASE ~Complete(t, got)
    <3>1. y.pc = "body" /\ y.conn = c /\ v.occupied = k.occupied
      BY <1>3, <1>7, <2>4 DEF ReadCall, ReadConn
    <3>2. ConnOK(v)
      BY <1>2, <2>1, <3>1 DEF ConnOK
    <3>3. UserOK(y, v, Me(t)) /\ Me(t)' = Me(t)
      BY <1>3, <2>1, <2>2, <2>4, <3>1 DEF UserOK, Me
    <3>4. UserInv(t)'
      <4>1. /\ call[t].n <= Len(plan[t]) /\ call[t].n # 0 /\ lock # t
        BY <1>1, <1>5 DEF UserInv
      <4>2. /\ c \in 1..Len(conns') /\ conns'[c] = v /\ v.occupied /\ c # 0 /\ lock' = lock /\ plan' = plan
            /\ call'[t] = y /\ y.n = call[t].n /\ UserOK(y, v, Me(t)')
        BY <1>2, <1>3, <1>4, <1>5, <2>1, <3>1, <3>3
      <4> QED BY <3>1, <4>1, <4>2 DEF UserInv
    <3>5. v.asked = conns[c].asked /\ call'[t].conn \in {0, c}
      BY <1>3, <2>1, <3>1
    <3> QED BY <1>2, <1>5, <3>2, <3>4, <3>5, ConnStep
  <2> QED BY <2>3, <2>4
<1> QED BY <1>6, <1>7

\* Released does what ReadConn says to the connection, and leaves its cells.
LEMMA ReleasedConn ==
  ASSUME NEW t \in Threads, conns \in Seq(ConnType), NEW c \in 1..Len(conns), NEW got
  PROVE  \E v \in ConnType : /\ Released(t, c, got) = [conns EXCEPT ![c] = v]
                             /\ ReadConn(t, got, conns[c], v) /\ v.wire = conns[c].wire
<1> DEFINE k == conns[c]
<1>1. k \in ConnType
  BY SMTT(30)
<1>2. CASE Excess(t, got)
  <2> DEFINE e == k.shutdown \/ call[t].framing # "chunk"
             v == [k EXCEPT !.occupied = FALSE, !.dirty = TRUE, !.shutdown = e]
  <2>1. e \in BOOLEAN
    OBVIOUS
  <2>2. Released(t, c, got) = [DropDirty(c) EXCEPT ![c].shutdown = e]
    <3>1. DropDirty(c)[c].shutdown = k.shutdown
      <4> DEFINE d == [k EXCEPT !.occupied = FALSE, !.dirty = TRUE]
      <4>1. DropDirty(c) = [conns EXCEPT ![c] = d]
        BY DEF DropDirty
      <4>2. d.shutdown = k.shutdown
        BY <1>1 DEF ConnType
      <4> HIDE DEF d
      <4>3. [conns EXCEPT ![c] = d][c] = d
        BY SMTT(30)
      <4> QED BY <4>1, <4>2, <4>3
    <3> QED BY <1>2, <3>1 DEF Released
  <2> HIDE DEF e
  <2>3. Released(t, c, got) = [conns EXCEPT ![c] = v]
    BY <2>2 DEF DropDirty
  <2>4. v \in ConnType /\ v.asked = k.asked /\ v.eof = k.eof /\ v.cut = k.cut /\ v.dirty /\ v.wire = k.wire
    BY <1>1, <2>1 DEF ConnType
  <2> HIDE DEF v
  <2> QED BY <1>2, <2>3, <2>4 DEF ReadConn
<1>3. CASE ~Excess(t, got) /\ Complete(t, got)
  <2> DEFINE v == [k EXCEPT !.occupied = FALSE]
  <2>1. Released(t, c, got) = [conns EXCEPT ![c] = v]
    BY <1>3 DEF Released, Drop
  <2>2. v \in ConnType /\ v.asked = k.asked /\ v.eof = k.eof /\ v.cut = k.cut /\ v.dirty = k.dirty /\ v.wire = k.wire
    BY <1>1 DEF ConnType
  <2> HIDE DEF v
  <2> QED BY <1>3, <2>1, <2>2 DEF ReadConn
<1>4. CASE ~Excess(t, got) /\ ~Complete(t, got)
  <2>1. Released(t, c, got) = conns
    BY <1>4 DEF Released
  <2>2. conns = [conns EXCEPT ![c] = k]
    BY SMTT(30)
  <2> QED BY <1>1, <1>4, <2>1, <2>2 DEF ReadConn
<1> QED BY <1>2, <1>3, <1>4

\* What was kept of the read of the head is decoded.
LEMMA StepDataPre ==
  ASSUME CardFacts, Sensible, IInv, NEW t \in Threads, data_pre(t)
  PROVE  IInv'
<1>1. UserInv(t) /\ call \in [Threads -> CallType] /\ conns \in Seq(ConnType) /\ misled = FALSE /\ call[t] \in CallType
  BY OfThread
<1>2. call[t].pc = "body" /\ UNCHANGED <<plan, list, lock, misled>>
  BY DEF data_pre
<1>3. PICK n \in 1..Len(call[t].pre) : \E got \in {SubSeq(call[t].pre, 1, n)} :
        /\ call' = [Decoded(t, got) EXCEPT ![t].pre = SubSeq(Decoded(t, got)[t].pre, n + 1, Len(Decoded(t, got)[t].pre))]
        /\ conns' = Released(t, call[t].conn, got)
  BY DEF data_pre
<1>4. PICK got : got = SubSeq(call[t].pre, 1, n)
  OBVIOUS
<1>5. /\ call' = [Decoded(t, got) EXCEPT ![t].pre = SubSeq(Decoded(t, got)[t].pre, n + 1, Len(Decoded(t, got)[t].pre))]
      /\ conns' = Released(t, call[t].conn, got)
  BY <1>3, <1>4
<1>6. PICK c : c = call[t].conn
  OBVIOUS
<1>7. /\ call[t].conn # 0 /\ c \in 1..Len(conns) /\ conns[c] \in ConnType /\ ConnOK(conns[c])
      /\ BodyOK(call[t], conns[c], Me(t))
  BY <1>1, <1>2, <1>6, OfUser DEF UserInv, UserOK
<1>8. PICK v \in ConnType : /\ Released(t, c, got) = [conns EXCEPT ![c] = v]
                            /\ ReadConn(t, got, conns[c], v) /\ v.wire = conns[c].wire
  <2>1. t \in Threads /\ conns \in Seq(ConnType) /\ c \in 1..Len(conns)
    BY <1>1, <1>7
  <2> QED BY ONLY <2>1, ReleasedConn, ZenonT(30)
<1> DEFINE p == call[t].pre
           q == SubSeq(p, n + 1, Len(p))
<1>9. q \in Seq(Cells) /\ got \in Seq(Cells)
  <2>1. p \in Seq(Cells) /\ n \in 1..Len(p) /\ got = SubSeq(p, 1, n)
    BY <1>1, <1>4, CallFields
  <2> HIDE DEF p
  <2>2. n \in 0..Len(p)
    BY ONLY <2>1, SMTT(30)
  <2> QED BY <2>1, <2>2, Prefix, Suffix
<1> DEFINE x == [call[t] EXCEPT !.pre = q]
<1>10. x \in CallType /\ x.pre = q
  BY <1>1, <1>9 DEF CallType
<1>10a. PICK a \in CallType, k \in ConnType : a = call[t] /\ k = conns[c]
  BY <1>1, <1>7
<1>10b. n \in 1..Len(a.pre) /\ got = SubSeq(a.pre, 1, n)
  BY <1>4, <1>10a
<1>11. Front(got, Unread(call[t], conns[c]))
  <2>1. PICK y \in CallType : y.pre = SubSeq(a.pre, n + 1, Len(a.pre))
    BY <1>10, <1>10a
  <2>2. Front(got, Unread(a, k))
    <3>1. a \in CallType /\ k \in ConnType /\ y \in CallType /\ k.wire = k.wire
      OBVIOUS
    <3> QED BY ONLY <1>10b, <2>1, <3>1, SplitPre, ZenonT(30)
  <2> QED BY <1>10a, <2>2
<1>12. ~Excess(t, got) /\ call[t].framing = "length" => call[t].left - Len(got) \in Nat
  BY <1>1, <1>7, <1>9, <1>11, BodyRead
<1> DEFINE D == Decoded(t, got)
<1>13. /\ D \in [Threads -> CallType] /\ D[t].pre = p
       /\ \A u \in Threads : u # t => D[u] = call[u]
       /\ ReadCall(t, got, call[t], D[t])
  BY <1>1, <1>9, <1>12, DecodedCall
<1>14. call' = [D EXCEPT ![t].pre = q]
  BY <1>5, <1>13
<1> HIDE DEF D, q, x
<1>15. /\ call' \in [Threads -> CallType] /\ \A u \in Threads : u # t => call'[u] = call[u]
       /\ call'[t].pre = q
       /\ call'[t].n = D[t].n /\ call'[t].framing = D[t].framing /\ call'[t].pc = D[t].pc /\ call'[t].conn = D[t].conn
       /\ call'[t].body = D[t].body /\ call'[t].left = D[t].left
  <2>1. call' = [D EXCEPT ![t] = [D[t] EXCEPT !.pre = q]]
    BY <1>14
  <2>2. D[t] \in CallType
    BY <1>13
  <2>3. [D[t] EXCEPT !.pre = q] \in CallType
    BY <1>9, <2>2 DEF CallType
  <2>4. call' \in [Threads -> CallType] /\ \A u \in Threads : u # t => call'[u] = call[u]
    BY <1>13, <2>1, <2>3
  <2>5. call'[t] = [D[t] EXCEPT !.pre = q]
    BY <1>13, <2>1
  <2> QED BY <2>2, <2>4, <2>5 DEF CallType
<1>16. ReadCall(t, got, call[t], call'[t])
  BY <1>13, <1>15 DEF ReadCall
<1>17. Behind(Unread(call'[t], v), Unread(call[t], conns[c]), Len(got))
  <2>1. call'[t] \in CallType /\ call'[t].pre = SubSeq(call[t].pre, n + 1, Len(call[t].pre))
    BY <1>15 DEF q
  <2>2. PICK y \in CallType : y = call'[t]
    BY <2>1
  <2>3. /\ y.pre = SubSeq(a.pre, n + 1, Len(a.pre)) /\ v.wire = k.wire
        /\ a \in CallType /\ k \in ConnType /\ y \in CallType /\ v \in ConnType
    BY <1>8, <1>10a, <2>1, <2>2
  <2>4. Behind(Unread(y, v), Unread(a, k), Len(got))
    BY ONLY <1>10b, <2>3, SplitPre
  <2> QED BY <1>10a, <2>2, <2>4
<1>18. Aligned(v.wire, v.eof)
  BY <1>7, <1>8 DEF ReadConn, ConnOK
<1>19. conns' = [conns EXCEPT ![c] = v] /\ misled' = FALSE /\ UNCHANGED <<plan, list, lock>>
  BY <1>1, <1>2, <1>5, <1>6, <1>8
<1> QED BY <1>2, <1>6, <1>8, <1>9, <1>11, <1>15, <1>16, <1>17, <1>18, <1>19, ReadStep

\* Cells of the body are read from the connection: on a clean one they are of
\* the call.
LEMMA StepData ==
  ASSUME CardFacts, Sensible, IInv, NEW t \in Threads, data(t)
  PROVE  IInv'
<1>1. UserInv(t) /\ call \in [Threads -> CallType] /\ conns \in Seq(ConnType) /\ misled = FALSE /\ call[t] \in CallType
  BY OfThread
<1>2. call[t].pc = "body" /\ call[t].pre = <<>> /\ UNCHANGED <<plan, list, lock>>
  BY DEF data
<1>3. PICK c : c = call[t].conn /\ \E n \in 1..Len(conns[c].wire) : \E got \in {SubSeq(conns[c].wire, 1, n)} :
        /\ misled' = (misled \/ NotMine(t, c, got))
        /\ call' = Decoded(t, got)
        /\ conns' = [Released(t, c, got) EXCEPT
                       ![c].wire = SubSeq(Released(t, c, got)[c].wire, n + 1, Len(Released(t, c, got)[c].wire))]
  BY DEF data
<1>4. PICK n \in 1..Len(conns[c].wire) : \E got \in {SubSeq(conns[c].wire, 1, n)} :
        /\ misled' = (misled \/ NotMine(t, c, got))
        /\ call' = Decoded(t, got)
        /\ conns' = [Released(t, c, got) EXCEPT
                       ![c].wire = SubSeq(Released(t, c, got)[c].wire, n + 1, Len(Released(t, c, got)[c].wire))]
  BY <1>3
<1>5. PICK got : got = SubSeq(conns[c].wire, 1, n)
  OBVIOUS
<1>6. /\ misled' = (misled \/ NotMine(t, c, got))
      /\ call' = Decoded(t, got)
      /\ conns' = [Released(t, c, got) EXCEPT
                     ![c].wire = SubSeq(Released(t, c, got)[c].wire, n + 1, Len(Released(t, c, got)[c].wire))]
  BY <1>4, <1>5
<1>7. /\ call[t].conn # 0 /\ c = call[t].conn /\ c \in 1..Len(conns) /\ conns[c] \in ConnType /\ ConnOK(conns[c])
      /\ BodyOK(call[t], conns[c], Me(t))
  <2>1. call[t].conn # 0 /\ c = call[t].conn
    BY <1>1, <1>2, <1>3 DEF UserInv
  <2>2. c \in 1..Len(conns) /\ conns[c] \in ConnType /\ ConnOK(conns[c]) /\ UserOK(call[t], conns[c], Me(t))
    BY <2>1, OfUser
  <2> QED BY <1>2, <2>1, <2>2 DEF UserOK
<1>8. PICK v \in ConnType : /\ Released(t, c, got) = [conns EXCEPT ![c] = v]
                            /\ ReadConn(t, got, conns[c], v) /\ v.wire = conns[c].wire
  <2>1. t \in Threads /\ conns \in Seq(ConnType) /\ c \in 1..Len(conns)
    BY <1>1, <1>7
  <2> QED BY ONLY <2>1, ReleasedConn, ZenonT(30)
<1>9. PICK a \in CallType, k \in ConnType : a = call[t] /\ k = conns[c]
  BY <1>1, <1>7
<1>10. /\ n \in 1..Len(k.wire) /\ got = SubSeq(k.wire, 1, n) /\ a.pre = <<>> /\ k.wire \in Seq(Cells)
       /\ n \in 0..Len(k.wire)
  <2>1. n \in 1..Len(k.wire) /\ got = SubSeq(k.wire, 1, n) /\ a.pre = <<>> /\ k.wire \in Seq(Cells)
    BY <1>2, <1>5, <1>9, UnreadCells
  <2> QED BY ONLY <2>1, SMTT(30)
<1> DEFINE q == SubSeq(k.wire, n + 1, Len(k.wire))
           j == [v EXCEPT !.wire = q]
<1>11. q \in Seq(Cells)
  BY ONLY <1>10, Suffix, SMTT(30)
<1>12. /\ j \in ConnType /\ j.wire = q /\ j.asked = v.asked /\ j.eof = v.eof /\ j.cut = v.cut
       /\ j.dirty = v.dirty /\ j.occupied = v.occupied
  BY <1>11 DEF ConnType
<1>13. conns' = [conns EXCEPT ![c] = j]
  <2>1. [conns EXCEPT ![c] = v][c] = v
    BY ONLY <1>1, <1>7, SMTT(30)
  <2>2. conns' = [[conns EXCEPT ![c] = v] EXCEPT ![c].wire = q]
    BY <1>6, <1>8, <1>9, <2>1
  <2>3. conns' = [[conns EXCEPT ![c] = v] EXCEPT ![c] = j]
    BY <2>1, <2>2
  <2> QED BY <2>3
<1> HIDE DEF j
<1>14. Aligned(j.wire, j.eof)
  <2>1. Aligned(k.wire, k.eof) /\ j.eof = k.eof /\ k.eof \in BOOLEAN
    BY <1>7, <1>8, <1>9, <1>12 DEF ReadConn, ConnOK, ConnType
  <2> QED BY <1>10, <1>12, <2>1, AlignedSuffix
<1>15. ReadConn(t, got, k, j)
  BY <1>8, <1>9, <1>12 DEF ReadConn
<1>15a. got \in Seq(Cells) /\ Front(got, k.wire) /\ Behind(q, k.wire, Len(got))
  <2>1. /\ SubSeq(k.wire, 1, n) \in Seq(Cells) /\ Len(SubSeq(k.wire, 1, n)) = n
        /\ Front(SubSeq(k.wire, 1, n), k.wire) /\ Behind(SubSeq(k.wire, n + 1, Len(k.wire)), k.wire, n)
    BY <1>10, SplitWire
  <2> QED BY <1>10, <2>1
<1>16. got \in Seq(Cells) /\ Front(got, Unread(a, k))
  BY <1>10, <1>15a, UnreadWire
<1>17. ~Excess(t, got) /\ call[t].framing = "length" => call[t].left - Len(got) \in Nat
  BY <1>1, <1>7, <1>9, <1>16, BodyRead
<1>18. /\ call' \in [Threads -> CallType] /\ call'[t].pre = <<>>
       /\ \A u \in Threads : u # t => call'[u] = call[u]
       /\ ReadCall(t, got, call[t], call'[t])
  BY <1>1, <1>2, <1>6, <1>16, <1>17, DecodedCall
<1>19. Behind(Unread(call'[t], j), Unread(a, k), Len(got))
  <2>1. PICK y \in CallType : y = call'[t]
    BY <1>18
  <2>2. Unread(y, j) = q /\ Unread(a, k) = k.wire
    BY <1>10, <1>12, <1>18, <2>1, UnreadWire
  <2> QED BY <1>15a, <2>1, <2>2
<1>20. misled' = FALSE
  <2> SUFFICES ASSUME ~k.dirty, NEW i \in 1..Len(got), got[i].of # Me(t) PROVE FALSE
    BY <1>1, <1>6, <1>9 DEF NotMine
  <2>1. Mine(Unread(a, k), Me(t))
    BY <1>7, <1>9 DEF BodyOK
  <2>2. got[i] = Unread(a, k)[i] /\ Len(got) \in 1..Len(Unread(a, k)) /\ Len(Unread(a, k)) \in Nat
    BY <1>16, UnreadCells DEF Front
  <2>3. \A l, m \in Nat : m \in 1..l => \A e \in 1..m : e \in 1..l
    BY SMTT(30)
  <2>4. Len(got) \in Nat
    BY <1>16, SMTT(30)
  <2>5. i \in 1..Len(Unread(a, k))
    BY <2>2, <2>3, <2>4
  <2> QED BY <2>1, <2>2, <2>5 DEF Mine
<1>21. Front(got, Unread(call[t], conns[c])) /\ ReadConn(t, got, conns[c], j)
       /\ Behind(Unread(call'[t], j), Unread(call[t], conns[c]), Len(got))
  BY <1>9, <1>15, <1>16, <1>19
<1> QED BY <1>2, <1>7, <1>12, <1>13, <1>14, <1>16, <1>18, <1>20, <1>21, ReadStep

\* A sequence without its first element.
LEMMA Rear ==
  ASSUME NEW S, NEW s \in Seq(S), Len(s) >= 1
  PROVE  Tail(s) \in Seq(S) /\ Len(Tail(s)) = Len(s) - 1 /\ \A i \in 1..Len(s) - 1 : Tail(s)[i] = s[i + 1]
  BY SMTT(30)

\* The places of the cells behind the head, whether kept or on the connection.
LEMMA CountHead ==
  ASSUME NEW l \in Nat, NEW n \in 1..l, NEW p, p = n - 1, NEW q, q = l - n, NEW i \in 1..(p + q)
  PROVE  /\ p \in Nat /\ q \in Nat /\ p + q = l - 1 /\ i + 1 \in 1..l
         /\ i \in 1..p => i + 1 \in 1..n
         /\ i \notin 1..p => i - p \in 1..q /\ i = p + (i - p) /\ n + (i - p) = i + 1
  BY SMTT(30)

\* When n cells of the wire were read with the head, what is kept and what is
\* on the connection are the cells behind the head.
LEMMA UnreadHead ==
  ASSUME NEW k \in ConnType, NEW n \in 1..Len(k.wire), NEW y \in CallType, NEW j \in ConnType,
         y.pre = Tail(SubSeq(k.wire, 1, n)), j.wire = SubSeq(k.wire, n + 1, Len(k.wire))
  PROVE  /\ Len(Unread(y, j)) = Len(k.wire) - 1 /\ Len(k.wire) \in Nat
         /\ \A i \in 1..Len(Unread(y, j)) : i + 1 \in 1..Len(k.wire) /\ Unread(y, j)[i] = k.wire[i + 1]
<1> DEFINE w == k.wire
           g == SubSeq(w, 1, n)
           p == y.pre
           q == j.wire
           r == Unread(y, j)
<1>1. w \in Seq(Cells) /\ Len(w) \in Nat /\ n \in 1..Len(w) /\ p = Tail(g) /\ q = SubSeq(w, n + 1, Len(w))
  BY UnreadCells
<1>2. /\ Len(r) = Len(p) + Len(q)
      /\ \A i \in 1..Len(p) : r[i] = p[i]
      /\ \A i \in 1..Len(q) : r[Len(p) + i] = q[i]
  BY UnreadCells
<1> HIDE DEF w, p, q, r
<1>3. n \in 0..Len(w) /\ n >= 1
  BY ONLY <1>1, SMTT(30)
<1>4. g \in Seq(Cells) /\ Len(g) = n /\ \A i \in 1..n : g[i] = w[i]
  BY <1>1, <1>3, Prefix
<1>5. Len(q) = Len(w) - n /\ \A i \in 1..Len(q) : q[i] = w[n + i]
  BY <1>1, <1>3, Suffix
<1> HIDE DEF g
<1>6. Len(p) = n - 1 /\ \A i \in 1..n - 1 : p[i] = g[i + 1]
  BY <1>1, <1>3, <1>4, Rear
<1>7. ASSUME NEW i \in 1..(Len(p) + Len(q)) PROVE i + 1 \in 1..Len(w) /\ r[i] = w[i + 1]
  <2>1. /\ i + 1 \in 1..Len(w)
        /\ i \in 1..Len(p) => i + 1 \in 1..n
        /\ i \notin 1..Len(p) => i - Len(p) \in 1..Len(q) /\ i = Len(p) + (i - Len(p)) /\ n + (i - Len(p)) = i + 1
    <3>1. Len(w) \in Nat /\ n \in 1..Len(w) /\ Len(p) = n - 1 /\ Len(q) = Len(w) - n /\ i \in 1..(Len(p) + Len(q))
      BY <1>1, <1>5, <1>6
    <3> QED BY ONLY <3>1, CountHead, SMTT(30)
  <2>2. CASE i \in 1..Len(p)
    <3>1. p[i] = g[i + 1] /\ g[i + 1] = w[i + 1]
      BY <1>4, <1>6, <2>1, <2>2
    <3> QED BY <1>2, <2>1, <2>2, <3>1
  <2>3. CASE i \notin 1..Len(p)
    <3>1. PICK d \in 1..Len(q) : i = Len(p) + d /\ n + d = i + 1
      BY <2>1, <2>3
    <3>2. r[i] = q[d] /\ q[d] = w[n + d]
      BY <1>2, <1>5, <3>1
    <3> QED BY <2>1, <3>1, <3>2
  <2> QED BY <2>2, <2>3
<1>8. Len(r) = Len(w) - 1
  <2>1. Len(w) \in Nat /\ n \in 1..Len(w) /\ Len(p) = n - 1 /\ Len(q) = Len(w) - n /\ Len(r) = Len(p) + Len(q)
    BY <1>1, <1>2, <1>5, <1>6
  <2> QED BY ONLY <2>1, SMTT(30)
<1>9. \A i \in 1..Len(r) : i + 1 \in 1..Len(w) /\ r[i] = w[i + 1]
  BY <1>2, <1>7
<1> QED BY <1>1, <1>8, <1>9 DEF w, r

\* The body begins as its head announced it.
LEMMA BodyBegins ==
  ASSUME NEW k \in ConnType, NEW n \in 1..Len(k.wire), NEW y \in CallType, NEW j \in ConnType, NEW who,
         y.pre = Tail(SubSeq(k.wire, 1, n)), j.wire = SubSeq(k.wire, n + 1, Len(k.wire)),
         y.framing = k.wire[1].is, y.framing \in {"zero", "length", "chunk"}, y.left = BodyLeft(y.framing), y.body = 0,
         Aligned(k.wire, k.eof), ~k.dirty => HeadOK(k, who),
         j.eof = k.eof, j.dirty = k.dirty, j.asked = k.asked
  PROVE  BodyOK(y, j, who)
<1> DEFINE w == k.wire
           r == Unread(y, j)
<1>1. /\ Len(r) = Len(w) - 1 /\ Len(w) \in Nat
      /\ \A i \in 1..Len(r) : i + 1 \in 1..Len(w) /\ r[i] = w[i + 1]
  BY UnreadHead
<1> HIDE DEF r
<1>2. Len(w) >= 1 /\ 1 \in 1..Len(w)
  BY <1>1, SMTT(30)
<1>3. w # <<>>
  <2>1. Len(<<>>) = 0 /\ ~(0 >= 1)
    BY SMTT(30)
  <2> QED BY <1>2, <2>1
<1>4. ~k.dirty => k.asked = <<>> /\ Mine(w, who) /\ Len(w) <= IF y.framing \in Bodied THEN 3 ELSE 1
  BY <1>3 DEF HeadOK
<1>5. ~k.dirty => Mine(r, who)
  BY <1>1, <1>4 DEF Mine
<1>6. CASE y.framing = "zero"
  <2>1. Rest(y) = 0 /\ y.left = 0
    BY <1>6, SMTT(30) DEF Rest, BodyLeft
  <2>2. \A i \in 1..Len(r) : ~(i <= 0)
    BY <1>1, <1>2, SMTT(30)
  <2>3. ~k.dirty => Len(r) <= 0
    <3>1. ~k.dirty => Len(w) <= 1
      BY <1>4, <1>6 DEF Bodied
    <3> QED BY ONLY <1>1, <3>1, SMTT(30)
  <2>4. 0 <= Len(r)
    BY ONLY <1>1, <1>2, SMTT(30)
  <2> QED BY <1>4, <1>5, <1>6, <2>1, <2>2, <2>3, <2>4 DEF BodyOK, r
<1>7. CASE y.framing \in {"length", "chunk"}
  <2>1. /\ Rest(y) = 2
        /\ y.framing = "length" => y.body + y.left = 2
        /\ y.framing = "chunk" => y.left = 1
    <3>1. CASE y.framing = "length"
      <4>1. y.left = 2 /\ Rest(y) = y.left
        BY <3>1 DEF Rest, BodyLeft
      <4>2. 0 + 2 = 2 BY SMTT(30)
      <4> QED BY <3>1, <4>1, <4>2
    <3>2. CASE y.framing = "chunk"
      <4>1. y.left = 1 /\ Rest(y) = 2 - y.body
        BY <3>2, SMTT(30) DEF Rest, BodyLeft
      <4>2. 2 - 0 = 2 BY SMTT(30)
      <4> QED BY <3>2, <4>1, <4>2
    <3> QED BY <1>7, <3>1, <3>2
  <2>2. /\ 1 + 1 <= Len(w) => w[1 + 1].is = "b"
        /\ 1 + 2 <= Len(w) => w[1 + 2].is = IF w[1].is = "length" THEN "b" ELSE "z"
        /\ ~k.eof => 1 + 2 <= Len(w)
    BY <1>2, <1>7 DEF Aligned
  <2>3. ASSUME NEW i \in 1..Len(r), i <= 2 PROVE r[i].is = IF y.framing = "chunk" /\ i = 2 THEN "z" ELSE "b"
    <3>1. i = 1 \/ i = 2
      BY <1>1, <2>3, SMTT(30)
    <3>2. CASE i = 1
      <4>1. 1 + 1 <= Len(w) /\ i + 1 = 1 + 1 /\ i # 2
        BY <1>1, <3>2, SMTT(30)
      <4>2. r[i] = w[1 + 1]
        BY <1>1, <2>3, <4>1
      <4> QED BY <2>2, <4>1, <4>2
    <3>3. CASE i = 2
      <4>1. 1 + 2 <= Len(w) /\ i + 1 = 1 + 2
        BY <1>1, <3>3, SMTT(30)
      <4>2. r[i] = w[1 + 2]
        BY <1>1, <2>3, <4>1
      <4> QED BY <1>7, <2>2, <3>3, <4>1, <4>2
    <3> QED BY <3>1, <3>2, <3>3
  <2>4. ~k.eof => 2 <= Len(r)
    BY ONLY <1>1, <2>2, SMTT(30)
  <2>5. ~k.dirty => Len(r) <= 2
    <3>1. ~k.dirty => Len(w) <= 3
      BY <1>4, <1>7 DEF Bodied
    <3> QED BY ONLY <1>1, <3>1, SMTT(30)
  <2>6. /\ \A i \in 1..Len(r) : i <= Rest(y) => r[i].is = IF y.framing = "chunk" /\ i = Rest(y) THEN "z" ELSE "b"
        /\ ~j.eof => Rest(y) <= Len(r)
        /\ ~j.dirty => j.asked = <<>> /\ Len(r) <= Rest(y) /\ Mine(r, who)
    BY <1>4, <1>5, <2>1, <2>3, <2>4, <2>5
  <2>7. y.framing # "zero" /\ y.body \in {0, 1}
    BY <1>7
  <2> QED BY <2>1, <2>6, <2>7 DEF BodyOK, r
<1> QED BY <1>6, <1>7

\* The head of the answer is read, with what is there of the body: on a clean
\* connection it is the answer to this call.
LEMMA StepDecodeHead ==
  ASSUME Sensible, IInv, NEW t \in Threads, decode_head(t)
  PROVE  IInv'
<1>1. UserInv(t) /\ call \in [Threads -> CallType] /\ conns \in Seq(ConnType) /\ misled = FALSE /\ call[t] \in CallType
  BY OfThread
<1>2. call[t].pc = "head" /\ UNCHANGED <<plan, list, lock>>
  BY DEF decode_head
<1> DEFINE Read(c, n, got) ==
             /\ misled' = (misled \/ NotMine(t, c, got))
             /\ IF IsHead(got[1])
                THEN /\ call' = ReadHead(t, got[1].is, Tail(got))
                     /\ conns' = [conns EXCEPT ![c].wire = SubSeq(@, n + 1, Len(@)),
                                               ![c].occupied = got[1].is \notin {"none", "close"},
                                               ![c].dirty = @ \/ got[1].is = "close"]
                ELSE /\ call' = Retried(t)
                     /\ conns' = [DropDirty(c) EXCEPT ![c].wire = SubSeq(@, n + 1, Len(@))]
<1>3. PICK c \in {call[t].conn} : \E n \in 1..Len(conns[c].wire) : \E got \in {SubSeq(conns[c].wire, 1, n)} : Read(c, n, got)
  BY DEF decode_head
<1>4. PICK n \in 1..Len(conns[c].wire) : \E got \in {SubSeq(conns[c].wire, 1, n)} : Read(c, n, got)
  BY <1>3
<1>5. PICK got : got = SubSeq(conns[c].wire, 1, n) /\ Read(c, n, got)
  BY <1>4
<1>6. /\ call[t].conn # 0 /\ c = call[t].conn /\ c \in 1..Len(conns) /\ conns[c] \in ConnType /\ ConnOK(conns[c])
      /\ ~conns[c].dirty => HeadOK(conns[c], Me(t))
      /\ \A u \in Threads : u # t => call[u].conn # c
      /\ c # 0 /\ c \in Nat /\ conns[c].occupied
  BY <1>1, <1>2, OfUser DEF UserInv, UserOK
<1>7. PICK k \in ConnType : k = conns[c]
  BY <1>6
<1>8. /\ n \in 1..Len(k.wire) /\ got = SubSeq(k.wire, 1, n) /\ k.wire \in Seq(Cells) /\ Len(k.wire) \in Nat
  BY <1>1, <1>5, <1>7, UnreadCells
<1>9. n \in 0..Len(k.wire) /\ n >= 1 /\ 1 \in 1..n /\ 1 \in 1..Len(k.wire)
  BY ONLY <1>8, SMTT(30)
<1>10. got \in Seq(Cells) /\ Len(got) = n /\ \A i \in 1..n : got[i] = k.wire[i]
  BY <1>8, <1>9, Prefix
<1>11. got[1] = k.wire[1] /\ got[1].is \in Framings \cup {"b", "z"}
  <2>1. got[1] = k.wire[1]
    BY <1>9, <1>10
  <2>2. k.wire[1] \in Cells
    BY ONLY <1>8, <1>9, SMTT(30)
  <2> QED BY <2>1, <2>2 DEF Cells
<1> DEFINE q == SubSeq(k.wire, n + 1, Len(k.wire))
<1>12. q \in Seq(Cells) /\ Len(q) = Len(k.wire) - n
  BY <1>8, <1>9, Suffix
<1>13. Aligned(k.wire, k.eof) /\ k.eof \in BOOLEAN /\ Aligned(q, k.eof)
  <2>1. Aligned(k.wire, k.eof) /\ k.eof \in BOOLEAN
    BY <1>6, <1>7 DEF ConnOK, ConnType
  <2> QED BY <1>8, <1>9, <2>1, AlignedSuffix
<1>14. k.wire # <<>>
  <2>1. Len(<<>>) = 0 /\ \A i \in 1..0 : FALSE
    BY SMTT(30)
  <2> QED BY <1>8, <2>1
<1>15. ~k.dirty => /\ k.asked = <<>> /\ Mine(k.wire, Me(t)) /\ ~k.cut
                   /\ Len(k.wire) <= IF k.wire[1].is \in Bodied THEN 3 ELSE 1
  BY <1>6, <1>7, <1>14 DEF HeadOK, ConnOK
<1>16. misled' = FALSE
  <2> SUFFICES ASSUME ~k.dirty, NEW i \in 1..Len(got), got[i].of # Me(t) PROVE FALSE
    BY <1>1, <1>5, <1>7 DEF NotMine
  <2>1. i \in 1..Len(k.wire)
    BY ONLY <1>8, <1>10, i \in 1..Len(got), SMTT(30)
  <2>2. got[i] = k.wire[i]
    BY <1>10
  <2> QED BY <1>15, <2>1, <2>2 DEF Mine
<1>17. /\ call[t].pc \in {"write", "head", "body"} /\ UNCHANGED <<plan, list, lock>> /\ lock # t /\ call[t].n # 0
       /\ call[t].body = 0 /\ call[t].framing = "none"
  BY <1>1, <1>2 DEF UserInv
<1>18. CASE ~IsHead(got[1])
  <2> DEFINE v == [k EXCEPT !.occupied = FALSE, !.dirty = TRUE, !.wire = q]
  <2>1. call' = Retried(t) /\ conns' = [DropDirty(c) EXCEPT ![c].wire = SubSeq(DropDirty(c)[c].wire, n + 1, Len(DropDirty(c)[c].wire))]
    BY <1>5, <1>18
  <2>2. conns' = [conns EXCEPT ![c] = v]
    <3> DEFINE d == [k EXCEPT !.occupied = FALSE, !.dirty = TRUE]
    <3>1. DropDirty(c) = [conns EXCEPT ![c] = d]
      BY <1>7 DEF DropDirty
    <3>2. d.wire = k.wire
      BY DEF ConnType
    <3>3. v = [d EXCEPT !.wire = q]
      OBVIOUS
    <3> HIDE DEF d, v
    <3>4. [conns EXCEPT ![c] = d][c] = d
      BY ONLY <1>1, <1>6, SMTT(30)
    <3>5. conns' = [[conns EXCEPT ![c] = d] EXCEPT ![c].wire = q]
      BY <2>1, <3>1, <3>2, <3>4
    <3>6. conns' = [[conns EXCEPT ![c] = d] EXCEPT ![c] = v]
      BY <3>3, <3>4, <3>5
    <3> QED BY <3>6
  <2>3. v \in ConnType /\ v.asked = k.asked /\ v.wire = q /\ v.eof = k.eof /\ v.dirty
    BY <1>12 DEF ConnType
  <2> HIDE DEF v
  <2>4. ConnOK(v)
    BY <1>13, <2>3 DEF ConnOK
  <2>5. /\ call' \in [Threads -> CallType] /\ \A u \in Threads : u # t => call'[u] = call[u]
        /\ call'[t].pc \in {"lock", "failed"} /\ call'[t].conn = 0
        /\ call'[t].n = call[t].n /\ call'[t].body = call[t].body /\ call'[t].framing = call[t].framing
    BY <1>1, <2>1, RetriedCall
  <2> QED BY <1>6, <1>7, <1>16, <1>17, <2>2, <2>3, <2>4, <2>5, LetGo
<1>19. CASE IsHead(got[1])
  <2> DEFINE f == got[1].is
             o == f \notin {"none", "close"}
             g == k.dirty \/ f = "close"
             v == [k EXCEPT !.wire = q, !.occupied = o, !.dirty = g]
  <2>1. /\ call' = ReadHead(t, f, Tail(got))
        /\ conns' = [conns EXCEPT ![c].wire = SubSeq(conns[c].wire, n + 1, Len(conns[c].wire)), ![c].occupied = o,
                                 ![c].dirty = conns[c].dirty \/ f = "close"]
    BY <1>5, <1>19
  <2>2. f \in Framings /\ f = k.wire[1].is
    BY <1>11, <1>19 DEF IsHead
  <2> HIDE DEF f
  <2>3. conns' = [conns EXCEPT ![c] = v]
    BY <1>6, <1>7, <2>1
  <2>4. /\ v \in ConnType /\ v.asked = k.asked /\ v.wire = q /\ v.eof = k.eof /\ v.dirty = g /\ v.cut = k.cut
        /\ v.occupied = o
    BY <1>12 DEF ConnType
  <2> HIDE DEF v
  <2>5. CASE f \in {"none", "close"}
    <3>1. ~g => v.wire = <<>>
      <4>1. ~g => Len(k.wire) <= 1
        BY <1>15, <2>2, <2>5 DEF Bodied
      <4>2. ~g => Len(q) = 0
        <5>1. Len(q) = Len(k.wire) - n /\ n \in 1..Len(k.wire) /\ Len(k.wire) \in Nat
          BY <1>8, <1>12
        <5> QED BY ONLY <4>1, <5>1, SMTT(30)
      <4>3. \A z \in Seq(Cells) : Len(z) = 0 => z = <<>>
        BY SMTT(30)
      <4> HIDE DEF q
      <4> QED BY <1>12, <2>4, <4>2, <4>3
    <3>2. ConnOK(v)
      <4> HIDE DEF q
      <4>1. Aligned(v.wire, v.eof)
        BY <1>13, <2>4
      <4>2. ~v.dirty => ~v.cut /\ v.wire = <<>> /\ v.asked = <<>>
        BY <1>15, <2>4, <3>1
      <4> QED BY <4>1, <4>2 DEF ConnOK
    <3>3. CASE Tail(got) = <<>>
      <4>1. call' = [call EXCEPT ![t].pc = "done", ![t].conn = 0]
        BY <2>1, <2>5, <3>3 DEF ReadHead
      <4>2. "done" \in Places /\ 0 \in Nat /\ BodyLeft("none") = 0 /\ 0 >= 0
        BY SMTT(30) DEF Places, BodyLeft
      <4>3. /\ call' \in [Threads -> CallType] /\ \A u \in Threads : u # t => call'[u] = call[u]
            /\ call'[t].pc = "done" /\ call'[t].conn = 0 /\ call'[t].n = call[t].n
            /\ call'[t].body = call[t].body /\ call'[t].framing = call[t].framing
        BY <1>1, <4>1, <4>2 DEF CallType
      <4>4. call'[t].body >= BodyLeft(call'[t].framing)
        BY <1>17, <4>2, <4>3
      <4> QED BY <1>6, <1>7, <1>16, <1>17, <2>3, <2>4, <3>2, <4>3, <4>4, LetGo
    <3>4. CASE Tail(got) # <<>>
      <4>1. call' = Retried(t)
        BY <2>1, <2>5, <3>4 DEF ReadHead
      <4>2. /\ call' \in [Threads -> CallType] /\ \A u \in Threads : u # t => call'[u] = call[u]
            /\ call'[t].pc \in {"lock", "failed"} /\ call'[t].conn = 0
            /\ call'[t].n = call[t].n /\ call'[t].body = call[t].body /\ call'[t].framing = call[t].framing
        BY <1>1, <4>1, RetriedCall
      <4> QED BY <1>6, <1>7, <1>16, <1>17, <2>3, <2>4, <3>2, <4>2, LetGo
    <3> QED BY <3>3, <3>4
  <2>6. CASE f \notin {"none", "close"}
    <3> DEFINE p == Tail(got)
               l == BodyLeft(f)
               y == [call[t] EXCEPT !.pc = "body", !.framing = f, !.left = l, !.pre = p]
    <3>1. call' = [call EXCEPT ![t].pc = "body", ![t].framing = f, ![t].left = l, ![t].pre = p]
      BY <2>1, <2>6 DEF ReadHead
    <3>2. p \in Seq(Cells)
      BY <1>9, <1>10, Rear
    <3>3. l \in Nat /\ "body" \in Places
      <4>1. l \in {0, 1, 2}
        BY DEF BodyLeft
      <4> QED BY <4>1, SMTT(30) DEF Places
    <3> HIDE DEF p, l
    <3>4. call' = [call EXCEPT ![t] = y]
      BY <3>1
    <3>5. y \in CallType
      BY <1>1, <2>2, <3>2, <3>3 DEF CallType
    <3>6. /\ y.pc = "body" /\ y.framing = f /\ y.left = l /\ y.pre = p /\ y.conn = call[t].conn /\ y.n = call[t].n
          /\ y.body = call[t].body
      BY <1>1 DEF CallType
    <3> HIDE DEF y
    <3>7. call' \in [Threads -> CallType] /\ call'[t] = y /\ \A u \in Threads : u # t => call'[u] = call[u]
      BY <1>1, <3>4, <3>5
    <3>8. BodyOK(y, v, Me(t))
      <4>1. /\ n \in 1..Len(k.wire) /\ y.pre = Tail(SubSeq(k.wire, 1, n))
            /\ v.wire = SubSeq(k.wire, n + 1, Len(k.wire)) /\ y.framing = k.wire[1].is
            /\ y.framing \in {"zero", "length", "chunk"} /\ y.left = BodyLeft(y.framing) /\ y.body = 0
            /\ Aligned(k.wire, k.eof) /\ (~k.dirty => HeadOK(k, Me(t)))
            /\ v.eof = k.eof /\ v.dirty = k.dirty /\ v.asked = k.asked
        BY <1>6, <1>7, <1>8, <1>13, <1>17, <2>2, <2>4, <2>6, <3>6 DEF Framings, ConnType, l, p
      <4>2. k \in ConnType /\ y \in CallType /\ v \in ConnType
        BY <2>4, <3>5
      <4> QED BY ONLY <4>1, <4>2, BodyBegins
    <3>9. ConnOK(v)
      <4> HIDE DEF q
      <4> QED BY <1>13, <1>15, <2>4, <2>6 DEF ConnOK
    <3>10. Len(conns') = Len(conns) /\ conns'[c] = v
      <4>1. conns' = [conns EXCEPT ![c] = v] /\ c \in 1..Len(conns) /\ v \in ConnType /\ conns \in Seq(ConnType)
        BY <1>1, <1>6, <2>3, <2>4
      <4> QED BY ONLY <4>1, Touch
    <3>11. UserOK(call'[t], v, Me(t)')
      BY <3>6, <3>7, <3>8 DEF UserOK, Me
    <3>12. UserInv(t)'
      BY <1>1, <1>2, <1>6, <1>17, <2>4, <2>6, <3>6, <3>7, <3>10, <3>11 DEF UserInv
    <3>13. call'[t].conn \in {0, c} /\ v.asked = conns[c].asked
      BY <1>6, <1>7, <2>4, <3>6, <3>7
    <3> QED BY <1>6, <1>16, <1>17, <2>3, <2>4, <3>7, <3>9, <3>12, <3>13, ConnStep
  <2> QED BY <2>5, <2>6
<1> QED BY <1>18, <1>19

\* Where the cells of two connections agree, so does what a call has to read.
LEMMA UnreadAgree ==
  ASSUME NEW x \in CallType, NEW k \in ConnType, NEW v \in ConnType,
         \A i \in 1..Len(k.wire) : i \in 1..Len(v.wire) => v.wire[i] = k.wire[i]
  PROVE  /\ \A i \in 1..Len(Unread(x, k)) : i \in 1..Len(Unread(x, v)) => Unread(x, v)[i] = Unread(x, k)[i]
         /\ Len(k.wire) <= Len(v.wire) => Len(Unread(x, k)) <= Len(Unread(x, v))
         /\ Len(v.wire) <= Len(k.wire) => Len(Unread(x, v)) <= Len(Unread(x, k))
<1> DEFINE r == Unread(x, k)
           s == Unread(x, v)
           p == x.pre
           w == k.wire
           z == v.wire
<1>1. /\ Len(p) \in Nat /\ Len(w) \in Nat /\ Len(r) = Len(p) + Len(w)
      /\ \A i \in 1..Len(p) : r[i] = p[i]
      /\ \A i \in 1..Len(w) : r[Len(p) + i] = w[i]
  BY UnreadCells
<1>2. /\ Len(z) \in Nat /\ Len(s) = Len(p) + Len(z)
      /\ \A i \in 1..Len(p) : s[i] = p[i]
      /\ \A i \in 1..Len(z) : s[Len(p) + i] = z[i]
  BY UnreadCells
<1>3. \A i \in 1..Len(w) : i \in 1..Len(z) => z[i] = w[i]
  OBVIOUS
<1> HIDE DEF r, s, p, w, z
<1>4. ASSUME NEW i \in 1..Len(r), i \in 1..Len(s) PROVE s[i] = r[i]
  <2>1. CASE i \in 1..Len(p)
    BY <1>1, <1>2, <2>1
  <2>2. CASE i \notin 1..Len(p)
    <3>1. PICK d \in 1..Len(w) : i = Len(p) + d /\ d \in 1..Len(z)
      <4>1. i - Len(p) \in 1..Len(w) /\ i = Len(p) + (i - Len(p)) /\ i - Len(p) \in 1..Len(z)
        <5>1. /\ Len(p) \in Nat /\ Len(w) \in Nat /\ Len(r) = Len(p) + Len(w) /\ Len(z) \in Nat /\ Len(s) = Len(p) + Len(z)
              /\ i \in 1..Len(r) /\ i \in 1..Len(s) /\ i \notin 1..Len(p)
          BY <1>1, <1>2, <1>4, <2>2
        <5> QED BY ONLY <5>1, SMTT(30)
      <4> QED BY <4>1
    <3>2. r[i] = w[d] /\ s[i] = z[d] /\ z[d] = w[d]
      BY <1>1, <1>2, <1>3, <3>1
    <3> QED BY <3>2
  <2> QED BY <2>1, <2>2
<1>5. /\ Len(w) <= Len(z) => Len(r) <= Len(s)
      /\ Len(z) <= Len(w) => Len(s) <= Len(r)
  <2>1. Len(p) \in Nat /\ Len(w) \in Nat /\ Len(r) = Len(p) + Len(w) /\ Len(z) \in Nat /\ Len(s) = Len(p) + Len(z)
    BY <1>1, <1>2
  <2> QED BY ONLY <2>1, SMTT(30)
<1> QED BY <1>4, <1>5 DEF r, s, w, z

\* The server answers: behind everything on the connection, and on a clean one
\* to the call that waits for its head.
LEMMA StepAnswer ==
  ASSUME Sensible, IInv, NEW c \in 1..Len(conns), Answer(c)
  PROVE  IInv'
<1>1. /\ conns \in Seq(ConnType) /\ call \in [Threads -> CallType] /\ plan \in [Threads -> Seq(Framings)]
      /\ WireInv(c)
  BY DEF IInv, TypeOK
<1>2. conns[c].asked # <<>> /\ ~conns[c].eof /\ UNCHANGED <<plan, call, list, lock, misled>>
  BY DEF Answer
<1>3. PICK k \in ConnType : k = conns[c]
  <2>1. conns[c] \in ConnType
    BY ONLY <1>1, c \in 1..Len(conns), SMTT(30)
  <2> QED BY <2>1
<1>4. k.asked \in Seq(Calls) /\ k.wire \in Seq(Cells) /\ k.asked # <<>> /\ ~k.eof
  BY <1>2, <1>3 DEF ConnType
<1>5. /\ Len(k.asked) \in Nat /\ Len(k.asked) >= 1 /\ 1 \in 1..Len(k.asked) /\ Head(k.asked) = k.asked[1]
      /\ k.asked[1] \in Calls
  BY ONLY <1>4, SMTT(30)
<1>6. PICK of \in Calls : of = Head(k.asked)
  BY <1>5
<1> DEFINE f == plan[of[1]][of[2]]
<1>7. f \in Framings
  <2>1. of[2] \in 1..Len(plan[of[1]])
    BY <1>1, <1>3, <1>5, <1>6 DEF WireInv
  <2>2. of[1] \in Threads
    BY DEF Calls
  <2>3. plan[of[1]] \in Seq(Framings)
    BY <1>1, <2>2
  <2> QED BY ONLY <2>1, <2>3, SMTT(30)
<1> HIDE DEF f
<1> DEFINE z == Reply(of, f)
           e == f = "close"
           a == IF e THEN <<>> ELSE Tail(k.asked)
           w == k.wire \o z
           v == [k EXCEPT !.asked = a, !.eof = e, !.wire = w]
<1>8. z \in Seq(Cells) /\ Mine(z, of) /\ Aligned(z, FALSE) /\ z[1].is = f /\ Len(z) = IF f \in Bodied THEN 3 ELSE 1
  BY <1>7, ReplyCells
<1>9. conns' = [conns EXCEPT ![c] = v]
  <2>1. conns' = [conns EXCEPT ![c].asked = a, ![c].eof = e, ![c].wire = w]
    BY <1>3, <1>6 DEF Answer, f
  <2> HIDE DEF a, e, w
  <2> QED BY <1>3, <2>1
<1> HIDE DEF z
<1>10. a \in Seq(Calls) /\ \A i \in 1..Len(a) : i + 1 \in 1..Len(k.asked) /\ a[i] = k.asked[i + 1]
  <2> DEFINE b == Tail(k.asked)
  <2>1. b \in Seq(Calls) /\ Len(b) = Len(k.asked) - 1 /\ \A i \in 1..Len(k.asked) - 1 : b[i] = k.asked[i + 1]
    BY <1>4, <1>5, Rear
  <2>2. \A i \in 1..Len(b) : i \in 1..Len(k.asked) - 1 /\ i + 1 \in 1..Len(k.asked)
    <3>1. Len(b) = Len(k.asked) - 1 /\ Len(k.asked) \in Nat
      BY <1>5, <2>1
    <3> QED BY ONLY <3>1, SMTT(30)
  <2>3. <<>> \in Seq(Calls) /\ \A i \in 1..Len(<<>>) : FALSE
    BY SMTT(30)
  <2> HIDE DEF b
  <2>4. a = <<>> \/ a = b
    BY DEF b
  <2> HIDE DEF a
  <2> QED BY <2>1, <2>2, <2>3, <2>4
<1>11. /\ w \in Seq(Cells) /\ Len(w) = Len(k.wire) + Len(z) /\ Len(k.wire) \in Nat /\ Len(z) \in Nat
       /\ \A i \in 1..Len(k.wire) : w[i] = k.wire[i]
  <2>1. /\ w \in Seq(Cells) /\ Len(w) = Len(k.wire) + Len(z) /\ \A i \in 1..Len(k.wire) : w[i] = k.wire[i]
    <3>1. PICK u \in Seq(Cells) : u = k.wire
      BY <1>4
    <3>2. u \in Seq(Cells) /\ z \in Seq(Cells)
      BY <1>8
    <3>3. /\ u \o z \in Seq(Cells) /\ Len(u \o z) = Len(u) + Len(z) /\ \A i \in 1..Len(u) : (u \o z)[i] = u[i]
      BY ONLY <3>2, Concat, SMTT(30)
    <3> QED BY <3>1, <3>3
  <2>2. Len(k.wire) \in Nat /\ Len(z) \in Nat
    BY ONLY <1>4, <1>8, SMTT(30)
  <2> QED BY <2>1, <2>2
<1>12. k.wire = <<>> => w = z
  <2>1. <<>> \o z = z
    BY ONLY <1>8, SMTT(30)
  <2> QED BY <2>1
<1>13. ConnOK(k) /\ Aligned(k.wire, FALSE) /\ k.eof = FALSE
  BY <1>1, <1>3, <1>4 DEF WireInv, ConnOK, ConnType
<1>14. Aligned(w, FALSE)
  BY <1>4, <1>8, <1>13, AlignedConcat
<1> HIDE DEF a, w
<1>15. /\ v \in ConnType /\ v.asked = a /\ v.wire = w /\ v.eof = e /\ v.dirty = k.dirty /\ v.cut = k.cut
       /\ v.occupied = k.occupied
  BY <1>10, <1>11 DEF ConnType
<1> HIDE DEF v
<1>16. ConnOK(v)
  <2>1. Aligned(v.wire, v.eof)
    BY <1>11, <1>14, <1>15, AlignedEnd
  <2> QED BY <1>4, <1>13, <1>15, <2>1 DEF ConnOK
<1>17. /\ conns' \in Seq(ConnType) /\ Len(conns') = Len(conns) /\ conns'[c] = v
       /\ \A d \in 1..Len(conns) : d # c => conns'[d] = conns[d]
  BY <1>1, <1>9, <1>15, Touch
<1>18. WireInv(c)'
  <2>1. \A i \in 1..Len(a) : a[i][2] \in 1..Len(plan[a[i][1]])
    BY <1>1, <1>3, <1>10 DEF WireInv
  <2> QED BY <1>2, <1>15, <1>16, <1>17, <2>1 DEF WireInv
<1>19. ASSUME NEW t \in Threads, call[t].conn = c PROVE UserOK(call[t], v, Me(t))
  <2>1. c # 0 /\ call[t] \in CallType
    <3>1. 0 \notin 1..Len(conns)
      BY ONLY <1>1, SMTT(30)
    <3> QED BY <1>1, <3>1
  <2>2. UserOK(call[t], k, Me(t))
    BY <1>3, <1>19, <2>1, OfUser
  <2>3. call[t].pc \in {"scan", "write"} => v.dirty
    BY <1>4, <1>15, <2>2 DEF UserOK
  <2>4. ASSUME call[t].pc = "head", ~v.dirty PROVE HeadOK(v, Me(t))
    <3>1. k.asked = <<Me(t)>> /\ k.wire = <<>>
      BY <1>4, <1>15, <2>2, <2>4 DEF UserOK, HeadOK
    <3>2. Len(<<Me(t)>>) = 1 /\ <<Me(t)>>[1] = Me(t) /\ Tail(<<Me(t)>>) = <<>>
      BY SMTT(30)
    <3>3. of = Me(t) /\ v.asked = <<>>
      BY <1>5, <1>6, <1>15, <3>1, <3>2 DEF a
    <3>4. v.wire = z
      BY <1>12, <1>15, <3>1
    <3>5. 3 <= 3 /\ 1 <= 1
      BY SMTT(30)
    <3> QED BY <1>7, <1>8, <3>3, <3>4, <3>5 DEF HeadOK
  <2>5. ASSUME call[t].pc = "body" PROVE BodyOK(call[t], v, Me(t))
    <3> DEFINE x == call[t]
               r == Unread(x, k)
               s == Unread(x, v)
    <3>1. BodyOK(x, k, Me(t))
      BY <2>2, <2>5 DEF UserOK
    <3>2. v.dirty /\ Rest(x) <= Len(r)
      BY <1>4, <1>15, <3>1 DEF BodyOK
    <3>3. /\ \A i \in 1..Len(k.wire) : i \in 1..Len(v.wire) => v.wire[i] = k.wire[i]
          /\ Len(k.wire) <= Len(v.wire)
      <4>1. Len(k.wire) <= Len(w)
        <5>1. Len(w) = Len(k.wire) + Len(z) /\ Len(k.wire) \in Nat /\ Len(z) \in Nat
          BY <1>11
        <5> QED BY ONLY <5>1, SMTT(30)
      <4> QED BY <1>11, <1>15, <4>1
    <3>4. /\ \A i \in 1..Len(r) : i \in 1..Len(s) => s[i] = r[i]
          /\ Len(r) <= Len(s)
      BY <1>15, <2>1, <3>3, UnreadAgree
    <3>5. Len(r) \in Nat /\ Len(s) \in Nat /\ Rest(x) \in Int
      <4>1. x.framing \in {"zero", "length", "chunk"} /\ x.left \in Nat /\ x.body \in Nat
        BY <2>1, <3>1, CallFields DEF BodyOK
      <4>2. Rest(x) \in Int
        BY ONLY <4>1, SMTT(30) DEF Rest
      <4> QED BY <1>15, <2>1, <4>2, UnreadCells
    <3> HIDE DEF r, s
    <3>6. Rest(x) <= Len(s) /\ \A i \in 1..Len(s) : i <= Rest(x) => i \in 1..Len(r)
      <4>1. Rest(x) <= Len(r) /\ Len(r) <= Len(s) /\ Len(r) \in Nat /\ Len(s) \in Nat /\ Rest(x) \in Int
        BY <3>2, <3>4, <3>5
      <4> HIDE DEF x
      <4> QED BY ONLY <4>1, SMTT(30)
    <3>7. \A i \in 1..Len(s) : i <= Rest(x) => s[i].is = IF x.framing = "chunk" /\ i = Rest(x) THEN "z" ELSE "b"
      <4> SUFFICES ASSUME NEW i \in 1..Len(s), i <= Rest(x)
                   PROVE  s[i].is = IF x.framing = "chunk" /\ i = Rest(x) THEN "z" ELSE "b"
        OBVIOUS
      <4>1. i \in 1..Len(r) /\ s[i] = r[i]
        BY <3>4, <3>6
      <4>2. r[i].is = IF x.framing = "chunk" /\ i = Rest(x) THEN "z" ELSE "b"
        BY <3>1, <4>1 DEF BodyOK, r
      <4> QED BY <4>1, <4>2
    <3> QED BY <3>1, <3>2, <3>6, <3>7 DEF BodyOK, s
  <2> QED BY <2>3, <2>4, <2>5 DEF UserOK
<1> QED BY <1>2, <1>3, <1>15, <1>17, <1>18, <1>19, ServerStep

\* The connection ends after some of the cells on it.
LEMMA StepClose ==
  ASSUME Sensible, IInv, NEW c \in 1..Len(conns), Close(c)
  PROVE  IInv'
<1>1. conns \in Seq(ConnType) /\ call \in [Threads -> CallType] /\ WireInv(c)
  BY DEF IInv, TypeOK
<1>2. ~conns[c].eof /\ UNCHANGED <<plan, call, list, lock, misled>>
  BY DEF Close
<1>3. PICK k \in ConnType : k = conns[c]
  <2>1. conns[c] \in ConnType
    BY ONLY <1>1, c \in 1..Len(conns), SMTT(30)
  <2> QED BY <2>1
<1>4. k.wire \in Seq(Cells) /\ k.eof \in BOOLEAN
  BY DEF ConnType
<1>5. PICK n \in 0..Len(k.wire) :
        conns' = [conns EXCEPT ![c].eof = TRUE, ![c].asked = <<>>, ![c].wire = SubSeq(k.wire, 1, n)]
  BY <1>3 DEF Close
<1> DEFINE w == SubSeq(k.wire, 1, n)
           v == [k EXCEPT !.eof = TRUE, !.asked = <<>>, !.wire = w]
<1>6. w \in Seq(Cells) /\ Len(w) = n /\ \A i \in 1..n : w[i] = k.wire[i]
  BY <1>4, Prefix
<1>7. ConnOK(k)
  BY <1>1, <1>3 DEF WireInv
<1>8. Aligned(w, TRUE)
  BY <1>4, <1>7, AlignedPrefix DEF ConnOK
<1> HIDE DEF w
<1>9. conns' = [conns EXCEPT ![c] = v]
  BY <1>3, <1>5 DEF w
<1>10. /\ v \in ConnType /\ v.asked = <<>> /\ v.wire = w /\ v.eof = TRUE /\ v.dirty = k.dirty /\ v.cut = k.cut
       /\ v.occupied = k.occupied
  <2>1. <<>> \in Seq(Calls) /\ TRUE \in BOOLEAN
    BY SMTT(30)
  <2> QED BY <1>6, <2>1 DEF ConnType
<1> HIDE DEF v
<1>11. Len(k.wire) \in Nat /\ n \in Nat /\ n <= Len(k.wire) /\ \A i \in 1..n : i \in 1..Len(k.wire)
  BY ONLY <1>4, n \in 0..Len(k.wire), SMTT(30)
<1>12. k.wire = <<>> => w = <<>>
  <2> SUFFICES ASSUME k.wire = <<>> PROVE w = <<>>
    OBVIOUS
  <2>1. Len(<<>>) = 0
    BY SMTT(30)
  <2>2. Len(w) <= 0
    BY <1>6, <1>11, <2>1
  <2> QED BY ONLY <1>6, <1>11, <2>2, SMTT(30)
<1>13. ConnOK(v)
  BY <1>7, <1>8, <1>10, <1>12 DEF ConnOK
<1>14. /\ conns' \in Seq(ConnType) /\ Len(conns') = Len(conns) /\ conns'[c] = v
       /\ \A d \in 1..Len(conns) : d # c => conns'[d] = conns[d]
  BY <1>1, <1>9, <1>10, Touch
<1>15. WireInv(c)'
  <2>1. Len(<<>>) = 0 /\ \A i \in 1..0 : FALSE
    BY SMTT(30)
  <2> QED BY <1>10, <1>13, <1>14, <2>1 DEF WireInv
<1>16. ASSUME NEW t \in Threads, call[t].conn = c PROVE UserOK(call[t], v, Me(t))
  <2>1. c # 0 /\ call[t] \in CallType
    <3>1. 0 \notin 1..Len(conns)
      BY ONLY <1>1, SMTT(30)
    <3> QED BY <1>1, <3>1
  <2>2. UserOK(call[t], k, Me(t))
    BY <1>3, <1>16, <2>1, OfUser
  <2>3. call[t].pc \in {"scan", "write"} /\ ~v.dirty => v.wire = <<>> /\ v.asked = <<>>
    BY <1>10, <1>12, <2>2 DEF UserOK
  <2>4. ASSUME call[t].pc = "head", ~v.dirty PROVE HeadOK(v, Me(t))
    <3>1. HeadOK(k, Me(t))
      BY <1>10, <2>2, <2>4 DEF UserOK
    <3>2. ASSUME w # <<>>
          PROVE  /\ w[1].is \in Framings /\ Mine(w, Me(t))
                 /\ Len(w) <= IF w[1].is \in Bodied THEN 3 ELSE 1
      <4>1. k.wire # <<>>
        BY <1>12, <3>2
      <4>2. 1 \in 1..n
        BY ONLY <1>6, <1>11, <3>2, SMTT(30)
      <4>3. w[1] = k.wire[1]
        BY <1>6, <4>2
      <4>4. /\ k.wire[1].is \in Framings /\ Mine(k.wire, Me(t))
            /\ Len(k.wire) <= IF k.wire[1].is \in Bodied THEN 3 ELSE 1
        BY <3>1, <4>1 DEF HeadOK
      <4>5. \A a, b \in Nat : a <= b => (b <= 3 => a <= 3) /\ (b <= 1 => a <= 1)
        BY SMTT(30)
      <4>6. Len(w) <= IF w[1].is \in Bodied THEN 3 ELSE 1
        BY <1>6, <1>11, <4>3, <4>4, <4>5
      <4>7. Mine(w, Me(t))
        BY <1>6, <1>11, <4>4 DEF Mine
      <4> QED BY <4>3, <4>4, <4>6, <4>7
    <3> QED BY <1>10, <3>2 DEF HeadOK
  <2>5. ASSUME call[t].pc = "body" PROVE BodyOK(call[t], v, Me(t))
    <3> DEFINE x == call[t]
               r == Unread(x, k)
               s == Unread(x, v)
    <3>1. BodyOK(x, k, Me(t))
      BY <2>2, <2>5 DEF UserOK
    <3>2. /\ \A i \in 1..Len(r) : i \in 1..Len(s) => s[i] = r[i]
          /\ Len(s) <= Len(r) /\ Len(s) \in Nat /\ Len(r) \in Nat
      <4>1. /\ \A i \in 1..Len(k.wire) : i \in 1..Len(v.wire) => v.wire[i] = k.wire[i]
            /\ Len(v.wire) <= Len(k.wire)
        BY <1>6, <1>10, <1>11
      <4> QED BY <1>10, <2>1, <4>1, UnreadAgree, UnreadCells
    <3> HIDE DEF r, s
    <3>3. \A i \in 1..Len(s) : i \in 1..Len(r)
      BY ONLY <3>2, SMTT(30)
    <3>4. \A i \in 1..Len(s) : s[i] = r[i]
      BY <3>2, <3>3
    <3>5. \A i \in 1..Len(s) : i <= Rest(x) => s[i].is = IF x.framing = "chunk" /\ i = Rest(x) THEN "z" ELSE "b"
      <4>1. \A i \in 1..Len(r) : i <= Rest(x) => r[i].is = IF x.framing = "chunk" /\ i = Rest(x) THEN "z" ELSE "b"
        BY <3>1 DEF BodyOK, r
      <4> QED BY <3>3, <3>4, <4>1
    <3>6. ~v.dirty => Len(s) <= Rest(x) /\ Mine(s, Me(t))
      <4> SUFFICES ASSUME ~v.dirty PROVE Len(s) <= Rest(x) /\ Mine(s, Me(t))
        OBVIOUS
      <4>1. Len(r) <= Rest(x) /\ Mine(r, Me(t))
        BY <1>10, <3>1 DEF BodyOK, r
      <4>2. Rest(x) \in Int
        <5>1. x.framing \in {"zero", "length", "chunk"} /\ x.left \in Nat /\ x.body \in Nat
          BY <2>1, <3>1, CallFields DEF BodyOK
        <5> QED BY ONLY <5>1, SMTT(30) DEF Rest
      <4>3. Len(s) <= Rest(x)
        <5>1. Len(s) <= Len(r) /\ Len(s) \in Nat /\ Len(r) \in Nat
          BY <3>2
        <5> HIDE DEF x
        <5> QED BY ONLY <4>1, <4>2, <5>1, SMTT(30)
      <4> QED BY <3>3, <3>4, <4>1, <4>3 DEF Mine
    <3> QED BY <1>10, <3>1, <3>5, <3>6 DEF BodyOK, s
  <2> QED BY <2>3, <2>4, <2>5 DEF UserOK
<1> QED BY <1>2, <1>3, <1>10, <1>14, <1>15, <1>16, ServerStep

=============================================================================
