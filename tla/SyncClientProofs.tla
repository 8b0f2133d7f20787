-------------------------- MODULE SyncClientProofs --------------------------
(***************************************************************************)
(* The blocking client, for any number of threads, calls, retries and      *)
(* faults: a connection has one user at a time, the pool implements        *)
(* ConnLease, and a call reads its own answer and all of it.  The steps    *)
(* are proved in SyncClientSteps.                                          *)
(***************************************************************************)
EXTENDS SyncClientSteps, FiniteSetTheorems

\* Time for the leaves that cite no prover.
USE ZenonT(30)

---------------------------------------------------------------------------
(* The invariant holds. *)

\* Before the first call there is no connection and nobody has the mutex.
LEMMA InitInv ==
  ASSUME Sensible, Init
  PROVE  IInv
<1>1. plan \in [Threads -> Seq(Framings)] /\ \A t \in Threads : Len(plan[t]) \in Nat
  <2>1. plan \in [Threads -> Seq(Framings)]
    BY DEF Sensible, Init
  <2> QED BY <2>1, SMTT(30)
<1>2. conns = <<>> /\ list = <<>> /\ lock = Nobody /\ misled = FALSE /\ call = [t \in Threads |-> Idle]
  BY DEF Init
<1>3. conns \in Seq(ConnType) /\ list \in Seq(1..Len(conns)) /\ 1..Len(conns) = {}
  BY <1>2, SMTT(30)
<1>4. Idle \in CallType
  <2>1. 0 \in Nat /\ 1 \in Nat \ {0} /\ <<>> \in Seq(Cells)
    BY SMTT(30)
  <2> QED BY <2>1 DEF Idle, CallType, Places, Framings
<1>5. TypeOK
  BY <1>1, <1>2, <1>3, <1>4 DEF TypeOK
<1>6. \A t \in Threads : call[t].conn = 0 /\ call[t].pc = "idle" /\ call[t].n = 0 /\ call[t].body = 0 /\ call[t].framing = "none"
  BY <1>2 DEF Idle
<1>7. ASSUME NEW t \in Threads PROVE UserInv(t)
  <2>1. 0 <= Len(plan[t])
    BY <1>1, SMTT(30)
  <2>2. lock # t
    BY <1>2 DEF Sensible
  <2> QED BY <1>6, <2>1, <2>2 DEF UserInv
<1>8. Sole
  BY <1>6 DEF Sole
<1> QED BY <1>2, <1>3, <1>5, <1>7, <1>8 DEF IInv

\* What SyncClientSteps takes of Cardinality is true.
LEMMA CardFactsHold == CardFacts
<1> SUFFICES ASSUME NEW n \in Nat
             PROVE  /\ Cardinality(1..n) = n
                    /\ \A D \in SUBSET (1..n) : Cardinality(D) \in Nat /\ (D # {} => Cardinality(D) # 0)
  BY DEF CardFacts
<1>0. 1 \in Int /\ n \in Int
  BY SMTT(30)
<1>1. IsFiniteSet(1..n) /\ Cardinality(1..n) = n
  <2>1. IsFiniteSet(1..n) /\ Cardinality(1..n) = IF 1 > n THEN 0 ELSE n - 1 + 1
    BY <1>0, FS_Interval
  <2> QED BY <1>0, <2>1, SMTT(30)
<1>2. ASSUME NEW D \in SUBSET (1..n) PROVE Cardinality(D) \in Nat /\ (D # {} => Cardinality(D) # 0)
  <2>1. IsFiniteSet(D)
    BY <1>1, FS_Subset
  <2> QED BY <2>1, FS_CardinalityType, FS_EmptySet
<1> QED BY <1>1, <1>2

\* Every step of a thread, and of the server, preserves the invariant.
LEMMA StepInv ==
  ASSUME Sensible, IInv, Next
  PROVE  IInv'
<1>1. ASSUME NEW t \in Threads, request(t) \/ Thread(t) PROVE IInv'
  BY <1>1, CardFactsHold, StepRequest, StepLock, StepIsShutdown, StepDispatch, StepFound, StepConnect, StepConnectErr, StepWriteAll,
     StepBodyErr, StepReadErr, StepDecodeHead, StepDataPre, StepData, StepDataCut, StepDataErr, StepDataEof, StepLeave, StepReturn DEF Thread
<1>2. ASSUME NEW c \in 1..Len(conns), Answer(c) \/ Close(c) PROVE IInv'
  BY <1>2, StepAnswer, StepClose
<1> QED BY <1>1, <1>2 DEF Next

\* The invariant speaks of the variables only.
LEMMA StutterInv ==
  ASSUME IInv, UNCHANGED vars
  PROVE  IInv'
<1> UNCHANGED <<plan, call, conns, list, lock, misled, faults>>
  BY DEF vars
<1>1. TypeOK' /\ Sole' /\ ~misled'
  BY DEF IInv, TypeOK, Sole
<1>2. ASSUME NEW t \in Threads PROVE UserInv(t)'
  BY DEF IInv, UserInv, Me
<1>3. ASSUME NEW c \in 1..Len(conns)' PROVE WireInv(c)'
  BY DEF IInv, WireInv
<1> QED BY <1>1, <1>2, <1>3 DEF IInv

\* The inductive invariant of the blocking client holds in every behaviour:
\* the flag occupied of a connection is set while a thread has its handle, no
\* two threads have a handle of the same connection, and what lies unread on a
\* connection is what its user expects there.
THEOREM SyncInvariant ==
  ASSUME Sensible
  PROVE  Spec => []IInv
<1>1. Init => IInv
  BY InitInv
<1>2. IInv /\ [Next]_vars => IInv'
  BY StepInv, StutterInv
<1> QED BY <1>1, <1>2, PTL DEF Spec

\* On a connection on which every earlier request was sent in whole and every
\* earlier response was read to its last byte, a call never reads a cell of the
\* response to another call (conn::http1::request and Text::data, Chunk::data on
\* a connection of the pool).  A response that merge_chunks ends inside its last
\* chunk was not read to its last byte.
THEOREM SyncOwnAnswer ==
  ASSUME Sensible
  PROVE  Spec => []OwnAnswer
<1>1. IInv => OwnAnswer
  BY DEF IInv, OwnAnswer
<1> QED BY <1>1, SyncInvariant, PTL

\* A response body that ends without an error had all the data its head
\* announced, whichever way the reads cut it and whoever used the connection
\* before (HttpBody, Text::data and Chunk::data).
THEOREM SyncBodyWhole ==
  ASSUME Sensible
  PROVE  Spec => []BodyWhole
<1>1. IInv => BodyWhole
  BY DEF IInv, UserInv, BodyWhole
<1> QED BY <1>1, SyncInvariant, PTL


---------------------------------------------------------------------------
(* The pool implements the lease. *)

\* The pairs ConnLease sees: a call with a connection has one of conns.
LEMMA HeldPairs ==
  IInv => held = {p \in Threads \X Nat : p[2] # 0 /\ call[p[1]].conn = p[2]}
<1> SUFFICES ASSUME IInv PROVE held = {p \in Threads \X Nat : p[2] # 0 /\ call[p[1]].conn = p[2]}
  OBVIOUS
<1>1. \A t \in Threads : call[t].conn # 0 => call[t].conn \in 1..Len(conns)
  BY DEF IInv, UserInv
<1>2. conns \in Seq(ConnType)
  BY DEF IInv, TypeOK
<1>3. \A i \in 1..Len(conns) : i \in Nat /\ i # 0
  BY <1>2, SMTT(30)
<1>4. ASSUME NEW p \in Threads \X Nat
      PROVE  p \in held <=> p[2] # 0 /\ call[p[1]].conn = p[2]
  BY <1>1, <1>3 DEF held
<1>5. \A p \in held : p \in Threads \X Nat
  BY <1>3 DEF held
<1> QED BY <1>1, <1>4, <1>5

\* A thread that has no connection yet leaves room for one more: the others
\* have at most one each.
LEMMA RoomForOne ==
  ASSUME Sensible, IInv, NEW t \in Threads, call[t].conn = 0
  PROVE  Cardinality({p[2] : p \in held}) < Cardinality(Threads)
<1> DEFINE U == Threads \ {t}
           W == {call[u].conn : u \in U}
           L == {p[2] : p \in held}
<1>1. L \in SUBSET W
  <2>1. ASSUME NEW p \in held PROVE p[2] \in W
    BY HeldPairs
  <2> QED BY <2>1
<1>2. IsFiniteSet(Threads) /\ IsFiniteSet(U) /\ Cardinality(U) = Cardinality(Threads) - 1
  BY FS_RemoveElement DEF Sensible
<1>3. IsFiniteSet(W) /\ Cardinality(W) <= Cardinality(U)
  <2> DEFINE f == [u \in U |-> call[u].conn]
  <2>1. f \in Surjection(U, W)
    BY DEF Surjection
  <2> HIDE DEF f, U, W
  <2> QED BY <2>1, <1>2, FS_Surjection
<1> HIDE DEF U, W
<1>4. IsFiniteSet(L) /\ Cardinality(L) <= Cardinality(W)
  <2> HIDE DEF L
  <2> QED BY <1>1, <1>3, FS_Subset
<1>5. Cardinality(L) \in Nat /\ Cardinality(W) \in Nat /\ Cardinality(U) \in Nat /\ Cardinality(Threads) \in Nat
  <2> HIDE DEF L
  <2> QED BY <1>2, <1>3, <1>4, FS_CardinalityType
<1> QED BY ONLY <1>2, <1>3, <1>4, <1>5, SMTT(30)

\* A step after which only thread t may have gained or lost a handle, and has
\* not exchanged one connection for another.
Moves(t) == /\ \A u \in Threads : u # t => call'[u].conn = call[u].conn
            /\ call[t].conn = 0 \/ call'[t].conn \in {0, call[t].conn}

\* Such a step lends one connection, takes one back or changes no handle.
LEMMA LeaseMove ==
  ASSUME Sensible, IInv, IInv', NEW t \in Threads, Moves(t)
  PROVE  Lease!Next \/ held' = held
<1>1. /\ held = {p \in Threads \X Nat : p[2] # 0 /\ call[p[1]].conn = p[2]}
      /\ held' = {p \in Threads \X Nat : p[2] # 0 /\ call'[p[1]].conn = p[2]}
  <2>1. (IInv => held = {p \in Threads \X Nat : p[2] # 0 /\ call[p[1]].conn = p[2]})'
    BY HeldPairs, PTL
  <2> QED BY <2>1, HeldPairs
<1>2. call[t].conn \in Nat /\ call'[t].conn \in Nat
  BY DEF IInv, TypeOK, CallType
<1>3. CASE call'[t].conn = call[t].conn
  BY <1>1, <1>3 DEF Moves
<1>4. CASE call[t].conn # 0 /\ call'[t].conn = 0
  <2>1. <<t, call[t].conn>> \in held
    BY <1>1, <1>2, <1>4
  <2>2. held' = held \ {<<t, call[t].conn>>}
    <3>1. ASSUME NEW p \in Threads \X Nat
          PROVE  p \in held' <=> p \in held /\ p # <<t, call[t].conn>>
      BY <1>1, <1>4, SMTT(30) DEF Moves
    <3> QED BY <1>1, <3>1
  <2> QED BY <2>1, <2>2 DEF Lease!Next, Lease!GiveBack
<1>5. CASE call[t].conn = 0 /\ call'[t].conn # 0
  <2> DEFINE q == <<t, call'[t].conn>>
  <2>1. q \in held' \ held
    BY <1>1, <1>2, <1>5
  <2>2. held' = held \cup {q}
    <3>1. ASSUME NEW p \in Threads \X Nat
          PROVE  p \in held' <=> p \in held \/ p = q
      BY <1>1, <1>2, <1>5, SMTT(30) DEF Moves
    <3> QED BY <1>1, <2>1, <3>1
  <2>3. q[2] \notin {p[2] : p \in held}
    <3> SUFFICES ASSUME NEW p \in held, p[2] = call'[t].conn PROVE FALSE
      OBVIOUS
    <3>1. p[1] \in Threads /\ call[p[1]].conn = p[2] /\ p[2] # 0 /\ p[1] # t
      BY <1>1, <1>5
    <3>2. call'[p[1]].conn = call'[t].conn
      BY <3>1 DEF Moves
    <3> QED BY <1>5, <3>1, <3>2 DEF IInv, Sole
  <2>4. Cardinality({p[2] : p \in held}) < Cardinality(Threads)
    BY <1>5, RoomForOne
  <2>5. Lease!Take(q)
    BY <2>2, <2>3, <2>4 DEF Lease!Take, Lease!Lent, Lease!Cardinality, Cardinality
  <2> QED BY <2>1, <2>5 DEF Lease!Next
<1> QED BY <1>3, <1>4, <1>5 DEF Moves

\* Each step of a thread is such a step: dispatch and connect are taken by a
\* thread that has no handle.
LEMMA ThreadMoves ==
  ASSUME IInv, NEW t \in Threads, request(t) \/ Thread(t)
  PROVE  Moves(t)
<1>0. call \in [Threads -> CallType] /\ UserInv(t) /\ call[t] \in CallType
  BY OfThread
<1>1. ASSUME NEW q, call' = [call EXCEPT ![t].pc = q, ![t].conn = 0] PROVE Moves(t)
  <2>1. call' = [call EXCEPT ![t] = [call[t] EXCEPT !.pc = q, !.conn = 0]]
    BY <1>1
  <2> QED BY <1>0, <2>1 DEF Moves, CallType
<1>2. CASE call' = Retried(t)
  BY <1>0, <1>2, RetriedCall DEF Moves
<1>3. CASE request(t)
  BY <1>0, <1>3 DEF request, Idle, Moves
<1>4. CASE Lock(t)
  BY <1>0, <1>4 DEF Lock, Moves, CallType
<1>5. CASE is_shutdown(t)
  <2>1. call' \in {call, [call EXCEPT ![t].pc = "dispatch"], [call EXCEPT ![t].idx = @ + 1]}
    BY <1>5 DEF is_shutdown
  <2> QED BY <1>0, <2>1 DEF Moves, CallType
<1>6. CASE dispatch(t)
  <2>1. call[t].conn = 0
    BY <1>0, <1>6 DEF dispatch, UserInv
  <2>2. \E i, c : call' \in {[call EXCEPT ![t].pc = "scan", ![t].idx = i], [call EXCEPT ![t].pc = "scan", ![t].idx = i, ![t].conn = c]}
    BY <1>6 DEF dispatch, Dispatched
  <2> QED BY <1>0, <2>1, <2>2 DEF Moves
<1>7. CASE Found(t)
  BY <1>0, <1>7 DEF Found, Moves, CallType
<1>8. CASE connect(t)
  BY <1>0, <1>8 DEF connect, Moves
<1>9. CASE connect_err(t) \/ body_err(t) \/ read_err(t)
  BY <1>2, <1>9 DEF connect_err, body_err, read_err
<1>10. CASE write_all(t)
  <2>1. call' = Retried(t) \/ call' = [call EXCEPT ![t].pc = "head"]
    BY <1>10 DEF write_all
  <2> QED BY <1>0, <1>2, <2>1 DEF Moves, CallType
<1>11. CASE decode_head(t)
  <2>1. PICK g, l, r : \/ call' = Retried(t)
                       \/ call' = [call EXCEPT ![t].pc = "done", ![t].conn = 0]
                       \/ call' = [call EXCEPT ![t].pc = "body", ![t].framing = g, ![t].left = l, ![t].pre = r]
    <3>1. PICK got : call' = ReadHead(t, got[1].is, Tail(got)) \/ call' = Retried(t)
      BY <1>11 DEF decode_head
    <3> QED BY <3>1 DEF ReadHead
  <2>2. CASE call' = [call EXCEPT ![t].pc = "body", ![t].framing = g, ![t].left = l, ![t].pre = r]
    <3>1. call' = [call EXCEPT ![t] = [call[t] EXCEPT !.pc = "body", !.framing = g, !.left = l, !.pre = r]]
      BY <2>2
    <3> QED BY <1>0, <3>1 DEF Moves, CallType
  <2> QED BY <1>2, <1>1, <2>1, <2>2
<1>12. ASSUME NEW got, call' = Decoded(t, got) \/ \E s : call' = [Decoded(t, got) EXCEPT ![t].pre = s]
       PROVE  Moves(t)
  <2>1. PICK q, b, l, e : /\ e \in {0, call[t].conn}
                          /\ \/ Decoded(t, got) = [call EXCEPT ![t].pc = "failed", ![t].conn = 0]
                             \/ Decoded(t, got) = [call EXCEPT ![t].pc = q, ![t].conn = e, ![t].body = b, ![t].left = l]
    BY DEF Decoded
  <2>2. PICK x : /\ Decoded(t, got) = [call EXCEPT ![t] = x] /\ x.conn \in {0, call[t].conn}
                 /\ \A s : [x EXCEPT !.pre = s].conn = x.conn
    <3>2. CASE Decoded(t, got) = [call EXCEPT ![t].pc = "failed", ![t].conn = 0]
      <4>1. Decoded(t, got) = [call EXCEPT ![t] = [call[t] EXCEPT !.pc = "failed", !.conn = 0]]
        BY <3>2
      <4> DEFINE x == [call[t] EXCEPT !.pc = "failed", !.conn = 0]
      <4>2. x.conn = 0 /\ \A s : [x EXCEPT !.pre = s].conn = x.conn
        BY <1>0 DEF CallType
      <4> QED BY <4>1, <4>2
    <3>3. CASE Decoded(t, got) = [call EXCEPT ![t].pc = q, ![t].conn = e, ![t].body = b, ![t].left = l]
      <4>1. Decoded(t, got) = [call EXCEPT ![t] = [call[t] EXCEPT !.pc = q, !.conn = e, !.body = b, !.left = l]]
        BY <3>3
      <4> DEFINE x == [call[t] EXCEPT !.pc = q, !.conn = e, !.body = b, !.left = l]
      <4>2. x.conn = e /\ \A s : [x EXCEPT !.pre = s].conn = x.conn
        BY <1>0 DEF CallType
      <4> QED BY <2>1, <4>1, <4>2
    <3> QED BY <2>1, <3>2, <3>3
  <2>3. PICK y : call' = [call EXCEPT ![t] = y] /\ y.conn \in {0, call[t].conn}
    <3>1. ASSUME NEW s, call' = [Decoded(t, got) EXCEPT ![t].pre = s]
          PROVE  call' = [call EXCEPT ![t] = [x EXCEPT !.pre = s]]
      BY <1>0, <2>2, <3>1
    <3>2. CASE call' = Decoded(t, got)
      BY <2>2, <3>2
    <3>3. ASSUME NEW s, call' = [Decoded(t, got) EXCEPT ![t].pre = s]
          PROVE  \E y : call' = [call EXCEPT ![t] = y] /\ y.conn \in {0, call[t].conn}
      <4>1. call' = [call EXCEPT ![t] = [x EXCEPT !.pre = s]]
        BY <3>1, <3>3
      <4>2. [x EXCEPT !.pre = s].conn \in {0, call[t].conn}
        BY <2>2
      <4> QED BY ONLY <4>1, <4>2
    <3> QED BY <1>12, <3>2, <3>3
  <2> QED BY <1>0, <2>3 DEF Moves
<1>13. CASE data_pre(t)
  <2>1. PICK got, s : call' = [Decoded(t, got) EXCEPT ![t].pre = s]
    BY <1>13 DEF data_pre
  <2> QED BY <2>1, <1>12
<1>14. CASE data(t)
  <2>1. PICK got : call' = Decoded(t, got)
    BY <1>14 DEF data
  <2> QED BY <2>1, <1>12
<1>15. CASE data_err(t) \/ data_eof(t) \/ leave(t)
  BY <1>15, <1>1 DEF data_err, data_eof, leave
<1>16. CASE data_cut(t)
  <2>1. PICK q, n : call' = CutShort(t, q, n)
    BY <1>16 DEF data_cut
  <2>2. call' = [call EXCEPT ![t] = [call[t] EXCEPT !.pc = q, !.conn = 0, !.body = @ + n]]
    BY <2>1 DEF CutShort
  <2> QED BY <1>0, <2>2 DEF Moves, CallType
<1>17. CASE return(t)
  BY <1>0, <1>17 DEF return, Idle, Moves
<1> QED BY <1>3, <1>4, <1>5, <1>6, <1>7, <1>8, <1>9, <1>10, <1>11, <1>13, <1>14, <1>15, <1>16, <1>17 DEF Thread

\* The blocking pool implements the lease of connections: although one thread
\* dispatches (Conns::conn) while others drop their handles, a connection is
\* lent to one thread at a time.
THEOREM SyncImplementsLease ==
  ASSUME Sensible
  PROVE  Spec => LeaseSpec
<1>1. Init => Lease!Init
  <2> SUFFICES ASSUME Init PROVE held = {}
    BY DEF Lease!Init
  <2>1. conns = <<>>
    BY DEF Init
  <2>2. 1..Len(conns) = {}
    BY <2>1, SMTT(30)
  <2> QED BY <2>2 DEF held
<1>2. IInv /\ [Next]_vars /\ IInv' => [Lease!Next]_held
  <2> SUFFICES ASSUME IInv, [Next]_vars, IInv' PROVE Lease!Next \/ held' = held
    OBVIOUS
  <2>1. CASE call' = call
    <3>0. (IInv => held = {p \in Threads \X Nat : p[2] # 0 /\ call[p[1]].conn = p[2]})'
      BY HeldPairs, PTL
    <3>1. held' = held
      BY <2>1, <3>0, HeldPairs
    <3> QED BY <3>1
  <2>2. ASSUME NEW t \in Threads, request(t) \/ Thread(t) PROVE Lease!Next \/ held' = held
    BY <2>2, ThreadMoves, LeaseMove
  <2>3. ASSUME NEW c \in 1..Len(conns), Answer(c) \/ Close(c) PROVE call' = call
    BY <2>3 DEF Answer, Close
  <2> QED BY <2>1, <2>2, <2>3 DEF Next, vars
<1> QED BY <1>1, <1>2, SyncInvariant, PTL DEF Spec, LeaseSpec, Lease!Spec
=============================================================================
