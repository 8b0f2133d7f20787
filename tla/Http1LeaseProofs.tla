------------------------- MODULE Http1LeaseProofs -------------------------
(***************************************************************************)
(* The pool of HTTP/1.1 connections keeps to max_h1_conn_number and        *)
(* implements ConnLease, for any number of requests, connections and       *)
(* permits and any server.                                                 *)
(***************************************************************************)
EXTENDS Http1PoolProofs, FiniteSetTheorems

\* Time for the leaves that cite no prover.
USE ZenonT(30)

---------------------------------------------------------------------------
(* The connection limit. *)

\* While a scan has found nothing, the entries it has passed, the connections
\* that are held and those being set up leave room for one more: the one the
\* scanning request will set up if the scan ends without a connection.
Passed == list \ unseen

ScanRoom ==
    \A r \in Requests :
      locker = r /\ conn[r] = None =>
        Cardinality(Passed \cup Held) + Cardinality(Dialing) + 1 <= Cardinality(Permits)

LimitInv == ConnLimit /\ ScanRoom

\* The sets that are counted are finite.
LEMMA CountsFinite ==
  ASSUME TypeOK
  PROVE  /\ IsFiniteSet(list \cup Held) /\ Cardinality(list \cup Held) \in Nat
         /\ IsFiniteSet(Passed \cup Held) /\ Cardinality(Passed \cup Held) \in Nat
         /\ IsFiniteSet(Dialing) /\ Cardinality(Dialing) \in Nat
         /\ Cardinality(Permits) \in Nat
<1>1. list \cup Held \in SUBSET Conns /\ Passed \cup Held \in SUBSET Conns
  BY DEF TypeOK, Held, Passed
<1>2. Dialing \in SUBSET Requests
  BY DEF Dialing
<1> QED BY <1>1, <1>2, ConstantsAssumption, FS_Subset, FS_CardinalityType

\* A request that holds a loose permit and sets nothing up yet: its permit, the
\* permits of the held connections and those of the connections being set up
\* are all different.
LEMMA PermitCount ==
  ASSUME IInv, NEW r \in Requests, pc[r] = "lock"
  PROVE  Cardinality(Held) + Cardinality(Dialing) + 1 <= Cardinality(Permits)
<1> DEFINE A == {sem[c] : c \in Held}
           D == Dialing \cup {r}
           B == {loose[s] : s \in D}
           f == [c \in Held |-> sem[c]]
           g == [s \in D |-> loose[s]]
<1>0. IsFiniteSet(Permits) /\ IsFiniteSet(Conns) /\ IsFiniteSet(Requests)
  BY ConstantsAssumption
<1>1. Held \subseteq Conns /\ D \subseteq Requests /\ r \notin Dialing
  BY DEF Held, Dialing
<1>2. \A c \in Held : sem[c] # None /\ sem[c] \in Permits
  BY <1>1 DEF IInv, TypeOK, ExclusiveUse, PermitInHandle
<1>3. \A s \in D : loose[s] # None /\ loose[s] \in Permits
  BY <1>1 DEF IInv, TypeOK, Located, Dialing
<1>4. A \in SUBSET Permits /\ B \in SUBSET Permits
  BY <1>2, <1>3
<1>5. f \in Injection(Held, A)
  <2>1. f \in [Held -> A] OBVIOUS
  <2>2. \A c, d \in Held : f[c] = f[d] => c = d
    BY <1>1, <1>2 DEF IInv, PermitsConserved
  <2> QED BY <2>1, <2>2 DEF Injection, IsInjective
<1>6. g \in Injection(D, B)
  <2>1. g \in [D -> B] OBVIOUS
  <2>2. \A s, t \in D : g[s] = g[t] => s = t
    BY <1>1, <1>3 DEF IInv, PermitsConserved
  <2> QED BY <2>1, <2>2 DEF Injection, IsInjective
<1>7. A \cap B = {}
  BY <1>1, <1>2, <1>3, SMTT(30) DEF IInv, PermitsConserved
<1> HIDE DEF A, B, D, f, g
<1>8. IsFiniteSet(A) /\ IsFiniteSet(B)
  BY <1>4, <1>0, FS_Subset
<1>9. IsFiniteSet(Held) /\ Cardinality(Held) <= Cardinality(A)
  BY <1>5, <1>8, FS_Injection
<1>10. IsFiniteSet(D) /\ Cardinality(D) <= Cardinality(B)
  BY <1>6, <1>8, FS_Injection
<1>11. Cardinality(D) = Cardinality(Dialing) + 1
  <2>1. IsFiniteSet(Dialing) BY <1>0, FS_Subset DEF Dialing
  <2> QED BY <2>1, <1>1, FS_AddElement DEF D
<1>12. Cardinality(A \cup B) = Cardinality(A) + Cardinality(B)
  <2>1. Cardinality(A \cup B) = Cardinality(A) + Cardinality(B) - Cardinality(A \cap B)
    BY <1>8, FS_Union
  <2>2. Cardinality(A \cap B) = 0
    BY <1>7, FS_EmptySet
  <2>3. Cardinality(A) \in Nat /\ Cardinality(B) \in Nat
    BY <1>8, FS_CardinalityType
  <2> QED BY <2>1, <2>2, <2>3, SMTT(30)
<1>13. Cardinality(A \cup B) <= Cardinality(Permits)
  <2>1. A \cup B \in SUBSET Permits BY <1>4
  <2> QED BY <2>1, <1>0, FS_Subset
<1>14. /\ Cardinality(A) \in Nat /\ Cardinality(B) \in Nat /\ Cardinality(Held) \in Nat
       /\ Cardinality(Dialing) \in Nat /\ Cardinality(Permits) \in Nat
  <2>1. IsFiniteSet(Dialing) BY <1>0, FS_Subset DEF Dialing
  <2> QED BY <2>1, <1>0, <1>8, <1>9, FS_CardinalityType
<1> QED BY <1>9, <1>10, <1>11, <1>12, <1>13, <1>14, SMTT(30)

\* A step that adds to none of the sets, and starts no scan, keeps the limit.
LEMMA LimitShrinks ==
  ASSUME TypeOK, LimitInv,
         list' \cup Held' \subseteq list \cup Held,
         Passed' \cup Held' \subseteq Passed \cup Held,
         Dialing' \subseteq Dialing,
         \A s \in Requests : locker' = s /\ conn'[s] = None => locker = s /\ conn[s] = None
  PROVE  LimitInv'
<1> DEFINE S == list \cup Held
           T == Passed \cup Held
           S1 == list' \cup Held'
           T1 == Passed' \cup Held'
<1>1. S1 \in SUBSET S /\ T1 \in SUBSET T /\ Dialing' \in SUBSET Dialing
  OBVIOUS
<1>2. IsFiniteSet(S) /\ IsFiniteSet(T) /\ IsFiniteSet(Dialing)
  BY CountsFinite
<1> HIDE DEF S, T, S1, T1
<1>3. /\ Cardinality(S1) <= Cardinality(S) /\ Cardinality(T1) <= Cardinality(T)
      /\ Cardinality(Dialing') <= Cardinality(Dialing)
      /\ Cardinality(S1) \in Nat /\ Cardinality(T1) \in Nat /\ Cardinality(Dialing') \in Nat
  <2>1. IsFiniteSet(S1) /\ Cardinality(S1) <= Cardinality(S)
    BY <1>1, <1>2, FS_Subset
  <2>2. IsFiniteSet(T1) /\ Cardinality(T1) <= Cardinality(T)
    BY <1>1, <1>2, FS_Subset
  <2>3. IsFiniteSet(Dialing') /\ Cardinality(Dialing') <= Cardinality(Dialing)
    BY <1>1, <1>2, FS_Subset
  <2> QED BY <2>1, <2>2, <2>3, FS_CardinalityType
<1>4. /\ Cardinality(S) \in Nat /\ Cardinality(T) \in Nat /\ Cardinality(Dialing) \in Nat
      /\ Cardinality(Permits) \in Nat
  BY CountsFinite DEF S, T
<1>5. Cardinality(S) + Cardinality(Dialing) <= Cardinality(Permits)
  BY DEF LimitInv, ConnLimit, S
<1>6. \A s \in Requests : locker = s /\ conn[s] = None =>
        Cardinality(T) + Cardinality(Dialing) + 1 <= Cardinality(Permits)
  BY DEF LimitInv, ScanRoom, T
<1>7. ConnLimit'
  BY <1>3, <1>4, <1>5, SMTT(30) DEF ConnLimit, S1
<1>8. ScanRoom'
  <2> SUFFICES ASSUME NEW s \in Requests, locker' = s, conn'[s] = None
               PROVE  Cardinality(T1) + Cardinality(Dialing') + 1 <= Cardinality(Permits)
    BY DEF ScanRoom, T1
  <2> QED BY <1>3, <1>4, <1>6, SMTT(30)
<1> QED BY <1>7, <1>8 DEF LimitInv

\* The limit is preserved by every step.
LEMMA LimitStep == IInv /\ LimitInv /\ [Next]_vars => LimitInv'
<1> SUFFICES ASSUME IInv, LimitInv, [Next]_vars PROVE LimitInv'
  OBVIOUS
<1> TypeOK
  BY DEF IInv
<1>0. CASE UNCHANGED vars
  BY <1>0, LimitShrinks DEF vars, pool, tasks, Passed, Held, Holds, Dialing
<1>1. ASSUME NEW r \in Requests, LockList(r) PROVE LimitInv'
  <2>1. /\ pc[r] = "lock" /\ locker' = r
        /\ list' = list /\ unseen' = list /\ conn' = conn /\ prev' = prev
        /\ pc' = [pc EXCEPT ![r] = "scan"]
    BY <1>1 DEF LockList, Goto
  <2>2. Held' = Held /\ Passed' = {} /\ Dialing' = Dialing
    BY <2>1 DEF Held, Holds, Passed, Dialing, TypeOK
  <2>3. Cardinality(Held) + Cardinality(Dialing) + 1 <= Cardinality(Permits)
    BY <2>1, PermitCount
  <2>4. {} \cup Held = Held
    OBVIOUS
  <2> QED BY <2>1, <2>2, <2>3, <2>4 DEF LimitInv, ConnLimit, ScanRoom
<1>2. ASSUME NEW r \in Requests, ScanEnd(r) PROVE LimitInv'
  <2>1. /\ locker = r /\ locker' = None /\ unseen = {}
        /\ list' = list /\ conn' = conn /\ prev' = prev
        /\ pc' = [pc EXCEPT ![r] = IF conn[r] = None THEN "connect" ELSE "request"]
        /\ pc[r] = "scan" /\ None \notin Requests
    BY <1>2, ConstantsAssumption DEF ScanEnd, Goto, IInv, Scanning
  <2>2. Held' = Held /\ Passed = list
    BY <2>1 DEF Held, Holds, Passed
  <2>3. CASE conn[r] = None
    <3>1. Dialing' = Dialing \cup {r} /\ r \notin Dialing
      BY <2>1, <2>3, SMTT(30) DEF Dialing, TypeOK
    <3>2. Cardinality(Dialing') = Cardinality(Dialing) + 1
      BY <3>1, CountsFinite, FS_AddElement
    <3>3. Cardinality(list \cup Held) + Cardinality(Dialing) + 1 <= Cardinality(Permits)
      BY <2>1, <2>2, <2>3 DEF LimitInv, ScanRoom
    <3> QED BY <2>1, <2>2, <3>2, <3>3, CountsFinite, SMTT(30) DEF LimitInv, ConnLimit, ScanRoom
  <2>4. CASE conn[r] # None
    <3>1. Dialing' = Dialing
      BY <2>1, <2>4 DEF Dialing, TypeOK
    <3> QED BY <2>1, <2>2, <3>1 DEF LimitInv, ConnLimit, ScanRoom
  <2> QED BY <2>3, <2>4
<1>3. ASSUME NEW r \in Requests, ConnectOk(r) PROVE LimitInv'
  <2>0. ConnectOk(r)
    BY <1>3
  <2>1. PICK c \in Conns : list' = list \cup {c} /\ conn' = [conn EXCEPT ![r] = c]
    BY <2>0 DEF ConnectOk
  <2>2. /\ pc[r] = "connect" /\ locker' = None /\ prev' = prev /\ conn[r] = None
        /\ pc' = [pc EXCEPT ![r] = "request"] /\ None \notin Requests
    BY <1>3, ConstantsAssumption DEF ConnectOk, Goto, IInv, Located
  <2>3. list' \cup Held' = (list \cup Held) \cup {c}
    <3>1. conn[r] \notin Conns
      BY <2>2, ConstantsAssumption
    <3>2. \A d \in Conns : (\E s \in Requests : Holds(s, d)') <=> (d = c \/ \E s \in Requests : Holds(s, d))
      BY <2>1, <2>2, <3>1 DEF Holds, TypeOK
    <3> HIDE DEF Holds
    <3>3. Held' = Held \cup {c}
      BY <3>2 DEF Held
    <3> QED BY <2>1, <3>3
  <2>4. Dialing' = Dialing \ {r} /\ r \in Dialing
    BY <2>2 DEF Dialing, TypeOK
  <2>5. Cardinality(list' \cup Held') <= Cardinality(list \cup Held) + 1
        /\ Cardinality(list' \cup Held') \in Nat
    <3> DEFINE S == list \cup Held
    <3>1. IsFiniteSet(S) /\ Cardinality(S) \in Nat
      BY CountsFinite
    <3> HIDE DEF S
    <3>2. Cardinality(S \cup {c}) = IF c \in S THEN Cardinality(S) ELSE Cardinality(S) + 1
      BY <3>1, FS_AddElement
    <3> QED BY <2>3, <3>1, <3>2, SMTT(30) DEF S
  <2>6. Cardinality(Dialing') = Cardinality(Dialing) - 1
    BY <2>4, CountsFinite, FS_RemoveElement
  <2> QED BY <2>2, <2>5, <2>6, CountsFinite, SMTT(30) DEF LimitInv, ConnLimit, ScanRoom
<1>4. ASSUME NEW r \in Requests, ScanDispatch(r) PROVE LimitInv'
  <2>1. /\ locker = r /\ locker' = r /\ list' = list /\ prev' = prev /\ pc' = pc
        /\ conn' = [conn EXCEPT ![r] = looked] /\ conn[r] = None
        /\ looked \in list /\ looked # None
    BY <1>4 DEF ScanDispatch, IInv, Scanning
  <2>2. list' \cup Held' = list \cup Held
    <3>1. conn[r] \notin Conns /\ looked \in Conns
      BY <2>1, ConstantsAssumption DEF TypeOK
    <3>2. \A d \in Conns : (\E s \in Requests : Holds(s, d)') <=> (d = looked \/ \E s \in Requests : Holds(s, d))
      BY <2>1, <3>1, SMTT(30) DEF Holds, TypeOK
    <3> HIDE DEF Holds
    <3>3. Held' = Held \cup {looked}
      BY <3>1, <3>2 DEF Held
    <3> QED BY <2>1, <3>3
  <2>3. Dialing' = Dialing
    BY <2>1 DEF Dialing
  <2>4. conn'[r] # None
    BY <2>1 DEF TypeOK
  <2> QED BY <2>1, <2>2, <2>3, <2>4 DEF LimitInv, ConnLimit, ScanRoom
<1>5. ASSUME NEW r \in Requests, ScanBusy(r) PROVE LimitInv'
  <2>1. /\ list' = list /\ unseen' = unseen \ {looked} /\ locker' = locker
        /\ conn' = conn /\ prev' = prev /\ pc' = pc
    BY <1>5 DEF ScanBusy, tasks
  <2>a. looked \in Conns /\ occupied[looked]
    BY <1>5 DEF ScanBusy, TypeOK
  <2>b. looked \in Held
    BY <2>a DEF IInv, ExclusiveUse
  <2>2. Held' = Held /\ Dialing' = Dialing
    BY <2>1 DEF Held, Holds, Dialing
  <2>3. Passed' \cup Held' \subseteq Passed \cup Held
    BY <2>1, <2>2, <2>b DEF Passed
  <2> QED BY <2>1, <2>2, <2>3, LimitShrinks
<1>6. ASSUME NEW r \in Requests, ScanCheck(r) PROVE LimitInv'
  <2>1. /\ list' \subseteq list /\ list' \ unseen' \subseteq (list \ unseen) \cup unseen
        /\ locker' = locker /\ conn' = conn /\ prev' = prev /\ pc' = pc
    BY <1>6 DEF ScanCheck, tasks
  <2>2. Held' = Held /\ Dialing' = Dialing
    BY <2>1 DEF Held, Holds, Dialing
  <2>3. CASE conn[r] = None
    <3>1. Passed' = Passed
      BY <1>6, <2>3 DEF ScanCheck, Passed
    <3> QED BY <2>1, <2>2, <3>1, LimitShrinks
  <2>4. CASE conn[r] # None
    <3>1. locker = r
      BY <1>6 DEF ScanCheck, IInv, Scanning
    <3>2. list' \cup Held' \in SUBSET (list \cup Held)
      BY <2>1, <2>2
    <3>3. Cardinality(list' \cup Held') <= Cardinality(list \cup Held)
          /\ Cardinality(list' \cup Held') \in Nat
      BY <3>2, CountsFinite, FS_Subset, FS_CardinalityType
    <3> QED BY <2>1, <2>2, <2>4, <3>1, <3>3, CountsFinite, SMTT(30) DEF LimitInv, ConnLimit, ScanRoom
  <2> QED BY <2>3, <2>4
\* Every other step leaves the list and the scan alone and at most gives up
\* connections or moves them from conn to prev.
<1>7. ASSUME NEW r \in Requests, list' = list, unseen' = unseen, locker' = locker,
             \A s \in Requests, c \in Conns : Holds(s, c)' => Holds(s, c),
             \A s \in Requests : pc'[s] = "connect" => pc[s] = "connect",
             \A s \in Requests : pc[s] = "scan" => conn'[s] = conn[s]
      PROVE  LimitInv'
  <2>1. Held' \subseteq Held
    BY <1>7 DEF Held
  <2>2. Dialing' \subseteq Dialing
    BY <1>7 DEF Dialing
  <2>3. Passed' = Passed
    BY <1>7 DEF Passed
  <2>4. \A s \in Requests : locker' = s /\ conn'[s] = None => locker = s /\ conn[s] = None
    BY <1>7 DEF IInv, Scanning
  <2> QED BY <1>7, <2>1, <2>2, <2>3, <2>4, LimitShrinks
<1>8. ASSUME NEW r \in Requests, Connecting(r) \/ Exchange(r) \/ Dropping(r) PROVE LimitInv'
  <2> USE DEF pool, flags, tasks, Goto, Forget, AfterAttempt, Holds, TypeOK
  <2>1. CASE Start(r) BY <2>1, <1>7 DEF Start
  <2>2. CASE Acquire(r) BY <2>2, <1>7 DEF Acquire
  <2>3. CASE CancelAcquire(r) BY <2>3, <1>7 DEF CancelAcquire
  <2>4. CASE ConnectFail(r) BY <2>4, <1>7 DEF ConnectFail
  <2>5. CASE InterceptRequestErr(r) BY <2>5, <1>7 DEF InterceptRequestErr
  <2>6. CASE WriteRequest(r) BY <2>6, <1>7 DEF WriteRequest
  <2>7. CASE WriteFail(r) BY <2>7, <1>7 DEF WriteFail
  <2>8. CASE ReadHeadFail(r) BY <2>8, <1>7 DEF ReadHeadFail
  <2>9. CASE \E f \in Framings, keep \in BOOLEAN : ReadHead(r, f, keep) BY <2>9, <1>7 DEF ReadHead
  <2>10. CASE BodyEnd(r) BY <2>10, <1>7 DEF BodyEnd
  <2>11. CASE UntilCloseEof(r) BY <2>11, <1>7 DEF UntilCloseEof
  <2>18. CASE BodyCut(r) BY <2>18, <1>7 DEF BodyCut
  <2>12. CASE BodyAbort(r) BY <2>12, <1>7 DEF BodyAbort
  <2>13. CASE \E fault \in Faults : BodyRefused(r, fault) BY <2>13, <1>7 DEF BodyRefused
  <2>14. CASE Redirect(r) BY <2>14, <1>7, ConstantsAssumption DEF Redirect
  <2>15. CASE ReleaseConn(r) BY <2>15, <1>7, ConstantsAssumption DEF ReleaseConn
  <2>16. CASE ReleasePermit(r) BY <2>16, <1>7 DEF ReleasePermit
  <2>17. CASE DropPrev(r) BY <2>17, <1>7, ConstantsAssumption DEF DropPrev
  <2> HIDE DEF pool, flags, tasks, Goto, Forget, AfterAttempt, Holds, TypeOK
  <2> QED
    BY <1>1, <1>2, <1>3, <1>4, <1>5, <1>6, <1>8, <2>1, <2>2, <2>3, <2>4, <2>5, <2>6, <2>7, <2>8,
       <2>9, <2>10, <2>11, <2>12, <2>13, <2>14, <2>15, <2>16, <2>17, <2>18
    DEF Connecting, Exchange, Dropping
<1> QED BY <1>0, <1>8 DEF Next

-----------------------------------------------------------------------------

\* Initially nothing is listed, held or being set up.
LEMMA InitLimit == Init => LimitInv
<1> SUFFICES ASSUME Init PROVE LimitInv
  OBVIOUS
<1>1. list \cup Held = {} /\ Dialing = {}
  BY ConstantsAssumption DEF Init, Held, Holds, Dialing
<1>2. Cardinality({}) = 0 /\ Cardinality(Permits) \in Nat
  BY ConstantsAssumption, FS_EmptySet, FS_CardinalityType
<1>3. \A r \in Requests : locker # r
  BY ConstantsAssumption DEF Init
<1>4. ConnLimit
  <2>1. Cardinality(list \cup Held) = 0 /\ Cardinality(Dialing) = 0
    BY <1>1, <1>2
  <2> QED BY <2>1, <1>2, SMTT(30) DEF ConnLimit
<1>5. ScanRoom
  BY <1>3 DEF ScanRoom
<1> QED BY <1>4, <1>5 DEF LimitInv

\* The limit is kept together with the room that a scan counts on.
LEMMA LimitInvariant == Spec => []LimitInv
BY InitLimit, LimitStep, PoolInvariant, PTL DEF Spec

\* max_h1_conn_number: connections listed, held or being set up never outnumber
\* the permits.
THEOREM PoolLimit == Spec => []ConnLimit
BY LimitInvariant, PTL DEF LimitInv

---------------------------------------------------------------------------
(* The refinement. *)

\* What the pool lends, as ConnLease sees it.
Pairs == {p \in Requests \X Conns : Holds(p[1], p[2])}

\* A pair is lent exactly when the request holds the connection.
LEMMA PairsHold ==
  /\ \A r \in Requests, c \in Conns : <<r, c>> \in Pairs <=> Holds(r, c)
  /\ {p[2] : p \in Pairs} = Held
<1>1. \A r \in Requests, c \in Conns : <<r, c>> \in Pairs <=> Holds(r, c)
  BY DEF Pairs
<1>2. \A p \in Pairs : p = <<p[1], p[2]>> /\ p[1] \in Requests /\ p[2] \in Conns
  BY SMTT(30) DEF Pairs
<1>3. {p[2] : p \in Pairs} \subseteq Held
  BY <1>1, <1>2, SMTT(30) DEF Held
<1>4. ASSUME NEW c \in Held PROVE c \in {p[2] : p \in Pairs}
  <2>1. PICK r \in Requests : Holds(r, c) BY DEF Held
  <2>2. <<r, c>> \in Pairs BY <1>1, <2>1 DEF Held
  <2> QED BY <2>2, SMTT(30)
<1> QED BY <1>1, <1>3, <1>4

\* A new pool has lent nothing.
LEMMA LeaseInit == Init => Lease!Init
  BY ConstantsAssumption, SMTT(30) DEF Init, Lease!Init, Holds

\* A step that leaves the handles of the requests alone, or moves one from the
\* response to the redirection that follows it, lends and takes back nothing.
LEMMA LeaseSame ==
  ASSUME \A s \in Requests, d \in Conns : Holds(s, d)' <=> Holds(s, d)
  PROVE  Pairs' = Pairs
  BY DEF Pairs

\* A request is given a connection nobody holds, and the limit holds after it.
LEMMA LeaseTake ==
  ASSUME IInv, LimitInv, TypeOK', LimitInv',
         NEW r \in Requests, NEW c \in Conns, c \notin Held,
         \A s \in Requests, d \in Conns : Holds(s, d)' <=> (Holds(s, d) \/ (s = r /\ d = c))
  PROVE  Lease!Next
<1>1. Pairs' = Pairs \cup {<<r, c>>}
  BY SMTT(30) DEF Pairs
<1>2. <<r, c>> \notin Pairs
  BY PairsHold DEF Held
<1>3. Held' = Held \cup {c}
  <2> HIDE DEF Holds
  <2> QED BY DEF Held
<1>4. Cardinality(Held) < Cardinality(Permits)
  <2>1. IsFiniteSet(Held) /\ IsFiniteSet(Held')
    <3>1. Held \in SUBSET Conns /\ Held' \in SUBSET Conns BY DEF Held
    <3> QED BY <3>1, ConstantsAssumption, FS_Subset
  <2>2. Cardinality(Held') = Cardinality(Held) + 1
    BY <2>1, <1>3, FS_AddElement
  <2>3. Cardinality((list \cup Held)') + Cardinality(Dialing') <= Cardinality(Permits)
    BY DEF LimitInv, ConnLimit
  <2>4. IsFiniteSet((list \cup Held)')
    <3>1. (list \cup Held)' \in SUBSET Conns BY DEF Held, TypeOK
    <3> QED BY <3>1, ConstantsAssumption, FS_Subset
  <2>5. IsFiniteSet(Dialing')
    <3>1. Dialing' \in SUBSET Requests BY DEF Dialing
    <3> QED BY <3>1, ConstantsAssumption, FS_Subset
  <2>6. Cardinality(Held') <= Cardinality((list \cup Held)')
    <3>1. Held' \in SUBSET (list \cup Held)' OBVIOUS
    <3> QED BY <3>1, <2>4, FS_Subset
  <2>7. /\ Cardinality(Held) \in Nat /\ Cardinality(Held') \in Nat /\ Cardinality(Dialing') \in Nat
        /\ Cardinality((list \cup Held)') \in Nat /\ Cardinality(Permits) \in Nat
    BY <2>1, <2>4, <2>5, ConstantsAssumption, FS_CardinalityType
  <2> QED BY <2>2, <2>3, <2>6, <2>7, SMTT(30)
<1>5. {p[2] : p \in Pairs} = Held
  BY PairsHold
<1>6. \E p \in Pairs' \ Pairs : p[2] \notin {q[2] : q \in Pairs} /\ Cardinality({q[2] : q \in Pairs}) < Cardinality(Permits)
                               /\ Pairs' = Pairs \cup {p}
  <2>1. <<r, c>> \in Pairs' \ Pairs BY <1>1, <1>2
  <2>2. <<r, c>>[2] \notin {q[2] : q \in Pairs} BY <1>5
  <2>3. Cardinality({q[2] : q \in Pairs}) < Cardinality(Permits) BY <1>4, <1>5
  <2> QED BY <2>1, <2>2, <2>3, <1>1
<1>7. \E p \in Pairs' \ Pairs : Lease!Take(p)
  BY <1>6 DEF Lease!Take, Lease!Lent, Pairs, Lease!Cardinality, Cardinality
<1> QED BY <1>7 DEF Lease!Next, Pairs

\* A request gives up a connection it holds.
LEMMA LeaseGive ==
  ASSUME NEW r \in Requests, NEW c \in Conns, Holds(r, c),
         \A s \in Requests, d \in Conns : Holds(s, d)' <=> (Holds(s, d) /\ ~(s = r /\ d = c))
  PROVE  Lease!Next
<1>1. <<r, c>> \in Pairs
  BY PairsHold
<1>2. Pairs' = Pairs \ {<<r, c>>}
  BY SMTT(30) DEF Pairs
<1> QED BY <1>1, <1>2 DEF Lease!Next, Lease!GiveBack, Pairs

\* Each step of a request lends one connection, takes one back or changes no
\* handle.
LEMMA LeaseStep ==
  IInv /\ LimitInv /\ [Next]_vars /\ TypeOK' /\ LimitInv' => Lease!Next \/ Pairs' = Pairs
<1> SUFFICES ASSUME IInv, LimitInv, [Next]_vars, TypeOK', LimitInv'
             PROVE  Lease!Next \/ Pairs' = Pairs
  OBVIOUS
<1>0. CASE UNCHANGED <<conn, prev>>
  <2>1. \A s \in Requests, d \in Conns : Holds(s, d)' <=> Holds(s, d) BY <1>0 DEF Holds
  <2> QED BY <2>1, LeaseSame
<1>1. ASSUME NEW r \in Requests, Connecting(r) \/ Exchange(r) \/ Dropping(r)
      PROVE  Lease!Next \/ Pairs' = Pairs
  <2>1. CASE ScanDispatch(r)
    <3>1. looked \in Conns /\ conn[r] = None /\ prev' = prev /\ conn' = [conn EXCEPT ![r] = looked]
      BY <2>1 DEF ScanDispatch, IInv, TypeOK, Scanning
    <3>2. looked \notin Held
      BY <2>1, <3>1 DEF ScanDispatch, IInv, ExclusiveUse
    <3>3. \A s \in Requests, d \in Conns : Holds(s, d)' <=> (Holds(s, d) \/ (s = r /\ d = looked))
      <4>1. DOMAIN conn = Requests BY DEF IInv, TypeOK
      <4>2. conn'[r] = looked /\ \A s \in Requests : s # r => conn'[s] = conn[s]
        BY ONLY <3>1, <4>1, r \in Requests, ZenonT(30)
      <4>3. \A d \in Conns : d # None BY ConstantsAssumption
      <4> QED BY ONLY <3>1, <4>2, <4>3, ZenonT(30) DEF Holds
    <3> QED BY <3>1, <3>2, <3>3, LeaseTake
  <2>2. CASE ConnectOk(r)
    <3>1. PICK c \in Conns : Unused(c) /\ conn' = [conn EXCEPT ![r] = c]
      BY <2>2 DEF ConnectOk
    <3>2. conn[r] = None /\ prev' = prev
      BY <2>2 DEF ConnectOk, IInv, Located
    <3>3. c \notin Held
      BY <3>1 DEF Unused, Held, Holds
    <3>4. \A s \in Requests, d \in Conns : Holds(s, d)' <=> (Holds(s, d) \/ (s = r /\ d = c))
      BY <3>1, <3>2, ConstantsAssumption DEF Holds, IInv, TypeOK
    <3> QED BY <3>1, <3>3, <3>4, LeaseTake
  <2>3. CASE ReleaseConn(r)
    <3>1. conn[r] \in Conns /\ conn' = [conn EXCEPT ![r] = None] /\ prev' = prev /\ conn[r] # prev[r]
      BY <2>3 DEF ReleaseConn, IInv, TypeOK, Located, ExclusiveUse
    <3>2. Holds(r, conn[r]) BY DEF Holds
    <3>3. \A s \in Requests, d \in Conns : Holds(s, d)' <=> (Holds(s, d) /\ ~(s = r /\ d = conn[r]))
      BY <3>1, ConstantsAssumption DEF Holds, IInv, TypeOK
    <3> QED BY <3>1, <3>2, <3>3, LeaseGive
  <2>4. CASE DropPrev(r)
    <3>1. prev[r] \in Conns /\ prev' = [prev EXCEPT ![r] = None] /\ conn' = conn /\ conn[r] # prev[r]
      BY <2>4 DEF DropPrev, IInv, TypeOK, ExclusiveUse
    <3>2. Holds(r, prev[r]) BY DEF Holds
    <3>3. \A s \in Requests, d \in Conns : Holds(s, d)' <=> (Holds(s, d) /\ ~(s = r /\ d = prev[r]))
      BY <3>1, ConstantsAssumption DEF Holds, IInv, TypeOK
    <3> QED BY <3>1, <3>2, <3>3, LeaseGive
  <2>5. CASE Redirect(r)
    <3>1. prev[r] = None /\ prev' = [prev EXCEPT ![r] = conn[r]] /\ conn' = [conn EXCEPT ![r] = None]
      BY <2>5 DEF Redirect
    <3>2. \A s \in Requests, d \in Conns : Holds(s, d)' <=> Holds(s, d)
      BY <3>1, ConstantsAssumption DEF Holds, IInv, TypeOK
    <3> QED BY <3>2, LeaseSame
  <2>6. CASE Start(r) \/ Acquire(r) \/ CancelAcquire(r) \/ LockList(r) \/ ScanCheck(r) \/ ScanBusy(r)
             \/ ScanEnd(r) \/ ConnectFail(r)
    BY <2>6, <1>0 DEF Start, Acquire, CancelAcquire, LockList, ScanCheck, ScanBusy, ScanEnd, ConnectFail, tasks
  <2>7. CASE \/ InterceptRequestErr(r) \/ WriteRequest(r) \/ WriteFail(r) \/ ReadHeadFail(r)
             \/ \E f \in Framings, keep \in BOOLEAN : ReadHead(r, f, keep)
             \/ BodyEnd(r) \/ BodyCut(r) \/ UntilCloseEof(r) \/ BodyAbort(r) \/ \E fault \in Faults : BodyRefused(r, fault)
    BY <2>7, <1>0 DEF InterceptRequestErr, WriteRequest, WriteFail, ReadHeadFail, ReadHead, BodyEnd, BodyCut,
       UntilCloseEof, BodyAbort, BodyRefused
  <2>8. CASE ReleasePermit(r) BY <2>8, <1>0 DEF ReleasePermit
  <2> QED BY <1>1, <2>1, <2>2, <2>3, <2>4, <2>5, <2>6, <2>7, <2>8 DEF Connecting, Exchange, Dropping
<1>2. CASE UNCHANGED vars BY <1>2, <1>0 DEF vars, tasks
<1> QED BY <1>1, <1>2 DEF Next

\* The pool implements the lease of connections: however the scans, drops and
\* redirections of any number of requests interleave, a connection is lent to
\* one request at a time and no more are lent than there are permits.
THEOREM PoolImplementsLease == Spec => LeaseSpec
<1>1. Init => Lease!Init
  BY LeaseInit
<1>2. IInv /\ LimitInv /\ [Next]_vars /\ (IInv /\ LimitInv)' => [Lease!Next]_Pairs
  BY LeaseStep DEF IInv
<1> QED BY <1>1, <1>2, PoolInvariant, LimitInvariant, PTL DEF Spec, LeaseSpec, Lease!Spec, Pairs

=============================================================================
