-------------------------- MODULE Http1PoolProofs --------------------------
(***************************************************************************)
(* Safety of Http1Pool for any number of requests, connections and permits *)
(* and for any server.                                                     *)
(***************************************************************************)
EXTENDS Http1Pool, TLAPS

\* Time for the leaves that cite no prover.
USE ZenonT(30)

\* What a request holds at each stage.
Located ==
    \A r \in Requests :
      /\ pc[r] \in {"acquire", "done", "drop_prev"} => conn[r] = None /\ loose[r] = None
      /\ pc[r] \in {"lock", "connect"} => conn[r] = None /\ loose[r] # None
      /\ pc[r] = "scan" => (conn[r] = None <=> loose[r] # None)
      /\ pc[r] \in {"request", "head", "body", "release"} => conn[r] # None /\ loose[r] = None
      /\ pc[r] = "permit" => loose[r] # None /\ (conn[r] # None => prev[r] = None)
      /\ pc[r] = "done" => prev[r] = None

\* What the scan of the list knows.
Scanning ==
    /\ unseen \subseteq list
    /\ \A r \in Requests : pc[r] = "scan" <=> locker = r
    /\ locker = None => looked = None /\ unseen = {}
    /\ looked # None => looked \in unseen /\ conn[locker] = None

\* A connection carries a permit exactly while it is occupied.
PermitInHandle == \A c \in Conns : occupied[c] <=> sem[c] # None

\* A request that reads a body has its response on the wire.
Reading ==
    \A r \in Requests :
      conn[r] # None /\ pc[r] \in {"body", "permit"} => wire[conn[r]] # <<>>

IInv == TypeOK /\ Located /\ Scanning /\ Reading /\ ExclusiveUse /\ PermitInHandle /\ PermitsConserved

\* A new pool: nothing is listed, held or on a wire, every permit is usable.
LEMMA InitIInv == Init => IInv
  BY ConstantsAssumption, SMTT(30) DEF Init, IInv, TypeOK, Located, Reading, Scanning, ExclusiveUse, PermitInHandle,
     PermitsConserved, Holds, Held, Stages, AllFramings

\* No access of a request to the pool, a flag or a wire leaves the types.
LEMMA TypeStep == TypeOK /\ Located /\ Scanning /\ Reading /\ [Next]_vars => TypeOK'
<1> SUFFICES ASSUME TypeOK, Located, Scanning, Reading, [Next]_vars PROVE TypeOK'
  OBVIOUS
<1> USE ConstantsAssumption DEF TypeOK, AllFramings, pool, flags, tasks, Goto, Forget, AfterAttempt, Shut, Consume, Stages
<1>0. CASE UNCHANGED vars BY <1>0 DEF vars
<1>1. ASSUME NEW r \in Requests, Connecting(r) \/ Exchange(r) \/ Dropping(r) PROVE TypeOK'
  <2>1. CASE Start(r) BY <2>1 DEF Start
  <2>2. CASE Acquire(r) BY <2>2, SMTT(30) DEF Acquire
  <2>3. CASE CancelAcquire(r) BY <2>3 DEF CancelAcquire
  <2>4. CASE LockList(r) BY <2>4 DEF LockList
  <2>5. CASE ScanCheck(r) BY <2>5 DEF ScanCheck
  <2>6. CASE ScanDispatch(r) BY <2>6 DEF ScanDispatch
  <2>7. CASE ScanBusy(r) BY <2>7 DEF ScanBusy
  <2>8. CASE ScanEnd(r) BY <2>8 DEF ScanEnd
  <2>9. CASE ConnectOk(r) BY <2>9, SMTT(30) DEF ConnectOk
  <2>10. CASE ConnectFail(r) BY <2>10 DEF ConnectFail
  <2>11. CASE InterceptRequestErr(r) BY <2>11 DEF InterceptRequestErr
  <2>12. CASE WriteRequest(r) BY <2>12, SMTT(30) DEF WriteRequest, Located
  <2>13. CASE WriteFail(r) BY <2>13, SMTT(30) DEF WriteFail, Located
  <2>14. CASE ReadHeadFail(r) BY <2>14 DEF ReadHeadFail
  <2>15. CASE \E f \in Framings, keep \in BOOLEAN : ReadHead(r, f, keep)
    <3> PICK f \in Framings, keep \in BOOLEAN : ReadHead(r, f, keep) BY <2>15
    <3>1. conn[r] \in Conns BY DEF Located, ReadHead
    <3>2. wire[conn[r]] \in Seq(Requests) /\ wire[conn[r]] # <<>> BY <3>1 DEF ReadHead
    <3>3. shutdown' \in [Conns -> BOOLEAN] BY DEF ReadHead
    <3>4. Tail(wire[conn[r]]) \in Seq(Requests) /\ Head(wire[conn[r]]) \in Requests
      BY <3>2, SMTT(30)
    <3>5. wire' \in [Conns -> Seq(Requests)]
      <4>1. wire' = [wire EXCEPT ![conn[r]] = Tail(wire[conn[r]])] \/ wire' = wire
        BY DEF ReadHead
      <4>2. wire \in [Conns -> Seq(Requests)] OBVIOUS
      <4>3. CASE wire' = wire BY <4>2, <4>3
      <4>4. CASE wire' = [wire EXCEPT ![conn[r]] = Tail(wire[conn[r]])]
        <5> HIDE DEF TypeOK
        <5> QED BY <4>2, <4>4, <3>1, <3>4
      <4> QED BY <4>1, <4>3, <4>4
    <3>6. reply' \in [Requests -> Requests \cup {None}]
      BY <3>4 DEF ReadHead
    <3> QED BY <3>3, <3>5, <3>6 DEF ReadHead
  <2>16. CASE BodyEnd(r) BY <2>16, SMTT(30) DEF BodyEnd, Located, Reading
  <2>17. CASE UntilCloseEof(r) BY <2>17, SMTT(30) DEF UntilCloseEof, Located, Reading
  <2>24. CASE BodyCut(r) BY <2>24, SMTT(30) DEF BodyCut, Located, Reading
  <2>18. CASE BodyAbort(r) BY <2>18 DEF BodyAbort
  <2>19. CASE \E fault \in Faults : BodyRefused(r, fault) BY <2>19 DEF BodyRefused
  <2>20. CASE Redirect(r) BY <2>20 DEF Redirect
  <2>21. CASE ReleaseConn(r) BY <2>21 DEF ReleaseConn, Located
  <2>22. CASE ReleasePermit(r) BY <2>22 DEF ReleasePermit, Located
  <2>23. CASE DropPrev(r) BY <2>23, SMTT(30) DEF DropPrev, Located
  <2> QED
    BY <1>1, <2>1, <2>2, <2>3, <2>4, <2>5, <2>6, <2>7, <2>8, <2>9, <2>10, <2>11, <2>12, <2>13, <2>14, <2>15, <2>16, <2>17, <2>18, <2>19, <2>20, <2>21, <2>22, <2>23, <2>24
    DEF Connecting, Exchange, Dropping
<1> QED BY <1>0, <1>1 DEF Next

\* Along conn_h1, request and the drops a request holds a handle or a loose
\* permit exactly at the stages where the code has one.
LEMMA LocatedStep == IInv /\ [Next]_vars => Located'
<1> SUFFICES ASSUME IInv, [Next]_vars PROVE Located'
  OBVIOUS
<1> USE ConstantsAssumption DEF IInv, TypeOK, Located, pool, flags, tasks, Goto, Forget, AfterAttempt, Shut, Consume, Stages
<1>0. CASE UNCHANGED vars BY <1>0 DEF vars
<1>1. ASSUME NEW r \in Requests, Connecting(r) \/ Exchange(r) \/ Dropping(r) PROVE Located'
  <2>1. CASE Start(r) BY <2>1 DEF Start
  <2>2. CASE Acquire(r) BY <2>2, SMTT(30) DEF Acquire, PermitsConserved
  <2>3. CASE CancelAcquire(r) BY <2>3 DEF CancelAcquire
  <2>4. CASE LockList(r) BY <2>4 DEF LockList
  <2>5. CASE ScanCheck(r) BY <2>5 DEF ScanCheck
  <2>6. CASE ScanDispatch(r) BY <2>6, SMTT(30) DEF ScanDispatch, Scanning, ExclusiveUse, PermitInHandle, Holds, Held
  <2>7. CASE ScanBusy(r) BY <2>7 DEF ScanBusy
  <2>8. CASE ScanEnd(r) BY <2>8, SMTT(30) DEF ScanEnd, Scanning, ExclusiveUse, PermitInHandle, Holds, Held
  <2>9. CASE ConnectOk(r) BY <2>9, SMTT(30) DEF ConnectOk, Scanning, ExclusiveUse, PermitInHandle, Holds, Held
  <2>10. CASE ConnectFail(r) BY <2>10 DEF ConnectFail
  <2>11. CASE InterceptRequestErr(r) BY <2>11 DEF InterceptRequestErr
  <2>12. CASE WriteRequest(r) BY <2>12 DEF WriteRequest
  <2>13. CASE WriteFail(r) BY <2>13 DEF WriteFail
  <2>14. CASE ReadHeadFail(r) BY <2>14 DEF ReadHeadFail
  <2>15. CASE \E f \in Framings, keep \in BOOLEAN : ReadHead(r, f, keep) BY <2>15, SMTT(30) DEF ReadHead
  <2>16. CASE BodyEnd(r) BY <2>16, SMTT(30) DEF BodyEnd
  <2>17. CASE UntilCloseEof(r) BY <2>17 DEF UntilCloseEof
  <2>24. CASE BodyCut(r) BY <2>24 DEF BodyCut
  <2>18. CASE BodyAbort(r) BY <2>18 DEF BodyAbort
  <2>19. CASE \E fault \in Faults : BodyRefused(r, fault) BY <2>19, SMTT(30) DEF BodyRefused
  <2>20. CASE Redirect(r) BY <2>20 DEF Redirect
  <2>21. CASE ReleaseConn(r) BY <2>21, SMTT(30) DEF ReleaseConn, Scanning, ExclusiveUse, PermitInHandle, Holds, Held
  <2>22. CASE ReleasePermit(r) BY <2>22 DEF ReleasePermit
  <2>23. CASE DropPrev(r) BY <2>23, SMTT(30) DEF DropPrev, Scanning, ExclusiveUse, PermitInHandle, Holds, Held
  <2> QED
    BY <1>1, <2>1, <2>2, <2>3, <2>4, <2>5, <2>6, <2>7, <2>8, <2>9, <2>10, <2>11, <2>12, <2>13, <2>14, <2>15, <2>16, <2>17, <2>18, <2>19, <2>20, <2>21, <2>22, <2>23, <2>24
    DEF Connecting, Exchange, Dropping
<1> QED BY <1>0, <1>1 DEF Next

\* The scan of exist_h1_conn stays with the request that holds the mutex, and
\* what it has not passed yet stays listed.
LEMMA ScanningStep == IInv /\ [Next]_vars => Scanning'
<1> SUFFICES ASSUME IInv, [Next]_vars PROVE Scanning'
  OBVIOUS
<1> USE ConstantsAssumption DEF IInv, TypeOK, Located, Scanning, pool, flags, tasks, Goto, Forget, AfterAttempt, Shut, Consume, Stages
<1>0. CASE UNCHANGED vars BY <1>0 DEF vars
<1>1. ASSUME NEW r \in Requests, Connecting(r) \/ Exchange(r) \/ Dropping(r) PROVE Scanning'
  <2>1. CASE Start(r) BY <2>1 DEF Start
  <2>2. CASE Acquire(r) BY <2>2 DEF Acquire
  <2>3. CASE CancelAcquire(r) BY <2>3 DEF CancelAcquire
  <2>4. CASE LockList(r) BY <2>4 DEF LockList
  <2>5. CASE ScanCheck(r) BY <2>5 DEF ScanCheck
  <2>6. CASE ScanDispatch(r) BY <2>6 DEF ScanDispatch
  <2>7. CASE ScanBusy(r) BY <2>7 DEF ScanBusy
  <2>8. CASE ScanEnd(r) BY <2>8 DEF ScanEnd
  <2>9. CASE ConnectOk(r) BY <2>9, SMTT(30) DEF ConnectOk
  <2>10. CASE ConnectFail(r) BY <2>10 DEF ConnectFail
  <2>11. CASE InterceptRequestErr(r) BY <2>11 DEF InterceptRequestErr
  <2>12. CASE WriteRequest(r) BY <2>12 DEF WriteRequest
  <2>13. CASE WriteFail(r) BY <2>13 DEF WriteFail
  <2>14. CASE ReadHeadFail(r) BY <2>14 DEF ReadHeadFail
  <2>15. CASE \E f \in Framings, keep \in BOOLEAN : ReadHead(r, f, keep) BY <2>15, SMTT(30) DEF ReadHead
  <2>16. CASE BodyEnd(r) BY <2>16 DEF BodyEnd
  <2>17. CASE UntilCloseEof(r) BY <2>17 DEF UntilCloseEof
  <2>24. CASE BodyCut(r) BY <2>24 DEF BodyCut
  <2>18. CASE BodyAbort(r) BY <2>18 DEF BodyAbort
  <2>19. CASE \E fault \in Faults : BodyRefused(r, fault) BY <2>19, SMTT(30) DEF BodyRefused
  <2>20. CASE Redirect(r) BY <2>20 DEF Redirect
  <2>21. CASE ReleaseConn(r) BY <2>21 DEF ReleaseConn
  <2>22. CASE ReleasePermit(r) BY <2>22 DEF ReleasePermit
  <2>23. CASE DropPrev(r) BY <2>23 DEF DropPrev
  <2> QED
    BY <1>1, <2>1, <2>2, <2>3, <2>4, <2>5, <2>6, <2>7, <2>8, <2>9, <2>10, <2>11, <2>12, <2>13, <2>14, <2>15, <2>16, <2>17, <2>18, <2>19, <2>20, <2>21, <2>22, <2>23, <2>24
    DEF Connecting, Exchange, Dropping
<1> QED BY <1>0, <1>1 DEF Next

\* Only the request that holds a connection takes responses off its wire, so
\* one that reads a body still finds it there.
LEMMA ReadingStep == IInv /\ [Next]_vars => Reading'
<1> SUFFICES ASSUME IInv, [Next]_vars PROVE Reading'
  OBVIOUS
<1> USE ConstantsAssumption DEF IInv, TypeOK, Located, ExclusiveUse, Holds, Reading, pool, flags, tasks, Goto, Forget, AfterAttempt, Shut, Consume, Stages
<1>0. CASE UNCHANGED vars BY <1>0 DEF vars
<1>1. ASSUME NEW r \in Requests, Connecting(r) \/ Exchange(r) \/ Dropping(r) PROVE Reading'
  <2>1. CASE Start(r) BY <2>1, SMTT(30) DEF Start
  <2>2. CASE Acquire(r) BY <2>2, SMTT(30) DEF Acquire
  <2>3. CASE CancelAcquire(r) BY <2>3, SMTT(30) DEF CancelAcquire
  <2>4. CASE LockList(r) BY <2>4 DEF LockList
  <2>5. CASE ScanCheck(r) BY <2>5 DEF ScanCheck
  <2>6. CASE ScanDispatch(r) BY <2>6, SMTT(30) DEF ScanDispatch
  <2>7. CASE ScanBusy(r) BY <2>7 DEF ScanBusy
  <2>8. CASE ScanEnd(r) BY <2>8, SMTT(30) DEF ScanEnd
  <2>9. CASE ConnectOk(r)
    <3>1. PICK c \in Conns : /\ Unused(c)
                            /\ wire' = [wire EXCEPT ![c] = <<>>]
                            /\ conn' = [conn EXCEPT ![r] = c]
      BY <2>9 DEF ConnectOk
    <3>2. pc' = [pc EXCEPT ![r] = "request"]
      BY <2>9 DEF ConnectOk
    <3> QED BY <3>1, <3>2, SMTT(30) DEF Unused
  <2>10. CASE ConnectFail(r) BY <2>10, SMTT(30) DEF ConnectFail
  <2>11. CASE InterceptRequestErr(r) BY <2>11 DEF InterceptRequestErr
  <2>12. CASE WriteRequest(r) BY <2>12, SMTT(30) DEF WriteRequest
  <2>13. CASE WriteFail(r) BY <2>13, SMTT(30) DEF WriteFail
  <2>14. CASE ReadHeadFail(r) BY <2>14, SMTT(30) DEF ReadHeadFail
  <2>15. CASE \E f \in Framings, keep \in BOOLEAN : ReadHead(r, f, keep) BY <2>15, SMTT(30) DEF ReadHead
  <2>16. CASE BodyEnd(r) BY <2>16 DEF BodyEnd
  <2>17. CASE UntilCloseEof(r) BY <2>17, SMTT(30) DEF UntilCloseEof
  <2>24. CASE BodyCut(r) BY <2>24, SMTT(30) DEF BodyCut
  <2>18. CASE BodyAbort(r) BY <2>18, SMTT(30) DEF BodyAbort
  <2>19. CASE \E fault \in Faults : BodyRefused(r, fault) BY <2>19, SMTT(30) DEF BodyRefused
  <2>20. CASE Redirect(r) BY <2>20, SMTT(30) DEF Redirect
  <2>21. CASE ReleaseConn(r) BY <2>21, SMTT(30) DEF ReleaseConn
  <2>22. CASE ReleasePermit(r) BY <2>22, SMTT(30) DEF ReleasePermit
  <2>23. CASE DropPrev(r) BY <2>23, SMTT(30) DEF DropPrev
  <2> QED
    BY <1>1, <2>1, <2>2, <2>3, <2>4, <2>5, <2>6, <2>7, <2>8, <2>9, <2>10, <2>11, <2>12, <2>13, <2>14, <2>15, <2>16, <2>17, <2>18, <2>19, <2>20, <2>21, <2>22, <2>23, <2>24
    DEF Connecting, Exchange, Dropping
<1> QED BY <1>0, <1>1 DEF Next

\* The compare-and-exchange of dispatch hands a connection to one request, and
\* Http1Conn::drop clears the flag only for the request that held it.
LEMMA ExclusiveStep == IInv /\ [Next]_vars => ExclusiveUse'
<1> SUFFICES ASSUME IInv, [Next]_vars PROVE ExclusiveUse'
  OBVIOUS
<1> USE ConstantsAssumption DEF IInv, TypeOK, Located, ExclusiveUse, Holds, Held, pool, flags, tasks, Goto, Forget, AfterAttempt, Shut, Consume, Stages
<1>0. CASE UNCHANGED vars BY <1>0, SMTT(30) DEF vars
<1>1. ASSUME NEW r \in Requests, Connecting(r) \/ Exchange(r) \/ Dropping(r) PROVE ExclusiveUse'
  <2>1. CASE Start(r) BY <2>1, SMTT(30) DEF Start
  <2>2. CASE Acquire(r) BY <2>2, SMTT(30) DEF Acquire
  <2>3. CASE CancelAcquire(r) BY <2>3, SMTT(30) DEF CancelAcquire
  <2>4. CASE LockList(r) BY <2>4, SMTT(30) DEF LockList
  <2>5. CASE ScanCheck(r) BY <2>5, SMTT(30) DEF ScanCheck
  <2>6. CASE ScanDispatch(r) BY <2>6, SMTT(30) DEF ScanDispatch, Scanning
  <2>7. CASE ScanBusy(r) BY <2>7, SMTT(30) DEF ScanBusy
  <2>8. CASE ScanEnd(r) BY <2>8, SMTT(30) DEF ScanEnd
  <2>9. CASE ConnectOk(r)
    <3>1. PICK c \in Conns : /\ Unused(c)
                            /\ occupied' = [occupied EXCEPT ![c] = TRUE]
                            /\ conn' = [conn EXCEPT ![r] = c]
      BY <2>9 DEF ConnectOk
    <3>2. prev' = prev /\ conn[r] = None
      BY <2>9 DEF ConnectOk
    <3>3. \A s \in Requests, d \in Conns :
             Holds(s, d)' <=> Holds(s, d) \/ (s = r /\ d = c)
      BY <3>1, <3>2, SMTT(30)
    <3>4. \A s \in Requests : ~Holds(s, c)
      BY <3>1 DEF Unused
    <3> HIDE DEF Holds
    <3>5. Held' = Held \cup {c}
      BY <3>3, SMTT(30)
    <3>6. \A d \in Conns : occupied'[d] <=> d \in Held'
      <4>1. occupied'[c] /\ c \in Held' BY <3>1, <3>5
      <4>2. ASSUME NEW d \in Conns, d # c PROVE occupied'[d] <=> d \in Held'
        <5>1. occupied'[d] = occupied[d] BY <3>1, <4>2, SMTT(30)
        <5>2. d \in Held' <=> d \in Held BY <3>5, <4>2
        <5> QED BY <5>1, <5>2
      <4> QED BY ONLY <4>1, <4>2, ZenonT(30)
    <3>7. \A s \in Requests : conn'[s] # None => conn'[s] # prev'[s]
      BY <3>1, <3>2, <3>4, SMTT(30) DEF Holds
    <3> QED BY <3>3, <3>4, <3>6, <3>7, SMTT(30)
  <2>10. CASE ConnectFail(r) BY <2>10, SMTT(30) DEF ConnectFail
  <2>11. CASE InterceptRequestErr(r) BY <2>11, SMTT(30) DEF InterceptRequestErr
  <2>12. CASE WriteRequest(r) BY <2>12, SMTT(30) DEF WriteRequest
  <2>13. CASE WriteFail(r) BY <2>13, SMTT(30) DEF WriteFail
  <2>14. CASE ReadHeadFail(r) BY <2>14, SMTT(30) DEF ReadHeadFail
  <2>15. CASE \E f \in Framings, keep \in BOOLEAN : ReadHead(r, f, keep) BY <2>15, SMTT(30) DEF ReadHead
  <2>16. CASE BodyEnd(r) BY <2>16, SMTT(30) DEF BodyEnd
  <2>17. CASE UntilCloseEof(r) BY <2>17, SMTT(30) DEF UntilCloseEof
  <2>24. CASE BodyCut(r) BY <2>24, SMTT(30) DEF BodyCut
  <2>18. CASE BodyAbort(r) BY <2>18, SMTT(30) DEF BodyAbort
  <2>19. CASE \E fault \in Faults : BodyRefused(r, fault) BY <2>19, SMTT(30) DEF BodyRefused
  <2>20. CASE Redirect(r) BY <2>20, SMTT(30) DEF Redirect
  <2>21. CASE ReleaseConn(r) BY <2>21, SMTT(30) DEF ReleaseConn
  <2>22. CASE ReleasePermit(r) BY <2>22, SMTT(30) DEF ReleasePermit
  <2>23. CASE DropPrev(r) BY <2>23, SMTT(30) DEF DropPrev
  <2> QED
    BY <1>1, <2>1, <2>2, <2>3, <2>4, <2>5, <2>6, <2>7, <2>8, <2>9, <2>10, <2>11, <2>12, <2>13, <2>14, <2>15, <2>16, <2>17, <2>18, <2>19, <2>20, <2>21, <2>22, <2>23, <2>24
    DEF Connecting, Exchange, Dropping
<1> QED BY <1>0, <1>1 DEF Next

\* occupy_sem puts a permit into a handle when it is handed out, and the handle
\* gives it up when it is dropped.
LEMMA HandleStep == IInv /\ [Next]_vars => PermitInHandle'
<1> SUFFICES ASSUME IInv, [Next]_vars PROVE PermitInHandle'
  OBVIOUS
<1> USE ConstantsAssumption DEF IInv, TypeOK, Located, PermitInHandle, ExclusiveUse, Holds, Held, pool, flags, tasks, Goto, Forget, AfterAttempt, Shut, Consume, Stages
<1>0. CASE UNCHANGED vars BY <1>0 DEF vars
<1>1. ASSUME NEW r \in Requests, Connecting(r) \/ Exchange(r) \/ Dropping(r) PROVE PermitInHandle'
  <2>1. CASE Start(r) BY <2>1 DEF Start
  <2>2. CASE Acquire(r) BY <2>2 DEF Acquire
  <2>3. CASE CancelAcquire(r) BY <2>3 DEF CancelAcquire
  <2>4. CASE LockList(r) BY <2>4 DEF LockList
  <2>5. CASE ScanCheck(r) BY <2>5 DEF ScanCheck
  <2>6. CASE ScanDispatch(r) BY <2>6, SMTT(30) DEF ScanDispatch, Scanning
  <2>7. CASE ScanBusy(r) BY <2>7 DEF ScanBusy
  <2>8. CASE ScanEnd(r) BY <2>8 DEF ScanEnd
  <2>9. CASE ConnectOk(r) BY <2>9, SMTT(30) DEF ConnectOk
  <2>10. CASE ConnectFail(r) BY <2>10 DEF ConnectFail
  <2>11. CASE InterceptRequestErr(r) BY <2>11 DEF InterceptRequestErr
  <2>12. CASE WriteRequest(r) BY <2>12 DEF WriteRequest
  <2>13. CASE WriteFail(r) BY <2>13 DEF WriteFail
  <2>14. CASE ReadHeadFail(r) BY <2>14 DEF ReadHeadFail
  <2>15. CASE \E f \in Framings, keep \in BOOLEAN : ReadHead(r, f, keep) BY <2>15, SMTT(30) DEF ReadHead
  <2>16. CASE BodyEnd(r) BY <2>16 DEF BodyEnd
  <2>17. CASE UntilCloseEof(r) BY <2>17 DEF UntilCloseEof
  <2>24. CASE BodyCut(r) BY <2>24 DEF BodyCut
  <2>18. CASE BodyAbort(r) BY <2>18 DEF BodyAbort
  <2>19. CASE \E fault \in Faults : BodyRefused(r, fault) BY <2>19, SMTT(30) DEF BodyRefused
  <2>20. CASE Redirect(r) BY <2>20 DEF Redirect
  <2>21. CASE ReleaseConn(r) BY <2>21, SMTT(30) DEF ReleaseConn
  <2>22. CASE ReleasePermit(r) BY <2>22 DEF ReleasePermit
  <2>23. CASE DropPrev(r) BY <2>23, SMTT(30) DEF DropPrev
  <2> QED
    BY <1>1, <2>1, <2>2, <2>3, <2>4, <2>5, <2>6, <2>7, <2>8, <2>9, <2>10, <2>11, <2>12, <2>13, <2>14, <2>15, <2>16, <2>17, <2>18, <2>19, <2>20, <2>21, <2>22, <2>23, <2>24
    DEF Connecting, Exchange, Dropping
<1> QED BY <1>0, <1>1 DEF Next

\* A loose permit moves into the handle of a connection that had none.
LEMMA PermitIn ==
  ASSUME TypeOK, PermitsConserved,
         NEW r \in Requests, NEW c \in Conns, loose[r] # None, sem[c] = None,
         sem' = [sem EXCEPT ![c] = loose[r]], loose' = [loose EXCEPT ![r] = None],
         usable' = usable
  PROVE  PermitsConserved'
<1>1. sem'[c] = loose[r] /\ \A d \in Conns : d # c => sem'[d] = sem[d]
  BY DEF TypeOK
<1>2. loose'[r] = None /\ \A s \in Requests : s # r => loose'[s] = loose[s]
  BY DEF TypeOK
<1>3. ASSUME NEW p \in Permits
      PROVE  p \in usable' \/ (\E s \in Requests : loose'[s] = p) \/ (\E d \in Conns : sem'[d] = p)
  <2>1. CASE p \in usable BY <2>1
  <2>2. CASE p = loose[r] BY <2>2, <1>1
  <2>3. ASSUME NEW s \in Requests, loose[s] = p, s # r PROVE loose'[s] = p BY <2>3, <1>2
  <2>4. ASSUME NEW d \in Conns, sem[d] = p PROVE sem'[d] = p BY <2>4, <1>1, ConstantsAssumption
  <2> QED BY <2>1, <2>2, <2>3, <2>4 DEF PermitsConserved
<1>4. (\A s \in Requests : loose'[s] \notin usable') /\ (\A d \in Conns : sem'[d] \notin usable')
  <2>1. None \notin usable BY ConstantsAssumption DEF TypeOK
  <2> QED BY <1>1, <1>2, <2>1, SMTT(30) DEF PermitsConserved
<1>5. \A s, t \in Requests : loose'[s] # None /\ loose'[s] = loose'[t] => s = t
  BY <1>2, SMTT(30) DEF PermitsConserved
<1>6. \A d, e \in Conns : sem'[d] # None /\ sem'[d] = sem'[e] => d = e
  BY <1>1, SMTT(30) DEF PermitsConserved
<1>7. \A s \in Requests, d \in Conns : loose'[s] # None => loose'[s] # sem'[d]
  BY <1>1, <1>2, SMTT(30) DEF PermitsConserved
<1> QED BY <1>3, <1>4, <1>5, <1>6, <1>7 DEF PermitsConserved

\* The permit of a connection becomes loose in a request that had none.
LEMMA PermitOut ==
  ASSUME TypeOK, PermitsConserved,
         NEW r \in Requests, NEW c \in Conns, loose[r] = None, sem[c] # None,
         sem' = [sem EXCEPT ![c] = None], loose' = [loose EXCEPT ![r] = sem[c]],
         usable' = usable
  PROVE  PermitsConserved'
<1>1. sem'[c] = None /\ \A d \in Conns : d # c => sem'[d] = sem[d]
  BY DEF TypeOK
<1>2. loose'[r] = sem[c] /\ \A s \in Requests : s # r => loose'[s] = loose[s]
  BY DEF TypeOK
<1>3. ASSUME NEW p \in Permits
      PROVE  p \in usable' \/ (\E s \in Requests : loose'[s] = p) \/ (\E d \in Conns : sem'[d] = p)
  <2>1. CASE p \in usable BY <2>1
  <2>2. CASE p = sem[c] BY <2>2, <1>2
  <2>3. ASSUME NEW s \in Requests, loose[s] = p PROVE loose'[s] = p BY <2>3, <1>2, ConstantsAssumption
  <2>4. ASSUME NEW d \in Conns, sem[d] = p, d # c PROVE sem'[d] = p BY <2>4, <1>1
  <2> QED BY <2>1, <2>2, <2>3, <2>4 DEF PermitsConserved
<1>4. (\A s \in Requests : loose'[s] \notin usable') /\ (\A d \in Conns : sem'[d] \notin usable')
  <2>1. None \notin usable BY ConstantsAssumption DEF TypeOK
  <2> QED BY <1>1, <1>2, <2>1, SMTT(30) DEF PermitsConserved
<1>5. \A s, t \in Requests : loose'[s] # None /\ loose'[s] = loose'[t] => s = t
  BY <1>2, SMTT(30) DEF PermitsConserved
<1>6. \A d, e \in Conns : sem'[d] # None /\ sem'[d] = sem'[e] => d = e
  BY <1>1, SMTT(30) DEF PermitsConserved
<1>7. \A s \in Requests, d \in Conns : loose'[s] # None => loose'[s] # sem'[d]
  BY <1>1, <1>2, SMTT(30) DEF PermitsConserved
<1> QED BY <1>3, <1>4, <1>5, <1>6, <1>7 DEF PermitsConserved

\* Acquire takes a permit from the semaphore into a request that had none.
LEMMA PermitTaken ==
  ASSUME TypeOK, PermitsConserved,
         NEW r \in Requests, NEW q \in usable, loose[r] = None,
         usable' = usable \ {q}, loose' = [loose EXCEPT ![r] = q], sem' = sem
  PROVE  PermitsConserved'
<1>1. loose'[r] = q /\ \A s \in Requests : s # r => loose'[s] = loose[s]
  BY DEF TypeOK
<1>2. ASSUME NEW p \in Permits
      PROVE  p \in usable' \/ (\E s \in Requests : loose'[s] = p) \/ (\E d \in Conns : sem'[d] = p)
  BY <1>1, ConstantsAssumption, SMTT(30) DEF PermitsConserved
<1>3. q # None
  BY ConstantsAssumption DEF TypeOK
<1>4. (\A s \in Requests : loose'[s] \notin usable') /\ (\A d \in Conns : sem'[d] \notin usable')
  BY <1>1, SMTT(30) DEF PermitsConserved
<1>5. \A s, t \in Requests : loose'[s] # None /\ loose'[s] = loose'[t] => s = t
  BY <1>1, <1>3, SMTT(30) DEF PermitsConserved
<1>6. \A d, e \in Conns : sem'[d] # None /\ sem'[d] = sem'[e] => d = e
  BY DEF PermitsConserved
<1>7. \A s \in Requests, d \in Conns : loose'[s] # None => loose'[s] # sem'[d]
  BY <1>1, SMTT(30) DEF PermitsConserved
<1> QED BY <1>2, <1>4, <1>5, <1>6, <1>7 DEF PermitsConserved

\* WrappedSemPermit::drop gives the permit of a request back.
LEMMA PermitBack ==
  ASSUME TypeOK, PermitsConserved,
         NEW r \in Requests, loose[r] # None,
         usable' = usable \cup {loose[r]}, loose' = [loose EXCEPT ![r] = None], sem' = sem
  PROVE  PermitsConserved'
<1>1. loose'[r] = None /\ \A s \in Requests : s # r => loose'[s] = loose[s]
  BY DEF TypeOK
<1>2. ASSUME NEW p \in Permits
      PROVE  p \in usable' \/ (\E s \in Requests : loose'[s] = p) \/ (\E d \in Conns : sem'[d] = p)
  BY <1>1, SMTT(30) DEF PermitsConserved
<1>3. None \notin usable'
  BY ConstantsAssumption DEF TypeOK
<1>4. \A s \in Requests : loose'[s] \notin usable'
  BY <1>1, <1>3, SMTT(30) DEF PermitsConserved
<1>5. \A d \in Conns : sem'[d] \notin usable'
  BY DEF PermitsConserved
<1>6. \A s, t \in Requests : loose'[s] # None /\ loose'[s] = loose'[t] => s = t
  BY <1>1, SMTT(30) DEF PermitsConserved
<1>7. \A d, e \in Conns : sem'[d] # None /\ sem'[d] = sem'[e] => d = e
  BY DEF PermitsConserved
<1>8. \A s \in Requests, d \in Conns : loose'[s] # None => loose'[s] # sem'[d]
  BY <1>1, SMTT(30) DEF PermitsConserved
<1> QED BY <1>2, <1>4, <1>5, <1>6, <1>7, <1>8 DEF PermitsConserved

\* A permit is moved, never copied and never dropped, by acquire, occupy_sem,
\* the drop of a handle and WrappedSemPermit::drop.
LEMMA PermitsStep == IInv /\ [Next]_vars => PermitsConserved'
<1> SUFFICES ASSUME IInv, [Next]_vars PROVE PermitsConserved'
  OBVIOUS
<1>a. TypeOK /\ PermitsConserved
  BY DEF IInv
<1>b. ASSUME UNCHANGED <<usable, loose, sem>> PROVE PermitsConserved'
  BY <1>a, <1>b DEF PermitsConserved
<1>0. CASE UNCHANGED vars BY <1>0, <1>b DEF vars, pool, flags, tasks
<1>1. ASSUME NEW r \in Requests, Connecting(r) \/ Exchange(r) \/ Dropping(r) PROVE PermitsConserved'
  <2> USE DEF pool, flags, tasks
  <2>1. CASE Start(r) BY <2>1, <1>b DEF Start
  <2>2. CASE Acquire(r)
    <3>1. PICK q \in usable : usable' = usable \ {q} /\ loose' = [loose EXCEPT ![r] = q]
      BY <2>2 DEF Acquire
    <3>2. loose[r] = None /\ sem' = sem
      BY <2>2 DEF Acquire, IInv, Located
    <3> QED BY <1>a, <3>1, <3>2, PermitTaken
  <2>3. CASE CancelAcquire(r) BY <2>3, <1>b DEF CancelAcquire
  <2>4. CASE LockList(r) BY <2>4, <1>b DEF LockList
  <2>5. CASE ScanCheck(r) BY <2>5, <1>b DEF ScanCheck
  <2>6. CASE ScanDispatch(r)
    <3>1. looked \in Conns /\ sem' = [sem EXCEPT ![looked] = loose[r]]
      BY <1>a, <2>6 DEF ScanDispatch, TypeOK
    <3>2. loose' = [loose EXCEPT ![r] = None] /\ usable' = usable
      BY <2>6 DEF ScanDispatch
    <3>3. loose[r] # None
      BY <2>6 DEF ScanDispatch, IInv, Located, Scanning
    <3>4. sem[looked] = None
      BY <2>6, <3>1 DEF ScanDispatch, IInv, PermitInHandle
    <3> QED BY <1>a, <3>1, <3>2, <3>3, <3>4, PermitIn
  <2>7. CASE ScanBusy(r) BY <2>7, <1>b DEF ScanBusy
  <2>8. CASE ScanEnd(r) BY <2>8, <1>b DEF ScanEnd
  <2>9. CASE ConnectOk(r)
    <3>1. PICK c \in Conns : sem' = [sem EXCEPT ![c] = loose[r]] /\ Unused(c)
      BY <2>9 DEF ConnectOk
    <3>2. loose' = [loose EXCEPT ![r] = None] /\ usable' = usable
      BY <2>9 DEF ConnectOk
    <3>3. loose[r] # None
      BY <2>9 DEF ConnectOk, IInv, Located
    <3>4. ~occupied[c]
      BY <3>1 DEF Unused, IInv, ExclusiveUse, Held, Holds
    <3>5. sem[c] = None
      BY <3>4 DEF IInv, PermitInHandle
    <3> QED BY <1>a, <3>1, <3>2, <3>3, <3>5, PermitIn
  <2>10. CASE ConnectFail(r) BY <2>10, <1>b DEF ConnectFail
  <2>11. CASE InterceptRequestErr(r) BY <2>11, <1>b DEF InterceptRequestErr
  <2>12. CASE WriteRequest(r) BY <2>12, <1>b DEF WriteRequest
  <2>13. CASE WriteFail(r) BY <2>13, <1>b DEF WriteFail
  <2>14. CASE ReadHeadFail(r) BY <2>14, <1>b DEF ReadHeadFail
  <2>15. CASE \E f \in Framings, keep \in BOOLEAN : ReadHead(r, f, keep) BY <2>15, <1>b DEF ReadHead
  <2>16. CASE BodyEnd(r) BY <2>16, <1>b DEF BodyEnd
  <2>17. CASE UntilCloseEof(r) BY <2>17, <1>b DEF UntilCloseEof
  <2>24. CASE BodyCut(r) BY <2>24, <1>b DEF BodyCut
  <2>18. CASE BodyAbort(r) BY <2>18, <1>b DEF BodyAbort
  <2>19. CASE \E fault \in Faults : BodyRefused(r, fault) BY <2>19, <1>b DEF BodyRefused
  <2>20. CASE Redirect(r) BY <2>20, <1>b DEF Redirect
  <2>21. CASE ReleaseConn(r)
    <3>1. conn[r] \in Conns /\ loose[r] = None
      BY <1>a, <2>21 DEF ReleaseConn, TypeOK, IInv, Located
    <3>2. sem[conn[r]] # None
      <4>1. conn[r] \in Held BY <3>1 DEF Held, Holds
      <4> QED BY <3>1, <4>1 DEF IInv, ExclusiveUse, PermitInHandle
    <3>3. sem' = [sem EXCEPT ![conn[r]] = None] /\ loose' = [loose EXCEPT ![r] = sem[conn[r]]] /\ usable' = usable
      BY <2>21 DEF ReleaseConn
    <3> QED BY <1>a, <3>1, <3>2, <3>3, PermitOut
  <2>22. CASE ReleasePermit(r)
    <3>1. loose[r] # None
      BY <2>22 DEF ReleasePermit, IInv, Located
    <3>2. usable' = usable \cup {loose[r]} /\ loose' = [loose EXCEPT ![r] = None] /\ sem' = sem
      BY <2>22 DEF ReleasePermit
    <3> QED BY <1>a, <3>1, <3>2, PermitBack
  <2>23. CASE DropPrev(r)
    <3>1. prev[r] \in Conns /\ loose[r] = None
      BY <1>a, <2>23 DEF DropPrev, TypeOK, IInv, Located
    <3>2. sem[prev[r]] # None
      <4>1. prev[r] \in Held BY <3>1 DEF Held, Holds
      <4> QED BY <3>1, <4>1 DEF IInv, ExclusiveUse, PermitInHandle
    <3>3. sem' = [sem EXCEPT ![prev[r]] = None] /\ loose' = [loose EXCEPT ![r] = sem[prev[r]]] /\ usable' = usable
      BY <2>23 DEF DropPrev
    <3> QED BY <1>a, <3>1, <3>2, <3>3, PermitOut
  <2> QED
    BY <1>1, <2>1, <2>2, <2>3, <2>4, <2>5, <2>6, <2>7, <2>8, <2>9, <2>10, <2>11, <2>12, <2>13, <2>14, <2>15, <2>16, <2>17, <2>18, <2>19, <2>20, <2>21, <2>22, <2>23, <2>24
    DEF Connecting, Exchange, Dropping
<1> QED BY <1>0, <1>1 DEF Next

---------------------------------------------------------------------------
(* The theorems. *)

\* Everything above holds in every state the pool can reach.
THEOREM PoolInvariant == Spec => []IInv
<1>1. IInv /\ [Next]_vars => IInv'
  <2> SUFFICES ASSUME IInv, [Next]_vars PROVE IInv'
    OBVIOUS
  <2>1. TypeOK' BY TypeStep DEF IInv
  <2> QED BY <2>1, LocatedStep, ScanningStep, ReadingStep, ExclusiveStep, HandleStep, PermitsStep DEF IInv
<1> QED BY <1>1, InitIInv, PTL DEF Spec

\* Type correctness of the pool, the dispatchers and the requests.
THEOREM PoolTypes == Spec => []TypeOK
  BY PoolInvariant, PTL DEF IInv

\* Http1Dispatcher::dispatch: at most one request holds a connection, for any
\* number of requests, connections and permits and any server.
THEOREM PoolExclusive == Spec => []ExclusiveUse
  BY PoolInvariant, PTL DEF IInv

\* WrappedSemPermit: no permit is lost or duplicated.
THEOREM PoolPermits == Spec => []PermitsConserved
  BY PoolInvariant, PTL DEF IInv

---------------------------------------------------------------------------
(* What a request may find on the wire of the connection it is given. *)

\* What the exchange relies on: the server sends no 1xx response, no
\* interceptor refuses a body, and no chunk is refused (for being malformed, or
\* for its trailers after a read that ended right after its 0).  In each of these
\* cases the code gives up a connection with a response on it and sets no flag.
Plain ==
    /\ "interim" \notin Framings
    /\ "intercept" \notin Faults
    /\ "malformed" \in Faults => "chunk" \notin Framings

\* The stages at which a request that holds a connection expects nothing on it.
Quiet == {"scan", "request", "release"}

\* What is on the wire of a connection whose shutdown flag is not set: nothing
\* when nobody holds it; otherwise nothing before the request is written and
\* after its response is read, and only its own response in between.
Clean ==
    /\ \A c \in Conns : ~occupied[c] /\ ~shutdown[c] => wire[c] = <<>>
    /\ \A r \in Requests : conn[r] # None /\ ~shutdown[conn[r]] =>
         wire[conn[r]] = IF pc[r] \in Quiet THEN <<>> ELSE <<r>>
    /\ \A r \in Requests : framing[r] \in Framings \cup {"empty"}

\* A new pool has nothing on any wire.
LEMMA InitClean == Init => Clean
  BY ConstantsAssumption DEF Init, Clean

\* A step that leaves the flags and the wires alone, moves one request between
\* stages with the same content of the wire and gives nobody a connection.
LEMMA QuietStep ==
  ASSUME TypeOK, Clean, NEW r \in Requests, NEW s \in Stages,
         pc' = [pc EXCEPT ![r] = s],
         conn[r] # None => (pc[r] \in Quiet <=> s \in Quiet),
         UNCHANGED <<conn, occupied, shutdown, wire, framing>>
  PROVE  Clean'
<1>1. \A q \in Requests : conn[q] # None =>
         (pc[q] \in Quiet <=> pc'[q] \in Quiet)
  BY DEF TypeOK
<1>2. (\A c \in Conns : ~occupied'[c] /\ ~shutdown'[c] => wire'[c] = <<>>)
      /\ (\A q \in Requests : framing'[q] \in Framings \cup {"empty"})
  BY DEF Clean
<1>3. ASSUME NEW q \in Requests, conn'[q] # None, ~shutdown'[conn'[q]]
      PROVE  wire'[conn'[q]] = IF pc'[q] \in Quiet THEN <<>> ELSE <<q>>
  BY <1>1, <1>3 DEF Clean
<1> QED BY <1>2, <1>3 DEF Clean

\* A step of the request that holds a connection changes what is on its wire or
\* sets its flag: no other connection and no other holder is concerned.
LEMMA HolderStep ==
  ASSUME IInv, Clean, NEW r \in Requests, NEW c \in Conns, conn[r] = c,
         NEW s \in Stages, pc' = [pc EXCEPT ![r] = s],
         UNCHANGED <<conn, occupied>>,
         \A d \in Conns : d # c => wire'[d] = wire[d] /\ shutdown'[d] = shutdown[d],
         \A q \in Requests : framing'[q] \in Framings \cup {"empty"},
         ~shutdown'[c] => wire'[c] = IF s \in Quiet THEN <<>> ELSE <<r>>
  PROVE  Clean'
<1>1. c # None BY ConstantsAssumption
<1>2. occupied[c] BY <1>1 DEF IInv, ExclusiveUse, Held, Holds
<1>3. \A q \in Requests : q # r => conn[q] # c
  BY DEF IInv, ExclusiveUse, Holds
<1>4. \A d \in Conns : ~occupied'[d] /\ ~shutdown'[d] => wire'[d] = <<>>
  BY <1>2 DEF Clean
<1>5. ASSUME NEW q \in Requests, conn'[q] # None, ~shutdown'[conn'[q]]
      PROVE  wire'[conn'[q]] = IF pc'[q] \in Quiet THEN <<>> ELSE <<q>>
  <2>1. CASE q = r
    <3>1. pc'[r] = s BY DEF IInv, TypeOK
    <3> QED BY <2>1, <1>5, <3>1
  <2>2. CASE q # r
    <3>1. pc'[q] = pc[q] BY <2>2 DEF IInv, TypeOK
    <3>2. conn[q] \in Conns /\ conn[q] # c BY <2>2, <1>3, <1>5 DEF IInv, TypeOK
    <3> QED BY <3>1, <3>2, <1>5 DEF Clean
  <2> QED BY <2>1, <2>2
<1> QED BY <1>4, <1>5 DEF Clean

\* A request takes a connection nobody holds: what it finds on the wire is what
\* the connection had when it was idle, or nothing when it is new.
LEMMA TakeStep ==
  ASSUME IInv, Clean, NEW r \in Requests, NEW c \in Conns,
         \A q \in Requests : conn[q] # c,
         conn' = [conn EXCEPT ![r] = c],
         occupied' = [occupied EXCEPT ![c] = TRUE],
         ~shutdown'[c] => wire'[c] = <<>>,
         \A d \in Conns : d # c => wire'[d] = wire[d] /\ shutdown'[d] = shutdown[d],
         framing' = framing,
         pc'[r] \in Quiet,
         \A q \in Requests : q # r => pc'[q] = pc[q]
  PROVE  Clean'
<1>1. \A d \in Conns : ~occupied'[d] /\ ~shutdown'[d] => wire'[d] = <<>>
  BY DEF Clean, IInv, TypeOK
<1>2. \A q \in Requests : framing'[q] \in Framings \cup {"empty"}
  BY DEF Clean
<1>3. ASSUME NEW q \in Requests, conn'[q] # None, ~shutdown'[conn'[q]]
      PROVE  wire'[conn'[q]] = IF pc'[q] \in Quiet THEN <<>> ELSE <<q>>
  <2>1. CASE q = r
    <3>1. conn'[r] = c BY DEF IInv, TypeOK
    <3> QED BY <2>1, <1>3, <3>1
  <2>2. CASE q # r
    <3>1. conn'[q] = conn[q] BY <2>2 DEF IInv, TypeOK
    <3>2. conn[q] \in Conns /\ conn[q] # c BY <3>1, <1>3 DEF IInv, TypeOK
    <3> QED BY <2>2, <3>1, <3>2, <1>3, SMTT(30) DEF Clean
  <2> QED BY <2>1, <2>2
<1> QED BY <1>1, <1>2, <1>3 DEF Clean

\* A request gives up its hold on a connection: it becomes idle with the flag set
\* or with nothing on the wire, or it stays occupied by the redirected response.
LEMMA GiveStep ==
  ASSUME IInv, Clean, NEW r \in Requests, NEW c \in Conns, NEW s \in Stages,
         \A q \in Requests : conn'[q] # None => conn'[q] = conn[q] /\ conn[q] # c,
         \A q \in Requests : pc'[q] # pc[q] => q = r,
         pc'[r] = s,
         conn'[r] # None => pc[r] \notin Quiet /\ s \notin Quiet,
         wire' = wire,
         \A d \in Conns : d # c => shutdown'[d] = shutdown[d] /\ occupied'[d] = occupied[d],
         ~occupied'[c] /\ ~shutdown'[c] => wire[c] = <<>>,
         \A q \in Requests : framing'[q] \in {framing[q], "empty"}
  PROVE  Clean'
<1>1. \A d \in Conns : ~occupied'[d] /\ ~shutdown'[d] => wire'[d] = <<>>
  BY DEF Clean
<1>2. \A q \in Requests : framing'[q] \in Framings \cup {"empty"}
  BY DEF Clean
<1>3. ASSUME NEW q \in Requests, conn'[q] # None, ~shutdown'[conn'[q]]
      PROVE  wire'[conn'[q]] = IF pc'[q] \in Quiet THEN <<>> ELSE <<q>>
  <2>1. conn'[q] = conn[q] /\ conn[q] \in Conns /\ ~shutdown[conn[q]]
    BY <1>3, SMTT(30) DEF IInv, TypeOK
  <2>2. pc[q] \in Quiet <=> pc'[q] \in Quiet
    BY <1>3
  <2> QED BY <2>1, <2>2, <1>3 DEF Clean
<1> QED BY <1>1, <1>2, <1>3 DEF Clean

\* Consume takes the only response off a wire.
LEMMA ReadOff ==
  ASSUME TypeOK, NEW c \in Conns, NEW r \in Requests, wire[c] = <<r>>,
         wire' = [wire EXCEPT ![c] = Tail(@)]
  PROVE  wire'[c] = <<>>
<1>1. wire'[c] = Tail(<<r>>) BY DEF TypeOK
<1>2. Tail(<<r>>) = <<>> BY SMTT(30)
<1> QED BY <1>1, <1>2

\* No step of a request leaves a response on a connection that others may be
\* given, unless its shutdown flag is set.
LEMMA CleanStep == Plain /\ IInv /\ Clean /\ [Next]_vars => Clean'
<1> SUFFICES ASSUME Plain, IInv, Clean, [Next]_vars PROVE Clean'
  OBVIOUS
<1>0. CASE UNCHANGED vars BY <1>0 DEF vars, flags, tasks, Clean
<1>1. ASSUME NEW r \in Requests, Connecting(r) \/ Exchange(r) \/ Dropping(r) PROVE Clean'
  <2> DEFINE c == conn[r]
  <2>q. /\ "scan" \in Quiet /\ "request" \in Quiet /\ "release" \in Quiet
        /\ "head" \notin Quiet /\ "body" \notin Quiet /\ "permit" \notin Quiet
    BY DEF Quiet
  <2>s. /\ "acquire" \in Stages /\ "lock" \in Stages /\ "scan" \in Stages /\ "connect" \in Stages
        /\ "request" \in Stages /\ "head" \in Stages /\ "body" \in Stages /\ "release" \in Stages
        /\ "permit" \in Stages /\ AfterAttempt(r) \in Stages
    BY DEF Stages, AfterAttempt
  <2>t. TypeOK BY DEF IInv
  <2>n. pc[r] \in {"acquire", "done", "lock", "connect"} => conn[r] = None BY DEF IInv, Located
  <2>h. pc[r] \in {"request", "head", "body", "release"} => c \in Conns /\ c # None
    BY DEF IInv, TypeOK, Located
  <2>w. /\ pc[r] \in {"request", "release"} /\ ~shutdown[c] => wire[c] = <<>>
        /\ pc[r] \in {"head", "body"} /\ ~shutdown[c] => wire[c] = <<r>>
    <3>1. pc[r] \in {"request", "release"} => c # None /\ pc[r] \in Quiet BY <2>h, <2>q
    <3>2. pc[r] \in {"head", "body"} => c # None /\ pc[r] \notin Quiet BY <2>h, <2>q
    <3> QED BY <3>1, <3>2 DEF Clean
  <2>b. \A q \in Requests : framing[q] \in Framings \cup {"empty"} BY DEF Clean
  <2>1. CASE Start(r)
    <3>1. pc[r] = "done" /\ pc' = [pc EXCEPT ![r] = "acquire"] BY <2>1 DEF Start, Goto
    <3>2. UNCHANGED <<conn, occupied, shutdown, wire, framing>> BY <2>1 DEF Start, flags
    <3>3. conn[r] = None BY <3>1, <2>n
    <3> QED BY <3>1, <3>2, <3>3, <2>s, <2>t, QuietStep
  <2>2. CASE Acquire(r)
    <3>1. pc[r] = "acquire" /\ pc' = [pc EXCEPT ![r] = "lock"] BY <2>2 DEF Acquire, Goto
    <3>2. UNCHANGED <<conn, occupied, shutdown, wire, framing>> BY <2>2 DEF Acquire, flags
    <3>3. conn[r] = None BY <3>1, <2>n
    <3> QED BY <3>1, <3>2, <3>3, <2>s, <2>t, QuietStep
  <2>3. CASE CancelAcquire(r)
    <3>1. pc[r] = "acquire" /\ pc' = [pc EXCEPT ![r] = AfterAttempt(r)] BY <2>3 DEF CancelAcquire, Goto
    <3>2. UNCHANGED <<conn, occupied, shutdown, wire, framing>> BY <2>3 DEF CancelAcquire, flags
    <3>3. conn[r] = None BY <3>1, <2>n
    <3> QED BY <3>1, <3>2, <3>3, <2>s, <2>t, QuietStep
  <2>4. CASE LockList(r)
    <3>1. pc[r] = "lock" /\ pc' = [pc EXCEPT ![r] = "scan"] BY <2>4 DEF LockList, Goto
    <3>2. UNCHANGED <<conn, occupied, shutdown, wire, framing>> BY <2>4 DEF LockList, flags
    <3>3. conn[r] = None BY <3>1, <2>n
    <3> QED BY <3>1, <3>2, <3>3, <2>s, <2>t, QuietStep
  <2>5. CASE ScanCheck(r) BY <2>5 DEF ScanCheck, flags, tasks, Clean
  <2>6. CASE ScanDispatch(r)
    <3>1. looked \in Conns /\ ~occupied[looked] BY <2>6, <2>t, <2>h DEF ScanDispatch, TypeOK
    <3>2. \A q \in Requests : conn[q] # looked BY <3>1 DEF IInv, ExclusiveUse, Held, Holds
    <3>3. ~shutdown[looked] => wire[looked] = <<>> BY <3>1 DEF Clean
    <3>4. /\ pc' = pc /\ pc[r] = "scan"
          /\ conn' = [conn EXCEPT ![r] = looked] /\ occupied' = [occupied EXCEPT ![looked] = TRUE]
          /\ UNCHANGED <<wire, shutdown, framing>>
      BY <2>6 DEF ScanDispatch
    <3>5. pc'[r] \in Quiet BY <3>4, <2>q
    <3> QED BY <3>1, <3>2, <3>3, <3>4, <3>5, TakeStep
  <2>7. CASE ScanBusy(r) BY <2>7 DEF ScanBusy, flags, tasks, Clean
  <2>8. CASE ScanEnd(r)
    <3>1. pc[r] = "scan" /\ UNCHANGED <<conn, occupied, shutdown, wire, framing>> BY <2>8 DEF ScanEnd, flags
    <3>2. CASE conn[r] = None
      <4>1. pc' = [pc EXCEPT ![r] = "connect"] BY <2>8, <3>2 DEF ScanEnd, Goto
      <4> QED BY <3>1, <3>2, <4>1, <2>t, <2>q, <2>s, QuietStep
    <3>3. CASE conn[r] # None
      <4>1. pc' = [pc EXCEPT ![r] = "request"] BY <2>8, <3>3 DEF ScanEnd, Goto
      <4> QED BY <3>1, <4>1, <2>t, <2>q, <2>s, QuietStep
    <3> QED BY <3>2, <3>3
  <2>9. CASE ConnectOk(r)
    <3>1. PICK d \in Conns :
            /\ Unused(d)
            /\ occupied' = [occupied EXCEPT ![d] = TRUE]
            /\ shutdown' = [shutdown EXCEPT ![d] = FALSE]
            /\ wire' = [wire EXCEPT ![d] = <<>>]
            /\ conn' = [conn EXCEPT ![r] = d]
      BY <2>9 DEF ConnectOk
    <3>2. pc' = [pc EXCEPT ![r] = "request"] /\ framing' = framing BY <2>9 DEF ConnectOk, Goto
    <3>3. pc'[r] = "request" /\ \A q \in Requests : q # r => pc'[q] = pc[q] BY <3>2, <2>t, <2>h DEF TypeOK
    <3>4. \A q \in Requests : conn[q] # d BY <3>1 DEF Unused
    <3>5. wire'[d] = <<>> /\ \A e \in Conns : e # d => wire'[e] = wire[e] /\ shutdown'[e] = shutdown[e]
      BY <3>1, <2>t, <2>h DEF TypeOK
    <3>6. pc'[r] \in Quiet BY <3>3, <2>q
    <3> QED BY <3>1, <3>2, <3>3, <3>4, <3>5, <3>6, TakeStep
  <2>10. CASE ConnectFail(r)
    <3>1. pc[r] = "connect" /\ pc' = [pc EXCEPT ![r] = "permit"] BY <2>10 DEF ConnectFail, Goto
    <3>2. UNCHANGED <<conn, occupied, shutdown, wire, framing>> BY <2>10 DEF ConnectFail, flags
    <3>3. conn[r] = None BY <3>1, <2>n
    <3> QED BY <3>1, <3>2, <3>3, <2>s, <2>t, QuietStep
  <2>11. CASE InterceptRequestErr(r)
    <3>1. pc[r] = "request" /\ pc' = [pc EXCEPT ![r] = "release"] BY <2>11 DEF InterceptRequestErr, Goto
    <3>2. UNCHANGED <<conn, occupied, shutdown, wire, framing>> BY <2>11 DEF InterceptRequestErr, flags
    <3> QED BY <3>1, <3>2, <2>q, <2>s, <2>t, QuietStep
  <2>12. CASE WriteRequest(r)
    <3>1. /\ pc[r] = "request" /\ pc' = [pc EXCEPT ![r] = "head"]
          /\ wire' = [wire EXCEPT ![c] = Append(@, r)]
          /\ UNCHANGED <<conn, occupied, shutdown, framing>>
      BY <2>12 DEF WriteRequest, Goto
    <3>2. ~shutdown'[c] => wire'[c] = <<r>> BY <3>1, <2>t, <2>h, <2>w, SMTT(30) DEF TypeOK
    <3>3. \A d \in Conns : d # c => wire'[d] = wire[d] /\ shutdown'[d] = shutdown[d]
      BY <3>1, <2>t, <2>h DEF TypeOK
    <3>4. ~shutdown'[c] => wire'[c] = IF "head" \in Quiet THEN <<>> ELSE <<r>> BY <3>2, <2>q
    <3>5. \A q \in Requests : framing'[q] \in Framings \cup {"empty"} BY <3>1, <2>b
    <3>6. c \in Conns BY <3>1, <2>h
    <3> QED BY <3>1, <3>4, <3>3, <3>5, <3>6, <2>s, HolderStep
  <2>13. CASE WriteFail(r)
    <3>1. /\ pc[r] = "request" /\ pc' = [pc EXCEPT ![r] = "release"]
          /\ wire' = [wire EXCEPT ![c] = Append(@, r)]
          /\ shutdown' = [shutdown EXCEPT ![c] = TRUE]
          /\ UNCHANGED <<conn, occupied, framing>>
      BY <2>13 DEF WriteFail, Goto, Shut
    <3>2. shutdown'[c] BY <3>1, <2>t, <2>h DEF TypeOK
    <3>3. \A d \in Conns : d # c => wire'[d] = wire[d] /\ shutdown'[d] = shutdown[d]
      BY <3>1, <2>t, <2>h DEF TypeOK
    <3>5. \A q \in Requests : framing'[q] \in Framings \cup {"empty"} BY <3>1, <2>b
    <3>6. c \in Conns BY <3>1, <2>h
    <3> QED BY <3>1, <3>2, <3>3, <3>5, <3>6, <2>s, HolderStep
  <2>14. CASE ReadHeadFail(r)
    <3>1. /\ pc[r] = "head" /\ pc' = [pc EXCEPT ![r] = "release"]
          /\ shutdown' = [shutdown EXCEPT ![c] = TRUE]
          /\ UNCHANGED <<conn, occupied, wire, framing>>
      BY <2>14 DEF ReadHeadFail, Goto, Shut
    <3>2. shutdown'[c] BY <3>1, <2>t, <2>h DEF TypeOK
    <3>3. \A d \in Conns : d # c => wire'[d] = wire[d] /\ shutdown'[d] = shutdown[d]
      BY <3>1, <2>t, <2>h DEF TypeOK
    <3>5. \A q \in Requests : framing'[q] \in Framings \cup {"empty"} BY <3>1, <2>b
    <3>6. c \in Conns BY <3>1, <2>h
    <3> QED BY <3>1, <3>2, <3>3, <3>5, <3>6, <2>s, HolderStep
  <2>15. CASE \E f \in Framings, keep \in BOOLEAN : ReadHead(r, f, keep)
    <3> PICK f \in Framings, keep \in BOOLEAN : ReadHead(r, f, keep) BY <2>15
    <3> DEFINE s == IF f \in {"empty", "interim", "invalid"} THEN "release" ELSE "body"
    <3>1. pc[r] = "head" /\ pc' = [pc EXCEPT ![r] = s] /\ UNCHANGED <<conn, occupied>>
      BY DEF ReadHead, Goto
    <3>2. \A q \in Requests : framing'[q] \in Framings \cup {"empty"}
      BY <2>t, <2>b DEF ReadHead, TypeOK
    <3>3. f # "interim" BY DEF Plain
    <3>4. shutdown' = shutdown \/ shutdown' = [shutdown EXCEPT ![c] = TRUE]
      BY DEF ReadHead, Shut
    <3>5. wire' = wire \/ wire' = [wire EXCEPT ![c] = Tail(@)]
      BY DEF ReadHead, Consume
    <3>6. \A d \in Conns : d # c => wire'[d] = wire[d] /\ shutdown'[d] = shutdown[d]
      <4>1. \A d \in Conns : d # c => wire'[d] = wire[d] BY <3>5, <2>t, <2>h DEF TypeOK
      <4>2. \A d \in Conns : d # c => shutdown'[d] = shutdown[d] BY <3>4, <2>t, <2>h DEF TypeOK
      <4> QED BY <4>1, <4>2
    <3>7. ASSUME ~shutdown'[c]
          PROVE  wire'[c] = IF s \in Quiet THEN <<>> ELSE <<r>>
      <4>1. ~shutdown[c] /\ f # "invalid"
        <5>1. c \in Conns /\ shutdown \in [Conns -> BOOLEAN] BY <3>1, <2>t, <2>h DEF TypeOK
        <5>2. shutdown' # [shutdown EXCEPT ![c] = TRUE] BY <5>1, <3>7
        <5>3. shutdown' = shutdown BY <5>2, <3>4
        <5>4. f = "invalid" => shutdown' = [shutdown EXCEPT ![c] = TRUE]
          BY DEF ReadHead, Shut
        <5> QED BY <5>2, <5>3, <5>4, <3>7
      <4>2. wire[c] = <<r>> BY <4>1, <3>1, <2>h, <2>w
      <4>3. CASE f = "empty"
        <5>1. wire' = [wire EXCEPT ![c] = Tail(@)] BY <4>3 DEF ReadHead, Consume
        <5>2. c \in Conns BY <3>1, <2>h
        <5>3. wire'[c] = <<>> BY <5>1, <5>2, <4>2, <2>t, ReadOff
        <5>4. s \in Quiet BY <4>3, <2>q
        <5> QED BY <5>3, <5>4
      <4>4. CASE f # "empty"
        <5>1. wire' = wire BY <4>4 DEF ReadHead
        <5>2. s \notin Quiet BY <4>1, <4>4, <3>3, <2>q
        <5> QED BY <5>1, <5>2, <4>2
      <4> QED BY <4>3, <4>4
    <3>8. s \in Stages /\ c \in Conns BY <3>1, <2>h DEF Stages
    <3> HIDE DEF s
    <3> QED BY <3>1, <3>2, <3>6, <3>7, <3>8, HolderStep
  <2>16. CASE BodyEnd(r)
    <3>1. /\ pc[r] = "body" /\ pc' = [pc EXCEPT ![r] = "release"]
          /\ wire' = [wire EXCEPT ![c] = Tail(@)]
          /\ UNCHANGED <<conn, occupied, shutdown, framing>>
      BY <2>16 DEF BodyEnd, Goto, Consume
    <3>2. ~shutdown[c] => wire'[c] = <<>>
      <4>1. ~shutdown[c] => wire[c] = <<r>> BY <3>1, <2>w
      <4> QED BY <3>1, <4>1, <2>t, <2>h, ReadOff
    <3>3. \A d \in Conns : d # c => wire'[d] = wire[d] /\ shutdown'[d] = shutdown[d]
      BY <3>1, <2>t, <2>h DEF TypeOK
    <3>4. ~shutdown'[c] => wire'[c] = IF "release" \in Quiet THEN <<>> ELSE <<r>> BY <3>1, <3>2, <2>q
    <3>5. \A q \in Requests : framing'[q] \in Framings \cup {"empty"} BY <3>1, <2>b
    <3>6. c \in Conns BY <3>1, <2>h
    <3> QED BY <3>1, <3>4, <3>3, <3>5, <3>6, <2>s, HolderStep
  <2>17. CASE UntilCloseEof(r)
    <3>1. /\ pc[r] = "body" /\ pc' = [pc EXCEPT ![r] = "release"]
          /\ wire' = [wire EXCEPT ![c] = Tail(@)]
          /\ UNCHANGED <<conn, occupied, shutdown, framing>>
      BY <2>17 DEF UntilCloseEof, Goto, Consume
    <3>2. ~shutdown[c] => wire'[c] = <<>>
      <4>1. ~shutdown[c] => wire[c] = <<r>> BY <3>1, <2>w
      <4> QED BY <3>1, <4>1, <2>t, <2>h, ReadOff
    <3>3. \A d \in Conns : d # c => wire'[d] = wire[d] /\ shutdown'[d] = shutdown[d]
      BY <3>1, <2>t, <2>h DEF TypeOK
    <3>4. ~shutdown'[c] => wire'[c] = IF "release" \in Quiet THEN <<>> ELSE <<r>> BY <3>1, <3>2, <2>q
    <3>5. \A q \in Requests : framing'[q] \in Framings \cup {"empty"} BY <3>1, <2>b
    <3>6. c \in Conns BY <3>1, <2>h
    <3> QED BY <3>1, <3>4, <3>3, <3>5, <3>6, <2>s, HolderStep
  <2>24. CASE BodyCut(r)
    <3>1. /\ pc[r] = "body" /\ pc' = [pc EXCEPT ![r] = "release"]
          /\ wire' = [wire EXCEPT ![c] = Tail(@)]
          /\ UNCHANGED <<conn, occupied, shutdown, framing>>
      BY <2>24 DEF BodyCut, Goto, Consume
    <3>2. ~shutdown[c] => wire'[c] = <<>>
      <4>1. ~shutdown[c] => wire[c] = <<r>> BY <3>1, <2>w
      <4> QED BY <3>1, <4>1, <2>t, <2>h, ReadOff
    <3>3. \A d \in Conns : d # c => wire'[d] = wire[d] /\ shutdown'[d] = shutdown[d]
      BY <3>1, <2>t, <2>h DEF TypeOK
    <3>4. ~shutdown'[c] => wire'[c] = IF "release" \in Quiet THEN <<>> ELSE <<r>> BY <3>1, <3>2, <2>q
    <3>5. \A q \in Requests : framing'[q] \in Framings \cup {"empty"} BY <3>1, <2>b
    <3>6. c \in Conns BY <3>1, <2>h
    <3> QED BY <3>1, <3>4, <3>3, <3>5, <3>6, <2>s, HolderStep
  <2>18. CASE BodyAbort(r)
    <3>1. /\ pc[r] = "body" /\ pc' = [pc EXCEPT ![r] = "release"]
          /\ shutdown' = [shutdown EXCEPT ![c] = TRUE]
          /\ UNCHANGED <<conn, occupied, wire, framing>>
      BY <2>18 DEF BodyAbort, Goto, Shut
    <3>2. shutdown'[c] BY <3>1, <2>t, <2>h DEF TypeOK
    <3>3. \A d \in Conns : d # c => wire'[d] = wire[d] /\ shutdown'[d] = shutdown[d]
      BY <3>1, <2>t, <2>h DEF TypeOK
    <3>5. \A q \in Requests : framing'[q] \in Framings \cup {"empty"} BY <3>1, <2>b
    <3>6. c \in Conns BY <3>1, <2>h
    <3> QED BY <3>1, <3>2, <3>3, <3>5, <3>6, <2>s, HolderStep
  <2>19. CASE \E fault \in Faults : BodyRefused(r, fault)
    <3> PICK fault \in Faults : BodyRefused(r, fault) BY <2>19
    <3>1. fault = "malformed" BY ConstantsAssumption DEF Plain, AllFaults
    <3>2. framing[r] = "chunk" BY <3>1 DEF BodyRefused
    <3> QED BY <3>1, <3>2, <2>b DEF Plain
  <2>20. CASE Redirect(r)
    <3>1. /\ pc[r] = "body" /\ pc' = [pc EXCEPT ![r] = "acquire"]
          /\ conn' = [conn EXCEPT ![r] = None]
          /\ framing' = [framing EXCEPT ![r] = "empty"]
          /\ UNCHANGED <<wire, shutdown, occupied>>
      BY <2>20 DEF Redirect, Goto, Forget, flags
    <3>2. c \in Conns BY <3>1, <2>h, <2>w
    <3>3. \A q \in Requests : conn'[q] # None => conn'[q] = conn[q] /\ conn[q] # c
      BY <3>1, <2>t, <2>h DEF IInv, ExclusiveUse, Holds, TypeOK
    <3>4. pc'[r] = "acquire" /\ (\A q \in Requests : pc'[q] # pc[q] => q = r) /\ conn'[r] = None
      BY <3>1, <2>t, <2>h DEF TypeOK
    <3>5. \A q \in Requests : framing'[q] \in {framing[q], "empty"} BY <3>1, <2>t, <2>h DEF TypeOK
    <3>6. ~occupied'[c] /\ ~shutdown'[c] => wire[c] = <<>> BY <3>1, <3>2 DEF Clean
    <3> QED BY <3>1, <3>2, <3>3, <3>4, <3>5, <3>6, <2>s, GiveStep
  <2>21. CASE ReleaseConn(r)
    <3>1. /\ pc[r] = "release" /\ pc' = [pc EXCEPT ![r] = "permit"]
          /\ conn' = [conn EXCEPT ![r] = None]
          /\ framing' = [framing EXCEPT ![r] = "empty"]
          /\ occupied' = [occupied EXCEPT ![c] = FALSE]
          /\ UNCHANGED <<wire, shutdown>>
      BY <2>21 DEF ReleaseConn, Goto, Forget
    <3>2. c \in Conns BY <3>1, <2>h, <2>w
    <3>3. \A q \in Requests : conn'[q] # None => conn'[q] = conn[q] /\ conn[q] # c
      BY <3>1, <2>t, <2>h DEF IInv, ExclusiveUse, Holds, TypeOK
    <3>4. pc'[r] = "permit" /\ (\A q \in Requests : pc'[q] # pc[q] => q = r) /\ conn'[r] = None
      BY <3>1, <2>t, <2>h DEF TypeOK
    <3>5. \A q \in Requests : framing'[q] \in {framing[q], "empty"} BY <3>1, <2>t, <2>h DEF TypeOK
    <3>6. ~shutdown'[c] => wire[c] = <<>> BY <3>1, <2>h, <2>w
    <3>7. \A d \in Conns : d # c => occupied'[d] = occupied[d] BY <3>1, <2>t, <2>h DEF TypeOK
    <3>8. /\ wire' = wire /\ "permit" \in Stages
          /\ \A d \in Conns : d # c => shutdown'[d] = shutdown[d] /\ occupied'[d] = occupied[d]
          /\ ~occupied'[c] /\ ~shutdown'[c] => wire[c] = <<>>
      BY ONLY <3>1, <3>6, <3>7, <2>s, ZenonT(30)
    <3> QED BY ONLY <3>2, <3>3, <3>4, <3>5, <3>8, IInv, Clean, r \in Requests, GiveStep, ZenonT(30)
  <2>22. CASE ReleasePermit(r)
    <3>1. pc[r] = "permit" /\ UNCHANGED <<conn, occupied, shutdown, wire, framing>>
      BY <2>22 DEF ReleasePermit, flags
    <3>2. CASE conn[r] = None
      <4>1. pc' = [pc EXCEPT ![r] = AfterAttempt(r)] BY <2>22, <3>2 DEF ReleasePermit, Goto
      <4>2. AfterAttempt(r) \in Stages BY DEF AfterAttempt, Stages
      <4> QED BY <3>1, <3>2, <4>1, <4>2, <2>t, QuietStep
    <3>3. CASE conn[r] # None
      <4>1. pc' = [pc EXCEPT ![r] = "body"] BY <2>22, <3>3 DEF ReleasePermit, Goto
      <4> QED BY <3>1, <4>1, <2>t, <2>q, <2>s, QuietStep
    <3> QED BY <3>2, <3>3
  <2>23. CASE DropPrev(r)
    <3> DEFINE p == prev[r]
    <3>1. /\ pc[r] \in {"body", "drop_prev"} /\ pc' = [pc EXCEPT ![r] = "permit"]
          /\ p # None
          /\ shutdown' = [shutdown EXCEPT ![p] = TRUE]
          /\ occupied' = [occupied EXCEPT ![p] = FALSE]
          /\ UNCHANGED <<wire, conn, framing>>
      BY <2>23 DEF DropPrev, Goto, Shut
    <3>2. p \in Conns BY <3>1, <2>t, <2>h DEF TypeOK
    <3>3. \A q \in Requests : conn'[q] # None => conn'[q] = conn[q] /\ conn[q] # p
      BY <3>1, <3>2 DEF IInv, ExclusiveUse, Holds
    <3>4. pc'[r] = "permit" /\ (\A q \in Requests : pc'[q] # pc[q] => q = r)
      BY <3>1, <2>t, <2>h DEF TypeOK
    <3>5. conn'[r] # None => pc[r] \notin Quiet /\ "permit" \notin Quiet
      BY <3>1, <2>q DEF IInv, Located
    <3>6. shutdown'[p] /\ \A d \in Conns : d # p => shutdown'[d] = shutdown[d] /\ occupied'[d] = occupied[d]
      BY <3>1, <3>2, <2>t, <2>h DEF TypeOK
    <3>7. \A q \in Requests : framing'[q] \in {framing[q], "empty"} BY <3>1
    <3> QED BY <3>1, <3>2, <3>3, <3>4, <3>5, <3>6, <3>7, <2>s, GiveStep
  <2> QED
    BY <1>1, <2>1, <2>2, <2>3, <2>4, <2>5, <2>6, <2>7, <2>8, <2>9, <2>10, <2>11, <2>12, <2>13, <2>14, <2>15, <2>16, <2>17, <2>18, <2>19, <2>20, <2>21, <2>22, <2>23, <2>24
    DEF Connecting, Exchange, Dropping
<1> QED BY <1>0, <1>1 DEF Next

\* Reading the head on a connection that is not shut takes the response to the
\* request itself off the wire; no other step reads one.
LEMMA OwnHead ==
  IInv /\ Clean /\ [Next]_vars =>
    \A r \in Requests : reply'[r] # reply[r] /\ reply'[r] \notin {None, r} => shutdown[conn[r]]
<1> SUFFICES ASSUME IInv, Clean, [Next]_vars, NEW q \in Requests,
                    reply'[q] # reply[q], reply'[q] \notin {None, q}
             PROVE  shutdown[conn[q]]
  OBVIOUS
<1>0. reply \in [Requests -> Requests \cup {None}] BY DEF IInv, TypeOK
<1>1. PICK r \in Requests : Connecting(r) \/ Exchange(r) \/ Dropping(r)
  BY DEF Next, vars, tasks
<1>2. reply' # reply OBVIOUS
<1>3. ~ \E s \in Requests : reply' = [reply EXCEPT ![s] = None] BY <1>0
<1>4. ~Connecting(r)
  BY <1>2 DEF Connecting, Start, Acquire, CancelAcquire, LockList, ScanCheck, ScanDispatch,
     ScanBusy, ScanEnd, ConnectOk, ConnectFail, tasks
<1>5. ~Dropping(r)
  BY <1>2, <1>3 DEF Dropping, ReleaseConn, ReleasePermit, DropPrev, Forget
<1>6. ~InterceptRequestErr(r) /\ ~WriteRequest(r) /\ ~WriteFail(r) /\ ~ReadHeadFail(r)
  BY <1>2 DEF InterceptRequestErr, WriteRequest, WriteFail, ReadHeadFail
<1>7. ~BodyEnd(r) /\ ~BodyCut(r) /\ ~UntilCloseEof(r) /\ ~BodyAbort(r) /\ ~(\E fault \in Faults : BodyRefused(r, fault))
  BY <1>2 DEF BodyEnd, BodyCut, UntilCloseEof, BodyAbort, BodyRefused
<1>8. ~Redirect(r)
  BY <1>3 DEF Redirect, Forget
<1>9. PICK f \in Framings, keep \in BOOLEAN : ReadHead(r, f, keep)
  BY <1>1, <1>4, <1>5, <1>6, <1>7, <1>8 DEF Exchange
<1>10. reply' = [reply EXCEPT ![r] = Head(wire[conn[r]])] /\ pc[r] = "head"
  BY <1>9 DEF ReadHead
<1>11. q = r BY <1>0, <1>10
<1>12. reply'[r] = Head(wire[conn[r]]) BY <1>0, <1>10
<1>13. conn[r] # None BY <1>10 DEF IInv, Located
<1>14. pc[r] \notin Quiet BY <1>10 DEF Quiet
<1>15. ~shutdown[conn[r]] => wire[conn[r]] = <<r>> BY <1>13, <1>14 DEF Clean
<1>16. ~shutdown[conn[r]] => reply'[r] = r BY <1>12, <1>15, SMTT(30)
<1> QED BY <1>11, <1>16

\* HttpBody::drop and CancelGuard: whatever the interleaving of requests, a
\* connection goes back to the pool with a response still on its wire only with
\* its shutdown flag set, when the server and the interceptors are Plain.  The
\* rest of a last chunk that merge_chunks did not wait for is no response.
THEOREM PoolIdleIsClean == ASSUME Plain PROVE Spec => []IdleIsClean
<1>1. Init => Clean BY InitClean
<1>2. IInv /\ Clean /\ [Next]_vars => Clean' BY CleanStep
<1>3. IInv /\ Clean => IdleIsClean BY DEF Clean, IdleIsClean, IInv, TypeOK
<1> QED BY <1>1, <1>2, <1>3, PoolInvariant, PTL DEF Spec

\* A request reads the response to another one only on a connection whose
\* shutdown flag was set between the check of the flag in exist_h1_conn and the
\* exchange, when the server and the interceptors are Plain.
THEOREM PoolStrayOnlyIfShut == ASSUME Plain PROVE Spec => StrayOnlyIfShut
<1>1. Init => Clean BY InitClean
<1>2. IInv /\ Clean /\ [Next]_vars => Clean' BY CleanStep
<1>3. IInv /\ Clean /\ [Next]_vars =>
        [\A r \in Requests :
           reply'[r] # reply[r] /\ reply'[r] \notin {None, r} => shutdown[conn[r]]]_vars
  BY OwnHead
<1> QED BY <1>1, <1>2, <1>3, PoolInvariant, PTL DEF Spec, StrayOnlyIfShut

=============================================================================
