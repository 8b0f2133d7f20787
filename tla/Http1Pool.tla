----------------------------- MODULE Http1Pool -----------------------------
(***************************************************************************)
(* The HTTP/1 side of one origin's connection pool in the async client:    *)
(* Conns (async_impl/pool.rs), Http1Dispatcher, Http1Conn, CancelGuard and *)
(* the permit semaphore (util/dispatcher.rs), and the life of a request on *)
(* the connection it is given (async_impl/conn/http1.rs, http_body.rs,     *)
(* client.rs).  Every request is a task of its own; tasks run in parallel  *)
(* and share only the semaphore, the mutex-protected list and the atomic   *)
(* flags of the connections, so each step below is one access to those.    *)
(*                                                                         *)
(* The list is a set: the order of the Vec only decides which of several   *)
(* idle connections is reused, which nothing here tells apart.             *)
(***************************************************************************)
EXTENDS Naturals, Sequences, FiniteSets
LOCAL INSTANCE TLC

CONSTANTS
    Requests,    \* tasks that call Client::request on this origin
    Conns,       \* identities for connections, reused once a connection is gone
    Permits,     \* the permits of the semaphore, one per allowed connection
    Framings,    \* how the server frames responses: a subset of AllFramings
    Faults,      \* how reading a body may fail: a subset of AllFaults
    Redirects,   \* whether the server answers with redirections
    WireBound,   \* most responses kept on one wire, a bound of the model
    None         \* no request, no connection, no permit

AllFramings == {"empty", "length", "chunk", "until_close", "interim", "invalid"}

AllFaults == {"malformed", "intercept"}

ASSUME ConstantsAssumption ==
    /\ Framings \subseteq AllFramings
    /\ Faults \subseteq AllFaults
    /\ Redirects \in BOOLEAN
    /\ WireBound \in Nat
    /\ IsFiniteSet(Permits) /\ IsFiniteSet(Conns) /\ IsFiniteSet(Requests)
    /\ None \notin Requests \cup Conns \cup Permits

VARIABLES
    usable,      \* permits left in the semaphore
    list,        \* connections in Conns.list
    locker,      \* the request holding the mutex of the list, or None
    unseen,      \* entries the scan under the mutex has not passed yet
    looked,      \* entry whose shutdown flag was read as false, or None
    occupied,    \* Inner.occupied of each connection
    shutdown,    \* Inner.shutdown of each connection
    sem,         \* Http1Conn.sem: the permit inside the handle of a connection
    wire,        \* requests whose responses are still on the wire, oldest first
    spent,       \* the connection ended, or begins with the rest of a last chunk
    pc,          \* where each request is
    conn,        \* the connection whose handle the request holds, or None
    prev,        \* the connection held by the response being redirected, or None
    loose,       \* a permit the request holds outside any handle, or None
    framing,     \* framing of the response whose body the request is reading
    reply        \* the request that the response head read by a request answers

pool == <<usable, list, locker, unseen, looked>>
flags == <<occupied, shutdown, sem, wire, spent>>
tasks == <<pc, conn, prev, loose, framing, reply>>
vars == <<pool, flags, tasks>>

Stages == {"acquire", "lock", "scan", "connect", "request", "head", "body",
           "release", "permit", "drop_prev", "done"}

TypeOK ==
    /\ usable \subseteq Permits
    /\ list \subseteq Conns
    /\ locker \in Requests \cup {None}
    /\ unseen \subseteq Conns
    /\ looked \in Conns \cup {None}
    /\ occupied \in [Conns -> BOOLEAN]
    /\ shutdown \in [Conns -> BOOLEAN]
    /\ sem \in [Conns -> Permits \cup {None}]
    /\ wire \in [Conns -> Seq(Requests)]
    /\ spent \in [Conns -> BOOLEAN]
    /\ pc \in [Requests -> Stages]
    /\ conn \in [Requests -> Conns \cup {None}]
    /\ prev \in [Requests -> Conns \cup {None}]
    /\ loose \in [Requests -> Permits \cup {None}]
    /\ framing \in [Requests -> AllFramings]
    /\ reply \in [Requests -> Requests \cup {None}]

Init ==
    /\ usable = Permits
    /\ list = {}
    /\ locker = None
    /\ unseen = {}
    /\ looked = None
    /\ occupied = [c \in Conns |-> FALSE]
    /\ shutdown = [c \in Conns |-> FALSE]
    /\ sem = [c \in Conns |-> None]
    /\ wire = [c \in Conns |-> <<>>]
    /\ spent = [c \in Conns |-> FALSE]
    /\ pc = [r \in Requests |-> "done"]
    /\ conn = [r \in Requests |-> None]
    /\ prev = [r \in Requests |-> None]
    /\ loose = [r \in Requests |-> None]
    /\ framing = [r \in Requests |-> "empty"]
    /\ reply = [r \in Requests |-> None]

Goto(r, stage) == pc' = [pc EXCEPT ![r] = stage]

\* The task is done with the response it has read.
Forget(r) ==
    /\ framing' = [framing EXCEPT ![r] = "empty"]
    /\ reply' = [reply EXCEPT ![r] = None]

\* Where a task goes once its attempt is over: the response it was redirected
\* from, if any, is dropped on the way.
AfterAttempt(r) == IF prev[r] = None THEN "done" ELSE "drop_prev"

-----------------------------------------------------------------------------
(* Getting a connection: Conns::conn_h1 and exist_h1_conn. *)

\* Client::request: a first call, or the next turn of its retry loop.
Start(r) ==
    /\ pc[r] = "done"
    /\ Goto(r, "acquire")
    /\ UNCHANGED <<pool, flags, conn, prev, loose, framing, reply>>

\* WrappedSemaphore::acquire: waits while the semaphore has no permit.
Acquire(r) ==
    /\ pc[r] = "acquire"
    /\ \E p \in usable :
         /\ usable' = usable \ {p}
         /\ loose' = [loose EXCEPT ![r] = p]
    /\ Goto(r, "lock")
    /\ UNCHANGED <<list, locker, unseen, looked, flags, conn, prev, framing, reply>>

\* The future is dropped while it waits for a permit: a connect timeout, or the
\* caller gives up.
CancelAcquire(r) ==
    /\ pc[r] = "acquire"
    /\ Goto(r, AfterAttempt(r))
    /\ UNCHANGED <<pool, flags, conn, prev, loose, framing, reply>>

\* exist_h1_conn takes the mutex of the list.
LockList(r) ==
    /\ pc[r] = "lock"
    /\ locker = None
    /\ locker' = r
    /\ unseen' = list
    /\ Goto(r, "scan")
    /\ UNCHANGED <<usable, list, looked, flags, conn, prev, loose, framing, reply>>

\* The scan reads the shutdown flag of an entry: a shut entry is removed, an
\* open one is a candidate unless the scan already has a connection.
ScanCheck(r) ==
    /\ pc[r] = "scan"
    /\ looked = None
    /\ \E c \in unseen :
         \/ /\ shutdown[c]
            /\ list' = list \ {c}
            /\ unseen' = unseen \ {c}
            /\ UNCHANGED looked
         \/ /\ ~shutdown[c]
            /\ conn[r] = None
            /\ looked' = c
            /\ UNCHANGED <<list, unseen>>
         \/ /\ ~shutdown[c]
            /\ conn[r] # None
            /\ unseen' = unseen \ {c}
            /\ UNCHANGED <<list, looked>>
    /\ UNCHANGED <<usable, locker, flags, tasks>>

\* Mutation of ScanDispatch: a store in place of the compare-and-exchange.
ScanDispatchStore(r) ==
    /\ pc[r] = "scan"
    /\ looked # None
    /\ unseen' = unseen \ {looked}
    /\ looked' = None
    /\ occupied' = [occupied EXCEPT ![looked] = TRUE]
    /\ sem' = [sem EXCEPT ![looked] = loose[r]]
    /\ conn' = [conn EXCEPT ![r] = looked]
    /\ loose' = [loose EXCEPT ![r] = None]
    /\ UNCHANGED <<usable, list, locker, shutdown, wire, spent, pc, prev, framing, reply>>

\* Http1Dispatcher::dispatch: the compare-and-exchange of the occupied flag
\* succeeds and the handle takes the permit (occupy_sem).
ScanDispatch(r) ==
    /\ pc[r] = "scan"
    /\ looked # None
    /\ ~occupied[looked]
    /\ unseen' = unseen \ {looked}
    /\ looked' = None
    /\ occupied' = [occupied EXCEPT ![looked] = TRUE]
    /\ sem' = [sem EXCEPT ![looked] = loose[r]]
    /\ conn' = [conn EXCEPT ![r] = looked]
    /\ loose' = [loose EXCEPT ![r] = None]
    /\ UNCHANGED <<usable, list, locker, shutdown, wire, spent, pc, prev, framing, reply>>

\* The compare-and-exchange fails: the scan goes on to the next entry.
ScanBusy(r) ==
    /\ pc[r] = "scan"
    /\ looked # None
    /\ occupied[looked]
    /\ unseen' = unseen \ {looked}
    /\ looked' = None
    /\ UNCHANGED <<usable, list, locker, flags, tasks>>

\* The scan is over and the mutex is released.
ScanEnd(r) ==
    /\ pc[r] = "scan"
    /\ looked = None
    /\ unseen = {}
    /\ locker' = None
    /\ Goto(r, IF conn[r] = None THEN "connect" ELSE "request")
    /\ UNCHANGED <<usable, list, unseen, looked, flags, conn, prev, loose, framing, reply>>

\* An identity no list entry and no handle refers to.
Unused(c) ==
    /\ c \notin list
    /\ \A r \in Requests : conn[r] # c /\ prev[r] # c

\* connector.connect succeeds; dispatch_h1_conn dispatches the new connection
\* and pushes it on the list under the mutex.
ConnectOk(r) ==
    /\ pc[r] = "connect"
    /\ locker = None
    /\ \E c \in Conns :
         /\ Unused(c)
         /\ list' = list \cup {c}
         /\ occupied' = [occupied EXCEPT ![c] = TRUE]
         /\ shutdown' = [shutdown EXCEPT ![c] = FALSE]
         /\ sem' = [sem EXCEPT ![c] = loose[r]]
         /\ wire' = [wire EXCEPT ![c] = <<>>]
         /\ spent' = [spent EXCEPT ![c] = FALSE]
         /\ conn' = [conn EXCEPT ![r] = c]
    /\ loose' = [loose EXCEPT ![r] = None]
    /\ Goto(r, "request")
    /\ UNCHANGED <<usable, locker, unseen, looked, prev, framing, reply>>

\* Mutation of ConnectFail: the permit is not given back.
ConnectFailLeak(r) ==
    /\ pc[r] = "connect"
    /\ loose' = [loose EXCEPT ![r] = None]
    /\ Goto(r, AfterAttempt(r))
    /\ UNCHANGED <<pool, flags, conn, prev, framing, reply>>

\* connector.connect fails, or the future is dropped while it connects: only
\* the permit is left to drop.
ConnectFail(r) ==
    /\ pc[r] = "connect"
    /\ Goto(r, "permit")
    /\ UNCHANGED <<pool, flags, conn, prev, loose, framing, reply>>

-----------------------------------------------------------------------------
(* The exchange on the connection: conn/http1.rs and HttpBody. *)

Shut(c) == shutdown' = [shutdown EXCEPT ![c] = TRUE]

\* The oldest response on the wire has been read to its end.
Consume(c) == wire' = [wire EXCEPT ![c] = Tail(@)]

\* intercept_request refuses the request before anything is written.
InterceptRequestErr(r) ==
    /\ pc[r] = "request"
    /\ Goto(r, "release")
    /\ UNCHANGED <<pool, flags, conn, prev, loose, framing, reply>>

\* encode_request_part and encode_various_body write the request.
WriteRequest(r) ==
    /\ pc[r] = "request"
    /\ Len(wire[conn[r]]) < WireBound
    /\ wire' = [wire EXCEPT ![conn[r]] = Append(@, r)]
    /\ Goto(r, "head")
    /\ UNCHANGED <<pool, occupied, shutdown, sem, spent, conn, prev, loose, framing, reply>>

\* Writing fails, or the task is cancelled while it writes: conn.shutdown() or
\* the CancelGuard sets the flag.  The server may answer what it has received.
WriteFail(r) ==
    /\ pc[r] = "request"
    /\ Len(wire[conn[r]]) < WireBound
    /\ wire' = [wire EXCEPT ![conn[r]] = Append(@, r)]
    /\ Shut(conn[r])
    /\ Goto(r, "release")
    /\ UNCHANGED <<pool, occupied, sem, spent, conn, prev, loose, framing, reply>>

\* Mutation of ReadHeadFail: no CancelGuard.
ReadHeadFailUnguarded(r) ==
    /\ pc[r] = "head"
    /\ Goto(r, "release")
    /\ UNCHANGED <<pool, flags, conn, prev, loose, framing, reply>>

\* The connection ends or fails before the head is decoded, the decoder or an
\* interceptor refuses it, or the task is cancelled: conn.shutdown() or the
\* CancelGuard sets the flag before the handle is dropped.
ReadHeadFail(r) ==
    /\ pc[r] = "head"
    /\ Shut(conn[r])
    /\ Goto(r, "release")
    /\ UNCHANGED <<pool, occupied, sem, wire, spent, conn, prev, loose, framing, reply>>

\* A response head arrives, which it does not behind the rest of a last chunk
\* (version_phase of ResponseDecoder refuses that): the guard ends normally and decode_response acts on
\* the Connection header (keep) and on the framing (BodyLengthParser).  A body
\* that is empty drops the handle at once; "interim" is a 1xx status, which is
\* framed as an empty body although the final response is still to come;
\* "invalid" stands for a bad Content-Length or bytes after an empty body.
ReadHead(r, f, keep) ==
    LET c == conn[r] IN
    /\ pc[r] = "head"
    /\ wire[c] # <<>> /\ ~spent[c]
    /\ reply' = [reply EXCEPT ![r] = Head(wire[c])]
    /\ framing' = [framing EXCEPT ![r] = f]
    /\ IF keep /\ f # "invalid" THEN UNCHANGED shutdown ELSE Shut(c)
    /\ IF f = "empty" THEN Consume(c) ELSE UNCHANGED wire
    /\ Goto(r, IF f \in {"empty", "interim", "invalid"} THEN "release" ELSE "body")
    /\ UNCHANGED <<pool, occupied, sem, spent, conn, prev, loose>>

\* Text and Chunk give up the connection once the body is complete.
BodyEnd(r) ==
    /\ pc[r] = "body"
    /\ prev[r] = None
    /\ framing[r] \in {"length", "chunk"}
    /\ Consume(conn[r])
    /\ Goto(r, "release")
    /\ UNCHANGED <<pool, occupied, shutdown, sem, spent, conn, prev, loose, framing, reply>>

\* merge_chunks takes a body for finished when a read ends inside its last chunk,
\* right after the 0 and again inside the line ends behind it: Chunk gives up the
\* connection, without a shutdown, with the rest of that chunk still to come.
BodyCut(r) ==
    /\ pc[r] = "body"
    /\ prev[r] = None
    /\ framing[r] = "chunk"
    /\ Consume(conn[r])
    /\ spent' = [spent EXCEPT ![conn[r]] = TRUE]
    /\ Goto(r, "release")
    /\ UNCHANGED <<pool, occupied, shutdown, sem, conn, prev, loose, framing, reply>>

\* UntilClose reads the end of the connection.  is_stream_closable is true for
\* HTTP/1, so the handle is dropped by the early return, without a shutdown.
UntilCloseEof(r) ==
    /\ pc[r] = "body"
    /\ prev[r] = None
    /\ framing[r] = "until_close"
    /\ Consume(conn[r])
    /\ spent' = [spent EXCEPT ![conn[r]] = TRUE]
    /\ Goto(r, "release")
    /\ UNCHANGED <<pool, occupied, shutdown, sem, conn, prev, loose, framing, reply>>

\* The body is dropped unread, ends too early, fails or is too long: HttpBody
\* and its readers shut the connection before they drop it.
BodyAbort(r) ==
    /\ pc[r] = "body"
    /\ prev[r] = None
    /\ Shut(conn[r])
    /\ Goto(r, "release")
    /\ UNCHANGED <<pool, occupied, sem, wire, spent, conn, prev, loose, framing, reply>>

\* merge_chunks refuses a chunk (also a sound one with trailers, when a read ended
\* right after its 0), or intercept_output refuses bytes just read:
\* the `?` returns while the reader has taken the handle out of self.io, which
\* drops it without a shutdown.
BodyRefused(r, fault) ==
    /\ pc[r] = "body"
    /\ prev[r] = None
    /\ fault = "malformed" => framing[r] = "chunk"
    /\ Goto(r, "release")
    /\ UNCHANGED <<pool, flags, conn, prev, loose, framing, reply>>

\* Client::redirect follows a redirection: the response, with the body that
\* holds the connection, lives until the next response replaces it.
Redirect(r) ==
    /\ Redirects
    /\ pc[r] = "body"
    /\ prev[r] = None
    /\ prev' = [prev EXCEPT ![r] = conn[r]]
    /\ conn' = [conn EXCEPT ![r] = None]
    /\ Forget(r)
    /\ Goto(r, "acquire")
    /\ UNCHANGED <<pool, flags, loose>>

-----------------------------------------------------------------------------
(* Dropping handles and permits. *)

\* Mutation of ReleaseConn: the permit is not taken out of the handle.
ReleaseConnNoPermit(r) ==
    /\ pc[r] = "release"
    /\ occupied' = [occupied EXCEPT ![conn[r]] = FALSE]
    /\ conn' = [conn EXCEPT ![r] = None]
    /\ Forget(r)
    /\ Goto(r, "permit")
    /\ UNCHANGED <<pool, shutdown, sem, wire, spent, prev, loose>>

\* Http1Conn::drop stores occupied = false; the fields go afterwards, and with
\* them the permit.
ReleaseConn(r) ==
    /\ pc[r] = "release"
    /\ occupied' = [occupied EXCEPT ![conn[r]] = FALSE]
    /\ sem' = [sem EXCEPT ![conn[r]] = None]
    /\ loose' = [loose EXCEPT ![r] = sem[conn[r]]]
    /\ conn' = [conn EXCEPT ![r] = None]
    /\ Forget(r)
    /\ Goto(r, "permit")
    /\ UNCHANGED <<pool, shutdown, wire, spent, prev>>

\* WrappedSemPermit::drop gives the permit back.
ReleasePermit(r) ==
    /\ pc[r] = "permit"
    /\ usable' = usable \cup {loose[r]}
    /\ loose' = [loose EXCEPT ![r] = None]
    /\ Goto(r, IF conn[r] = None THEN AfterAttempt(r) ELSE "body")
    /\ UNCHANGED <<list, locker, unseen, looked, flags, conn, prev, framing, reply>>

\* Mutation of DropPrev: the permit of the redirected response is forgotten.
DropPrevLeak(r) ==
    /\ pc[r] \in {"body", "drop_prev"}
    /\ prev[r] # None
    /\ Shut(prev[r])
    /\ occupied' = [occupied EXCEPT ![prev[r]] = FALSE]
    /\ sem' = [sem EXCEPT ![prev[r]] = None]
    /\ prev' = [prev EXCEPT ![r] = None]
    /\ Goto(r, IF conn[r] = None THEN "done" ELSE "body")
    /\ UNCHANGED <<pool, wire, spent, conn, loose, framing, reply>>

\* The redirected response is dropped, when the next one replaces it or with
\* the error of the attempt: its body was not read, so HttpBody::drop shuts the
\* connection and then drops the handle.
DropPrev(r) ==
    /\ pc[r] \in {"body", "drop_prev"}
    /\ prev[r] # None
    /\ Shut(prev[r])
    /\ occupied' = [occupied EXCEPT ![prev[r]] = FALSE]
    /\ sem' = [sem EXCEPT ![prev[r]] = None]
    /\ loose' = [loose EXCEPT ![r] = sem[prev[r]]]
    /\ prev' = [prev EXCEPT ![r] = None]
    /\ Goto(r, "permit")
    /\ UNCHANGED <<pool, wire, spent, conn, framing, reply>>

-----------------------------------------------------------------------------

Connecting(r) ==
    \/ Start(r) \/ Acquire(r) \/ CancelAcquire(r) \/ LockList(r)
    \/ ScanCheck(r) \/ ScanDispatch(r) \/ ScanBusy(r) \/ ScanEnd(r)
    \/ ConnectOk(r) \/ ConnectFail(r)

Exchange(r) ==
    \/ InterceptRequestErr(r) \/ WriteRequest(r) \/ WriteFail(r)
    \/ ReadHeadFail(r)
    \/ \E f \in Framings, keep \in BOOLEAN : ReadHead(r, f, keep)
    \/ BodyEnd(r) \/ BodyCut(r) \/ UntilCloseEof(r) \/ BodyAbort(r)
    \/ \E fault \in Faults : BodyRefused(r, fault)
    \/ Redirect(r)

Dropping(r) == ReleaseConn(r) \/ ReleasePermit(r) \/ DropPrev(r)

Next == \E r \in Requests : Connecting(r) \/ Exchange(r) \/ Dropping(r)

Spec == Init /\ [][Next]_vars

\* Tokio and ylong both queue the waiters of a semaphore, so a request that
\* waits while permits keep coming back is served (strong fairness).  Runnable
\* tasks run, the peer answers or the connection fails, and the caller reads or
\* drops a body it was given (weak fairness).  Nobody has to start a request or
\* to give one up.
Working(r) ==
    \/ LockList(r) \/ ScanCheck(r) \/ ScanDispatch(r) \/ ScanBusy(r) \/ ScanEnd(r)
    \/ ConnectOk(r) \/ ConnectFail(r) \/ Exchange(r) \/ Dropping(r)

Fairness == \A r \in Requests : WF_vars(Working(r)) /\ SF_vars(Acquire(r))

FairSpec == Spec /\ Fairness

-----------------------------------------------------------------------------
(* Properties. *)

Holds(r, c) == conn[r] = c \/ prev[r] = c

Held == {c \in Conns : \E r \in Requests : Holds(r, c)}

\* Http1Inner: "Only one coroutine can get the handle at the same time": no two
\* requests hold the same connection, a request never holds one twice, and the
\* occupied flag is set exactly while somebody holds the connection.  The
\* unsafe raw_mut of Http1Conn is sound only because of this.
ExclusiveUse ==
    /\ \A r, s \in Requests : \A c \in Conns : Holds(r, c) /\ Holds(s, c) => r = s
    /\ \A r \in Requests : conn[r] # None => conn[r] # prev[r]
    /\ \A c \in Conns : occupied[c] <=> c \in Held

\* ClientBuilder::max_h1_conn_number: connections that are listed or held, shut
\* ones included, together with those being set up, never outnumber the
\* permits, however releases interleave with a scan of the list.
Dialing == {r \in Requests : pc[r] = "connect"}

ConnLimit == Cardinality(list \cup Held) + Cardinality(Dialing) <= Cardinality(Permits)

\* No permit is lost or duplicated: every permit is in exactly one place, which
\* is the semaphore, the future of one request or the handle of one connection.
PermitsConserved ==
    /\ \A p \in Permits :
         \/ p \in usable
         \/ \E r \in Requests : loose[r] = p
         \/ \E c \in Conns : sem[c] = p
    /\ \A r \in Requests : loose[r] \notin usable
    /\ \A c \in Conns : sem[c] \notin usable
    /\ \A r, s \in Requests : loose[r] # None /\ loose[r] = loose[s] => r = s
    /\ \A c, d \in Conns : sem[c] # None /\ sem[c] = sem[d] => c = d
    /\ \A r \in Requests, c \in Conns : loose[r] # None => loose[r] # sem[c]

\* HttpBody::drop and CancelGuard: a connection that went back to the pool with
\* a response still on the wire is marked as shut, so that no scan that starts
\* later hands it out.  What may be left there without a mark is the rest of a
\* last chunk (BodyCut), which is no response and is never read as one.
IdleIsClean == \A c \in list : ~occupied[c] /\ wire[c] # <<>> => shutdown[c]

\* A response head that answers another request can only be read on a
\* connection whose shutdown flag is already set.
StrayOnlyIfShut ==
    [][\A r \in Requests :
         reply'[r] # reply[r] /\ reply'[r] \notin {None, r} => shutdown[conn[r]]]_vars

\* CancelGuard::drop: "the IO needs to be shutdown to prevent the reuse of
\* dirty data": every response a request reads is the response to it.
RightResponse == \A r \in Requests : reply[r] \in {None, r}

\* The pool implements the lease of connections that its users rely on: each
\* step of a scan, a connect, a redirection or a drop lends one connection, takes
\* one back, or changes nothing the users can tell.
Lease == INSTANCE ConnLease WITH
            Limit <- Cardinality(Permits),
            held <- {p \in Requests \X Conns : Holds(p[1], p[2])}

LeaseSpec == Lease!Spec

Waits(r) == pc[r] = "acquire"

\* Every request that waits for a permit gets one or gives up.
WaiterServed == \A r \in Requests : Waits(r) ~> ~Waits(r)

\* For TLC: requests, connections and permits are interchangeable in every
\* invariant.
Symmetry == Permutations(Requests) \cup Permutations(Conns) \cup Permutations(Permits)

=============================================================================
