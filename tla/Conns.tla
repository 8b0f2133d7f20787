-------------------------------- MODULE Conns --------------------------------
(***************************************************************************)
(* How a request gets a connection of its origin: Conns::conn of           *)
(* async_impl/pool.rs with its five ways (conn_h1, conn_h2, conn_h3,       *)
(* conn_negotiate, conn_alt_svc), the three places connections wait in     *)
(* (list, h2_conn, h3_conn), the alternative services of util/alt_svc.rs,  *)
(* and the locks and permits that are held across an await.  One step runs *)
(* from one await to the next.  The scan of the HTTP/1.1 list is atomic    *)
(* here; Http1Pool takes it apart.                                         *)
(***************************************************************************)
EXTENDS Naturals, Sequences, FiniteSets

CONSTANTS Callers, Versions, Schemes, MaxConnNum, Offers,
          MaxOpened,        \* bound: connections the peer accepts
          MaxOffers,        \* bound: Alt-Svc headers received
          MaxCancels,       \* bound: requests given up while they wait
          Nobody            \* holds a lock that is free

VARIABLES version, scheme,  \* the client's configuration, the origin
          at,               \* each caller: pc, alt, advertised, permit, conn
          lock2, lock3,     \* owners of h2_conn and h3_conn
          usable,           \* permits of the HTTP/1.1 connections
          conns,            \* every connection opened, by number
          list, h2_conn, h3_conn,
          alt_svcs,         \* AltServiceMap for this origin
          says,             \* the peer's latest word: it offers HTTP/3
          left              \* Alt-Svc headers and cancellations to come

vars == <<version, scheme, at, lock2, lock3, usable, conns, list, h2_conn, h3_conn, alt_svcs, says, left>>
\* The map's mutex after a panic of a task that held it.
Poisoned == <<"poisoned">>
stores == <<conns, list, h2_conn, h3_conn>>
static == <<version, scheme, alt_svcs, says, left>>

Waiting == {"h3", "h2", "h1", "alt", "neg", "negPermit", "h3Connect", "h2Connect", "h1Connect", "altConnect", "negConnect"}

\* Only conn_negotiate asks for the scheme beyond what connect refuses.
Init == /\ version \in Versions
        /\ scheme \in (IF version = "Negotiate" THEN Schemes ELSE {"https"})
        /\ at = [c \in Callers |-> [pc |-> "idle", alt |-> <<>>, advertised |-> FALSE, permit |-> FALSE, conn |-> 0]]
        /\ lock2 = Nobody
        /\ lock3 = Nobody
        /\ usable = MaxConnNum
        /\ conns = <<>>
        /\ list = <<>>
        /\ h2_conn = <<>>
        /\ h3_conn = <<>>
        /\ alt_svcs = <<>>
        /\ says = FALSE
        /\ left = [offers |-> MaxOffers, cancels |-> MaxCancels]

\* conn: the version of the configuration chooses the way.  conn_negotiate
\* speaks HTTP/1.1 with an http origin.  get_alt_svcs unwraps the lock.
conn(c) == /\ at[c].pc = "idle"
           /\ at' = [at EXCEPT ![c].pc = CASE alt_svcs = Poisoned -> "panicked"
                                           [] alt_svcs # Poisoned /\ version = "Http3" -> "h3"
                                           [] alt_svcs # Poisoned /\ version = "Http2" -> "h2"
                                           [] alt_svcs # Poisoned /\ version = "Http1" -> "h1"
                                           [] OTHER -> "alt",
                               ![c].alt = alt_svcs, ![c].advertised = says]
           /\ UNCHANGED <<lock2, lock3, usable, stores, static>>

----------------------------------------------------------------------------
\* exist_h2_conn and exist_h3_conn look at the newest connection only: one
\* that is shut down is dropped, one that received GOAWAY stays underneath.
Newest(stack) == IF stack = <<>> THEN [conn |-> 0, stack |-> stack]
                 ELSE LET d == stack[Len(stack)]
                      IN CASE conns[d].state = "shutdown" -> [conn |-> 0, stack |-> SubSeq(stack, 1, Len(stack) - 1)]
                           [] conns[d].state = "live" -> [conn |-> d, stack |-> stack]
                           [] OTHER -> [conn |-> 0, stack |-> stack]
exist_h2_conn == Newest(h2_conn)
exist_h3_conn == Newest(h3_conn)

\* A request on HTTP/2 or HTTP/3 shares its connection.
Share(c, d) == [at EXCEPT ![c].pc = "using", ![c].conn = d]

\* conn_h3 waits for h3_conn and keeps it while it connects.
conn_h3(c) == /\ at[c].pc = "h3" /\ lock3 = Nobody
              /\ \E x \in {exist_h3_conn} :
                   /\ h3_conn' = x.stack
                   /\ IF x.conn # 0 THEN at' = Share(c, x.conn) /\ lock3' = lock3
                      ELSE at' = [at EXCEPT ![c].pc = "h3Connect"] /\ lock3' = c
              /\ UNCHANGED <<lock2, usable, conns, list, h2_conn, static>>

\* The only offer conn_alt_svc follows is the first one of HTTP/3.
conn_alt_svc(c) == /\ at[c].pc = "alt" /\ lock3 = Nobody
                   /\ \E x \in {exist_h3_conn} :
                        /\ h3_conn' = x.stack
                        /\ CASE x.conn # 0 -> at' = Share(c, x.conn) /\ lock3' = lock3
                             [] x.conn = 0 /\ \E i \in DOMAIN at[c].alt : at[c].alt[i] = "h3" ->
                                  at' = [at EXCEPT ![c].pc = "altConnect"] /\ lock3' = c
                             [] OTHER -> at' = [at EXCEPT ![c].pc = IF scheme = "https" THEN "neg" ELSE "h1"] /\ lock3' = lock3
                   /\ UNCHANGED <<lock2, usable, conns, list, h2_conn, static>>

conn_h2(c) == /\ at[c].pc = "h2" /\ lock2 = Nobody
              /\ \E x \in {exist_h2_conn} :
                   /\ h2_conn' = x.stack
                   /\ IF x.conn # 0 THEN at' = Share(c, x.conn) /\ lock2' = lock2
                      ELSE at' = [at EXCEPT ![c].pc = "h2Connect"] /\ lock2' = c
              /\ UNCHANGED <<lock3, usable, conns, list, h3_conn, static>>

LockForgotten(c) == /\ at[c].pc = "neg" /\ lock2 = Nobody
                     /\ \E x \in {exist_h2_conn} :
                          /\ h2_conn' = x.stack
                          /\ IF x.conn # 0 THEN at' = Share(c, x.conn) /\ lock2' = lock2
                             ELSE at' = [at EXCEPT ![c].pc = "negPermit"] /\ lock2' = Nobody
                     /\ UNCHANGED <<lock3, usable, conns, list, h3_conn, static>>

\* conn_negotiate keeps h2_conn while it waits for a permit and connects.
conn_negotiate(c) == /\ at[c].pc = "neg" /\ lock2 = Nobody
                     /\ \E x \in {exist_h2_conn} :
                          /\ h2_conn' = x.stack
                          /\ IF x.conn # 0 THEN at' = Share(c, x.conn) /\ lock2' = lock2
                             ELSE at' = [at EXCEPT ![c].pc = "negPermit"] /\ lock2' = c
                     /\ UNCHANGED <<lock3, usable, conns, list, h3_conn, static>>

Unlock2(c) == IF lock2 = c THEN Nobody ELSE lock2
Unlock3(c) == IF lock3 = c THEN Nobody ELSE lock3

\* exist_h1_conn drops the connections that are shut down and takes the
\* first one that is free.
Alive == SelectSeq(list, LAMBDA d : conns[d].state # "shutdown")
Free == {i \in DOMAIN Alive : ~conns[Alive[i]].busy}

\* The permit arrives, in conn_h1 or in conn_negotiate.
exist_h1_conn(c) == /\ at[c].pc \in {"h1", "negPermit"} /\ usable > 0
                    /\ list' = Alive
                    /\ usable' = usable - 1
                    /\ IF Free # {}
                       THEN \E d \in {Alive[CHOOSE i \in Free : \A j \in Free : i <= j]} :
                              /\ conns' = [conns EXCEPT ![d].busy = TRUE]
                              /\ at' = [at EXCEPT ![c].pc = "using", ![c].conn = d, ![c].permit = TRUE]
                              /\ lock2' = Unlock2(c)
                       ELSE /\ at' = [at EXCEPT ![c].pc = IF at[c].pc = "h1" THEN "h1Connect" ELSE "negConnect", ![c].permit = TRUE]
                            /\ UNCHANGED <<conns, lock2>>
                    /\ UNCHANGED <<lock3, h2_conn, h3_conn, static>>

----------------------------------------------------------------------------
New(kind) == Append(conns, [kind |-> kind, state |-> "live", busy |-> kind = "h1"])

\* dispatch_h1_conn, dispatch_h2_conn and dispatch_h3_conn put the new
\* connection where the next request looks for it.
dispatch_h1_conn(kind) == IF kind = "h1" THEN Append(list, Len(conns) + 1) ELSE list
dispatch_h2_conn(kind) == IF kind = "h2" THEN Append(h2_conn, Len(conns) + 1) ELSE h2_conn
dispatch_h3_conn(kind) == IF kind = "h3" THEN Append(h3_conn, Len(conns) + 1) ELSE h3_conn

\* A permit that is not moved into the connection is dropped.
PermitAfter(c, kind) == IF at[c].permit /\ kind # "h1" THEN usable + 1 ELSE usable

Dispatch(c, kind) == /\ Len(conns) < MaxOpened
                     /\ conns' = New(kind)
                     /\ at' = [at EXCEPT ![c].pc = "using", ![c].conn = Len(conns) + 1, ![c].permit = kind = "h1"]
                     /\ usable' = PermitAfter(c, kind)
                     /\ lock2' = Unlock2(c)
                     /\ lock3' = Unlock3(c)
                     /\ list' = dispatch_h1_conn(kind)
                     /\ h2_conn' = dispatch_h2_conn(kind)
                     /\ h3_conn' = dispatch_h3_conn(kind)
                     /\ UNCHANGED static

\* connect returns and ALPN has spoken.  conn_h2 accepts a peer that says
\* nothing on an http origin; conn_negotiate takes silence for HTTP/1.1.
ConnectOk(c) == \/ at[c].pc \in {"h3Connect", "altConnect"} /\ Dispatch(c, "h3")
                \/ at[c].pc = "h2Connect" /\ Dispatch(c, "h2")
                \/ at[c].pc = "h1Connect" /\ Dispatch(c, "h1")
                \/ at[c].pc = "negConnect" /\ \E alpn \in {"h1", "h2"} : Dispatch(c, alpn)

\* The error of connect and the refusals of conn_h2 and conn_negotiate drop
\* the lock and the permit with the future.
Dropped(c) == /\ usable' = (IF at[c].permit THEN usable + 1 ELSE usable)
              /\ lock2' = Unlock2(c)
              /\ lock3' = Unlock3(c)
ConnectErr(c) == /\ at[c].pc \in {"h3Connect", "h2Connect", "h1Connect", "negConnect"}
                 /\ at' = [at EXCEPT ![c].pc = "done", ![c].permit = FALSE]
                 /\ Dropped(c)
                 /\ UNCHANGED <<stores, static>>

\* An alternative that cannot be reached is not an error: the request
\* negotiates.
AltErr(c) == /\ at[c].pc = "altConnect"
             /\ at' = [at EXCEPT ![c].pc = IF scheme = "https" THEN "neg" ELSE "h1"]
             /\ lock3' = Unlock3(c)
             /\ UNCHANGED <<lock2, usable, stores, static>>

\* The caller drops the future of its request while it waits.
Cancel(c) == /\ at[c].pc \in Waiting /\ left.cancels > 0
             /\ at' = [at EXCEPT ![c].pc = "done", ![c].permit = FALSE]
             /\ left' = [left EXCEPT !.cancels = @ - 1]
             /\ Dropped(c)
             /\ UNCHANGED <<stores, version, scheme, alt_svcs, says>>

----------------------------------------------------------------------------
\* set_alt_svcs of a response: "clear" ends the offers at once, what does
\* not parse is passed over, the rest replaces what was known.  An offer with
\* nothing after its "=" makes parse_alt_svc panic with the map locked.
RECURSIVE Offered(_, _)
Offered(values, known) == CASE values = <<>> -> known
                            [] values # <<>> /\ Head(values) = "clear" -> <<>>
                            [] values # <<>> /\ Head(values) = "bad" -> Offered(Tail(values), known)
                            [] values # <<>> /\ Head(values) = "empty" -> Poisoned
                            [] OTHER -> Offered(Tail(values), Append(known, Head(values)))
set_alt_svcs(values) == Offered(values, <<>>)

Says(values) == /\ "h3" \in {values[i] : i \in DOMAIN values}
                /\ "clear" \notin {values[i] : i \in DOMAIN values}

\* A response may carry an Alt-Svc header.  An HTTP/1.1 connection goes back
\* or is shut; the permit goes with the handle, also when the task panics.
Finish(c) == /\ at[c].pc = "using"
             /\ \/ alt_svcs' = alt_svcs /\ says' = says /\ left' = left
                \/ /\ left.offers > 0
                   /\ left' = [left EXCEPT !.offers = @ - 1]
                   /\ \E values \in Offers :
                        /\ alt_svcs' = IF alt_svcs = Poisoned THEN Poisoned ELSE set_alt_svcs(values)
                        /\ says' = Says(values)
             /\ at' = [at EXCEPT ![c].pc = IF alt_svcs' = Poisoned THEN "panicked" ELSE "done", ![c].permit = FALSE]
             /\ usable' = (IF at[c].permit THEN usable + 1 ELSE usable)
             /\ IF conns[at[c].conn].kind = "h1"
                THEN \E s \in {"live", "shutdown"} : conns' = [conns EXCEPT ![at[c].conn].busy = FALSE, ![at[c].conn].state = s]
                ELSE conns' = conns
             /\ UNCHANGED <<version, scheme, lock2, lock3, list, h2_conn, h3_conn>>

\* get_alt_svcs retains the offers whose lifetime is not over.
Expire == /\ alt_svcs \notin {<<>>, Poisoned}
          /\ alt_svcs' = <<>>
          /\ says' = FALSE
          /\ UNCHANGED <<version, scheme, at, lock2, lock3, usable, stores, left>>

\* The peer of an HTTP/2 or HTTP/3 connection says GOAWAY or goes away.
PeerLeaves(d) == /\ conns[d].kind # "h1" /\ conns[d].state # "shutdown"
                 /\ \E s \in {"goaway", "shutdown"} \ {conns[d].state} : conns' = [conns EXCEPT ![d].state = s]
                 /\ UNCHANGED <<version, scheme, at, lock2, lock3, usable, list, h2_conn, h3_conn, alt_svcs, says, left>>

Connecting(c) == ConnectOk(c) \/ ConnectErr(c) \/ AltErr(c)
Locking(c) == conn_h3(c) \/ conn_alt_svc(c) \/ conn_h2(c) \/ conn_negotiate(c) \/ exist_h1_conn(c)

Proceed(c) == Locking(c) \/ Connecting(c) \/ Finish(c)

Next == \/ \E c \in Callers : conn(c) \/ Proceed(c) \/ Cancel(c)
        \/ \E d \in DOMAIN conns : PeerLeaves(d)
        \/ Expire

\* Locks and the semaphore wake their waiters, connect ends (it has its own
\* timeouts) and a response ends or is dropped.
Fairness == \A c \in Callers : WF_vars(Proceed(c))

Spec == Init /\ [][Next]_vars /\ Fairness

----------------------------------------------------------------------------
\* The lock of pool.rs 239-242 "is used to prevent multiple coroutines from
\* sending Requests at the same time under concurrent conditions, resulting
\* in the creation of multiple tcp connections": an origin has at most one
\* HTTP/2 and one HTTP/3 connection that takes new requests.
OneConnection == \A k \in {"h2", "h3"} : Cardinality({d \in DOMAIN conns : conns[d].kind = k /\ conns[d].state = "live"}) <= 1

\* A permit stands for an HTTP/1.1 connection in use or being opened also
\* where it is not yet known whether the peer speaks HTTP/1.1: never more
\* than max_conn_num of them are open or on their way.
PermitPerConnection == Cardinality({d \in DOMAIN conns : conns[d].kind = "h1" /\ conns[d].busy})
                         + Cardinality({c \in Callers : at[c].pc \in {"h1Connect", "negConnect"}}) + usable <= MaxConnNum

\* A connection to an alternative service is opened only for a request that
\* began while the peer's last Alt-Svc offered HTTP/3.
AltIsAdvertised == \A c \in Callers : at[c].pc = "altConnect" => at[c].advertised

Waits(c) == at[c].pc \in Waiting
Served(c) == at[c].pc \in {"using", "done"}

\* conn_negotiate waits for a permit with h2_conn locked; those that hold the
\* permits never want that lock, so every request gets a connection, an
\* error, or is given up.
EveryoneConnects == \A c \in Callers : Waits(c) ~> Served(c)
=============================================================================
