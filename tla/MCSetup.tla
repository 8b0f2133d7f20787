------------------------------ MODULE MCSetup ------------------------------
(* Nobody waits for ever: a request for its permit, its connection, its name *)
(* lookup or its answer, and the stream manager for its datagrams.  The      *)
(* components in which somebody waits are checked together, on instances     *)
(* small enough for liveness.  A behaviour picks one of them and takes only  *)
(* its steps.  SyncClient has variables of its own, which keep their first   *)
(* state when it is not picked; the others share theirs, and the ones a      *)
(* component does not use stay 0.                                            *)
EXTENDS SyncClient, Integers, TLC

VARIABLES which, s1, s2, s3, s4, s5, s6, s7, s8, s9, s10, s11, s12, s13, s14, s15, s16

First6 == <<s1, s2, s3, s4, s5, s6>>
First8 == <<First6, s7, s8>>
First13 == <<First8, s9, s10, s11, s12, s13>>
First16 == <<First13, s14, s15, s16>>

After13 == <<which, s14, s15, s16>>
After8 == <<s9, s10, s11, s12, s13, After13>>
After6 == <<s7, s8, After8>>
setupVars == <<which, First16>>

Zero13 == s14 = 0 /\ s15 = 0 /\ s16 = 0
Zero8 == s9 = 0 /\ s10 = 0 /\ s11 = 0 /\ s12 = 0 /\ s13 = 0 /\ Zero13
Zero6 == s7 = 0 /\ s8 = 0 /\ Zero8
Zero == s1 = 0 /\ s2 = 0 /\ s3 = 0 /\ s4 = 0 /\ s5 = 0 /\ s6 = 0 /\ Zero6

-----------------------------------------------------------------------------
\* Two requests and one permit for them; responses whose end the connection
\* or the body tells, and bodies that cannot be read.
PoolUsers == 1..2
P == INSTANCE Http1Pool WITH
       Requests <- PoolUsers, Conns <- 1..2, Permits <- {1}, None <- 0,
       Framings <- {"length", "until_close"},
       Faults <- {"malformed"}, Redirects <- FALSE, WireBound <- 2,
       usable <- s1, list <- s2, locker <- s3, unseen <- s4, looked <- s5, occupied <- s6,
       shutdown <- s7, sem <- s8, wire <- s9, spent <- s10, pc <- s11, conn <- s12,
       prev <- s13, loose <- s14, framing <- s15, reply <- s16

\* Three callers for one origin: more than the permits, so that one waits
\* with h2_conn locked while another uses the connection and a third waits
\* for the lock.
Callers == 1..3
N == INSTANCE Conns WITH
       Versions <- {"Http1", "Http2", "Http3", "Negotiate"}, Schemes <- {"http", "https"},
       MaxConnNum <- 1, MaxOpened <- 2, MaxOffers <- 0, MaxCancels <- 1, Nobody <- 0,
       Offers <- {},
       version <- s1, scheme <- s2, at <- s3, lock2 <- s4, lock3 <- s5, usable <- s6,
       conns <- s7, list <- s8, h2_conn <- s9, h3_conn <- s10, alt_svcs <- s11,
       says <- s12, left <- s13

\* Hosts of up to two addresses: each accepts or refuses before or after the
\* delay, or is silent.
Addresses == {a \in [v6 : BOOLEAN, answer : {"ok", "refuse", "never"}, after : {0, 2, 4}] :
                 a.answer = "never" => a.after = 0}
Hosts == {<<>>} \cup {<<a>> : a \in Addresses} \cup {<<a, b>> : a, b \in Addresses}
E == INSTANCE HappyEyeballs WITH
       Timeouts <- {0, 6}, Delay <- 3,
       addrs <- s1, timeout <- s2, now <- s3, stage <- s4, preferred <- s5, second <- s6,
       res <- s7, again <- s8

\* Two tasks that look up two names; a DoH server that answers, or answers
\* without an address, so that the next server is asked.
Resolvers == 1..2
D == INSTANCE DnsCache WITH
       Tasks <- Resolvers, Authorities <- {"x", "y"}, Ttl <- 2, Servers <- 2,
       Replies <- {<<[addr |-> TRUE, ttl |-> 1]>>, <<[addr |-> FALSE, ttl |-> 1]>>},
       MaxEntries <- 1, Horizon <- 3, MaxRounds <- 1,
       kind <- s1, now <- s2, task <- s3, map <- s4, lock <- s5, poisoned <- s6

I == INSTANCE H3Io WITH
       MaxPackets <- 2, MaxDatagrams <- 2, MaxTimeouts <- 1,
       st <- s1, quic <- s2, buf <- s3, sock <- s4, sig <- s5, timer <- s6, wake <- s7,
       raced <- s8

\* A multipart in a multipart, and bodies that are not ready at once.
T == INSTANCE MimeText
OneHeader == <<<<"n">>, <<"v">>>>
Multis ==
  {T!MimeMulti(<<>>, <<"B", "C">>,
               <<T!MimePart(<<OneHeader>>, <<"x", "y">>, "async"),
                 T!MimeMulti(<<>>, <<"I">>, <<T!MimePart(<<>>, <<"x">>, "owned")>>)>>),
   T!MimeMulti(<<>>, <<"B", "C">>, <<>>)}
X == INSTANCE MimeEncoder WITH
       BufSizes <- {1, 3}, MaxPends <- 1,
       multi <- s1, mode <- s2, enc <- s3, call <- s4, out <- s5, pends <- s6

\* Two threads that call in turn, every framing of a response.  Those of the
\* behaviours that pick another component have the first plan.
FirstPlan == <<<<"length">>, <<"zero">>>>
CallPlans == {FirstPlan, <<<<"chunk", "length">>, <<"none">>>>, <<<<"close">>, <<"chunk">>>>}

-----------------------------------------------------------------------------
Pick ==
  \/ which = "Http1Pool" /\ P!Init
  \/ which = "Conns" /\ N!Init /\ Zero13
  \/ which = "HappyEyeballs" /\ E!Init /\ Zero8
  \/ which = "DnsCache" /\ D!Init /\ Zero6
  \/ which = "H3Io" /\ I!Init /\ Zero8
  \/ which = "MimeEncoder" /\ X!Init /\ Zero6
SetupInit == Init /\ \/ Pick /\ plan = FirstPlan
                     \/ which = "SyncClient" /\ Zero

Step ==
  \/ which = "Http1Pool" /\ P!Next /\ UNCHANGED which
  \/ which = "Conns" /\ N!Next /\ UNCHANGED After13
  \/ which = "HappyEyeballs" /\ E!Next /\ UNCHANGED After8
  \/ which = "DnsCache" /\ D!Next /\ UNCHANGED After6
  \/ which = "H3Io" /\ I!Next /\ UNCHANGED After8
  \/ which = "MimeEncoder" /\ X!Next /\ UNCHANGED After6
SetupNext == \/ Step /\ UNCHANGED vars
             \/ which = "SyncClient" /\ Next /\ UNCHANGED setupVars

\* The steps that the components' specifications call fair, by the number of
\* the actor that takes them: one condition then serves them all.
FairStep(i) ==
  \/ which = "Http1Pool" /\ i \in PoolUsers /\ P!Working(i) /\ UNCHANGED which
  \/ which = "Conns" /\ N!Proceed(i) /\ UNCHANGED After13
  \/ which = "HappyEyeballs" /\ i = 1 /\ E!Step /\ UNCHANGED After8
  \/ which = "DnsCache" /\ i \in Resolvers /\ (D!Ask(i) \/ D!Answer(i)) /\ UNCHANGED After6
  \/ which = "H3Io" /\ i = 1 /\ I!IOManager /\ UNCHANGED After8
  \/ which = "H3Io" /\ i = 2 /\ I!SmSignals /\ UNCHANGED After8
  \/ which = "MimeEncoder" /\ i = 1 /\ X!Next /\ UNCHANGED After6
FairCall(i) == \/ i \in Threads /\ Thread(i)
               \/ i = 3 /\ \E c \in 1..Len(conns) : Answer(c)
Fair(i) == \/ FairStep(i) /\ UNCHANGED vars
           \/ which = "SyncClient" /\ FairCall(i) /\ UNCHANGED setupVars

Queued(i) ==
  \/ which = "Http1Pool" /\ P!Acquire(i) /\ UNCHANGED <<which, vars>>
  \/ which = "SyncClient" /\ Lock(i) /\ UNCHANGED setupVars

SetupFairness == /\ \A i \in 1..3 : WF_<<setupVars, vars>>(Fair(i))
                 /\ \A i \in 1..2 : SF_<<setupVars, vars>>(Queued(i))

SetupSpec == SetupInit /\ [][SetupNext]_<<setupVars, vars>> /\ SetupFairness

-----------------------------------------------------------------------------
(* The properties are stated with each component and hold of the behaviours  *)
(* that pick it.  OwnAnswer, BodyWhole and LeaseSpec are those of SyncClient.*)

\* H3Io: packets reach the socket in order, once and whole, and the task sleeps
\* only when QUIC has nothing left to send.
PacketsSent == which = "H3Io" => I!DatagramsInOrder /\ I!SleepsOnlyWhenSent

\* Whoever waits for something that others hold is served: a request for a
\* permit (Http1Pool!WaiterServed), a caller for the lock of h2_conn or h3_conn
\* and a permit (Conns!EveryoneConnects), a lookup for the lock of the map and
\* a server (DnsCache!LookupEnds), a thread for the mutex of the list and for
\* its answer (CallReturns).
Waiting(i) ==
  \/ which = "Http1Pool" /\ P!Waits(i)
  \/ which = "Conns" /\ N!Waits(i)
  \/ which = "DnsCache" /\ D!Begun(i)
  \/ which = "SyncClient" /\ Called(i)
Served(i) ==
  \/ which = "Http1Pool" /\ ~P!Waits(i)
  \/ which = "Conns" /\ N!Served(i)
  \/ which = "DnsCache" /\ D!Resolved(i)
  \/ which = "SyncClient" /\ Returned(i)
WaiterServed == \A i \in 1..2 : Waiting(i) ~> Served(i)

\* What was begun comes to its end: connecting to a host with several
\* addresses (HappyEyeballs!ConnectEnds), giving a MIME message out in pieces
\* (MimeEncoder!EncodingEnds), telling the stream manager of each datagram
\* that arrived (H3Io!DatagramsSignalled), reading a body (BodyEnds).
Working(i) ==
  \/ which = "HappyEyeballs"
  \/ which = "MimeEncoder"
  \/ which = "H3Io" /\ I!Arrived(i)
  \/ which = "SyncClient" /\ Reads(i)
Over(i) ==
  \/ which = "HappyEyeballs" /\ E!Ended
  \/ which = "MimeEncoder" /\ X!Ended
  \/ which = "H3Io" /\ I!Signalled(i)
  \/ which = "SyncClient" /\ ~InBody(i)
WorkEnds == \A i \in 1..2 : Working(i) ~> Over(i)
=============================================================================
