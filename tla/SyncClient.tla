------------------------------ MODULE SyncClient ------------------------------
(***************************************************************************)
(* The blocking client (ylong_http_client/src/sync_impl): its pool of      *)
(* connections (pool.rs), one exchange (conn/http1.rs), the response body  *)
(* (http_body.rs) and the retry loop (client.rs).  Threads share the pool; *)
(* the mutex of the list is held through the scan and through connect.     *)
(* A connection carries cells: the head of a response, then the cells of   *)
(* its body ("b" data, "z" the last chunk, or what is left of it).  The    *)
(* server answers every request it was sent in whole, or closes.           *)
(***************************************************************************)
EXTENDS Naturals, Sequences, FiniteSets

CONSTANTS Threads,
          Plans,       \* what the server answers: thread -> framing of each of its calls
          Retries,     \* Retry::times
          Faults,      \* what may go wrong: "connect", "body", "reset", "close", "leave"
          FaultBudget, \* bound: faults in a behaviour
          Nobody

VARIABLES plan,   \* the framings chosen
          call,   \* thread -> [pc, n, idx, conn, retries, framing, left, pre, body]
          conns,  \* opened connections: [occupied, shutdown, asked, wire, eof, cut, dirty]
          list,   \* the connections the pool knows
          lock,   \* the thread that holds the mutex of the list
          misled, \* a call on an undisturbed connection read what was not for it
          faults  \* faults so far

vars == <<plan, call, conns, list, lock, misled, faults>>

Idle == [pc |-> "idle", n |-> 0, idx |-> 1, conn |-> 0, retries |-> 0, framing |-> "none", left |-> 0,
         pre |-> <<>>, body |-> 0]
Init == /\ plan \in Plans
        /\ call = [t \in Threads |-> Idle]
        /\ conns = <<>> /\ list = <<>> /\ lock = Nobody
        /\ misled = FALSE /\ faults = 0

\* A fault of the given kind may still happen.
Fault(kind) == kind \in Faults /\ faults < FaultBudget /\ faults' = faults + 1

\* The server's answer: a head, and the cells of its body.  "none" and "zero"
\* have no body; "close" says nothing of its body, which the end of the
\* connection ends.
Reply(of, framing) ==
  <<[of |-> of, is |-> framing]>> \o
  (CASE framing \in {"length", "close"} -> <<[of |-> of, is |-> "b"], [of |-> of, is |-> "b"]>>
     [] framing = "chunk" -> <<[of |-> of, is |-> "b"], [of |-> of, is |-> "z"]>>
     [] OTHER -> <<>>)
IsHead(cell) == cell.is \notin {"b", "z"}
Me(t) == <<t, call[t].n>>

----------------------------------------------------------------------------
\* Client::request, retry_send_request.
request(t) ==
  /\ call[t].pc = "idle" /\ call[t].n < Len(plan[t])
  /\ call' = [call EXCEPT ![t] = [Idle EXCEPT !.pc = "lock", !.n = call[t].n + 1, !.retries = Retries]]
  /\ UNCHANGED <<plan, conns, list, lock, misled, faults>>

\* An attempt failed before there was a response: again, or the error.
Retried(t) == [call EXCEPT ![t].pc = IF call[t].retries = 0 THEN "failed" ELSE "lock", ![t].conn = 0,
                           ![t].retries = IF @ = 0 THEN 0 ELSE @ - 1]

\* Conns::conn: the mutex of the list.
Lock(t) ==
  /\ call[t].pc = "lock" /\ lock = Nobody
  /\ lock' = t
  /\ call' = [call EXCEPT ![t].pc = "scan", ![t].idx = 1]
  /\ UNCHANGED <<plan, conns, list, misled, faults>>

\* One entry of the list: removed when it is shut down, else passed to
\* dispatch unless a connection was found.
is_shutdown(t) ==
  /\ call[t].pc = "scan" /\ call[t].idx <= Len(list)
  /\ IF conns[list[call[t].idx]].shutdown
     THEN /\ list' = SubSeq(list, 1, call[t].idx - 1) \o SubSeq(list, call[t].idx + 1, Len(list))
          /\ call' = call
     ELSE /\ call' = IF call[t].conn = 0 THEN [call EXCEPT ![t].pc = "dispatch"] ELSE [call EXCEPT ![t].idx = @ + 1]
          /\ list' = list
  /\ UNCHANGED <<plan, conns, lock, misled, faults>>
Dispatched(t, c) ==
  /\ conns' = [conns EXCEPT ![c].occupied = TRUE]
  /\ call' = [call EXCEPT ![t].pc = "scan", ![t].idx = @ + 1, ![t].conn = c]
\* Mutation of dispatch: the occupied flag is not looked at.
DispatchAlways(t) ==
  /\ call[t].pc = "dispatch"
  /\ Dispatched(t, list[call[t].idx])
  /\ UNCHANGED <<plan, list, lock, misled, faults>>
dispatch(t) ==
  /\ call[t].pc = "dispatch"
  /\ IF conns[list[call[t].idx]].occupied
     THEN call' = [call EXCEPT ![t].pc = "scan", ![t].idx = @ + 1] /\ conns' = conns
     ELSE Dispatched(t, list[call[t].idx])
  /\ UNCHANGED <<plan, list, lock, misled, faults>>

\* The end of the scan: the connection found, or connect under the mutex.
Found(t) ==
  /\ call[t].pc = "scan" /\ call[t].idx > Len(list) /\ call[t].conn # 0
  /\ call' = [call EXCEPT ![t].pc = "write"]
  /\ lock' = Nobody
  /\ UNCHANGED <<plan, conns, list, misled, faults>>
connect(t) ==
  /\ call[t].pc = "scan" /\ call[t].idx > Len(list) /\ call[t].conn = 0
  /\ conns' = Append(conns, [occupied |-> TRUE, shutdown |-> FALSE, asked |-> <<>>, wire |-> <<>>, eof |-> FALSE,
                             cut |-> FALSE, dirty |-> FALSE])
  /\ list' = Append(list, Len(conns) + 1)
  /\ call' = [call EXCEPT ![t].pc = "write", ![t].conn = Len(conns) + 1]
  /\ lock' = Nobody
  /\ UNCHANGED <<plan, misled, faults>>
connect_err(t) ==
  /\ call[t].pc = "scan" /\ call[t].idx > Len(list) /\ call[t].conn = 0
  /\ Fault("connect")
  /\ call' = Retried(t)
  /\ lock' = Nobody
  /\ UNCHANGED <<plan, conns, list, misled>>

----------------------------------------------------------------------------
\* The handle is dropped: occupied is cleared and nothing else.  dirty marks
\* a connection that is given back before the request on it was sent in whole
\* or its response was read to the last byte; the code has no such mark.
Drop(c) == [conns EXCEPT ![c].occupied = FALSE]
DropDirty(c) == [conns EXCEPT ![c].occupied = FALSE, ![c].dirty = TRUE]

\* conn::http1::request: the head and the body of the request are written.
write_all(t) ==
  /\ call[t].pc = "write"
  /\ \E c \in {call[t].conn} :
       IF conns[c].eof
       THEN conns' = DropDirty(c) /\ call' = Retried(t)
       ELSE /\ conns' = IF conns[c].cut THEN conns ELSE [conns EXCEPT ![c].asked = Append(@, Me(t))]
            /\ call' = [call EXCEPT ![t].pc = "head"]
  /\ UNCHANGED <<plan, list, lock, misled, faults>>
\* Body::data fails after a part of the request is written; what the next
\* call writes is the rest of this request to the server.
body_err(t) ==
  /\ call[t].pc = "write" /\ Fault("body")
  /\ conns' = [DropDirty(call[t].conn) EXCEPT ![call[t].conn].cut = TRUE]
  /\ call' = Retried(t)
  /\ UNCHANGED <<plan, list, lock, misled>>

\* The head of the response.  An error ends the attempt; the end of the
\* connection is read as nothing, and the loop reads on.
read_err(t) ==
  /\ call[t].pc = "head" /\ Fault("reset")
  /\ conns' = [DropDirty(call[t].conn) EXCEPT ![call[t].conn].eof = TRUE]
  /\ call' = Retried(t)
  /\ UNCHANGED <<plan, list, lock, misled>>
BodyLeft(framing) == CASE framing = "length" -> 2 [] framing = "chunk" -> 1 [] OTHER -> 0
NotMine(t, c, got) == ~conns[c].dirty /\ \E i \in 1..Len(got) : got[i].of # Me(t)
\* What the head says of the body; cells read with it are kept in pre.  A
\* body without length is taken to be empty, whether or not one follows, and
\* nothing may come with its head.
ReadHead(t, framing, pre) ==
  IF framing \in {"none", "close"} THEN (IF pre = <<>> THEN [call EXCEPT ![t].pc = "done", ![t].conn = 0] ELSE Retried(t))
  ELSE [call EXCEPT ![t].pc = "body", ![t].framing = framing, ![t].left = BodyLeft(framing), ![t].pre = pre]
decode_head(t) ==
  /\ call[t].pc = "head"
  /\ \E c \in {call[t].conn} : \E n \in 1..Len(conns[c].wire) : \E got \in {SubSeq(conns[c].wire, 1, n)} :
       /\ misled' = (misled \/ NotMine(t, c, got))
       /\ IF IsHead(got[1])
          THEN /\ call' = ReadHead(t, got[1].is, Tail(got))
               /\ conns' = [conns EXCEPT ![c].wire = SubSeq(@, n + 1, Len(@)), ![c].occupied = got[1].is \notin {"none", "close"},
                                      ![c].dirty = @ \/ got[1].is = "close"]
          ELSE /\ call' = Retried(t)
               /\ conns' = [DropDirty(c) EXCEPT ![c].wire = SubSeq(@, n + 1, Len(@))]
  /\ UNCHANGED <<plan, list, lock, faults>>

----------------------------------------------------------------------------
\* Text::data and Chunk::data: what one decode of the cells got shows.  The
\* connection is given back when the body is complete; cells after its end
\* are an error, which shuts down the connection of a text body only.
\* Mutation of Complete: a text body ends one cell early.
CompleteEarly(t, got) == IF call[t].framing = "chunk" THEN \E i \in 1..Len(got) : got[i].is = "z" ELSE Len(got) + 1 >= call[t].left
Complete(t, got) == IF call[t].framing = "chunk" THEN \E i \in 1..Len(got) : got[i].is = "z" ELSE Len(got) >= call[t].left
Excess(t, got) == IF call[t].framing = "chunk" THEN \E i \in 1..Len(got) : IsHead(got[i]) \/ (got[i].is = "z" /\ i < Len(got))
                  ELSE Len(got) > call[t].left
Data(got) == Cardinality({i \in 1..Len(got) : got[i].is = "b"})
Decoded(t, got) ==
  IF Excess(t, got) THEN [call EXCEPT ![t].pc = "failed", ![t].conn = 0]
  ELSE [call EXCEPT ![t].pc = IF Complete(t, got) THEN "done" ELSE "body",
                    ![t].conn = IF Complete(t, got) THEN 0 ELSE @,
                    ![t].body = @ + Data(got),
                    ![t].left = IF call[t].framing = "length" THEN @ - Len(got) ELSE @]
Released(t, c, got) ==
  IF Excess(t, got) THEN [DropDirty(c) EXCEPT ![c].shutdown = @ \/ call[t].framing # "chunk"]
  ELSE IF Complete(t, got) THEN Drop(c) ELSE conns
data_pre(t) ==
  /\ call[t].pc = "body"
  /\ \E n \in 1..Len(call[t].pre) : \E got \in {SubSeq(call[t].pre, 1, n)} :
       /\ call' = [Decoded(t, got) EXCEPT ![t].pre = SubSeq(@, n + 1, Len(@))]
       /\ conns' = Released(t, call[t].conn, got)
  /\ UNCHANGED <<plan, list, lock, misled, faults>>
data(t) ==
  /\ call[t].pc = "body" /\ call[t].pre = <<>>
  /\ \E c \in {call[t].conn} : \E n \in 1..Len(conns[c].wire) : \E got \in {SubSeq(conns[c].wire, 1, n)} :
       /\ misled' = (misled \/ NotMine(t, c, got))
       /\ call' = Decoded(t, got)
       /\ conns' = [Released(t, c, got) EXCEPT ![c].wire = SubSeq(@, n + 1, Len(@))]
  /\ UNCHANGED <<plan, list, lock, faults>>
\* A read, or the reader's buffer, ends inside the last chunk.  merge_chunks
\* takes the body for finished as soon as the size is 0 and its line end has
\* begun, and gives the connection back with the rest of the chunk on it or in
\* pre.  With a trailer section announced it may refuse the body instead.
CutShort(t, how, n) == [call EXCEPT ![t].pc = how, ![t].conn = 0, ![t].body = @ + n]
data_cut(t) ==
  /\ call[t].pc = "body" /\ call[t].framing = "chunk"
  /\ \E c \in {call[t].conn}, p \in {Len(call[t].pre)}, how \in {"done", "failed"} :
     \E r \in {call[t].pre \o conns[c].wire} : \E n \in 0..(Len(r) - 1) :
       /\ r[n + 1].is = "z" /\ \A i \in 1..n : r[i].is = "b"
       /\ p = 0 \/ n <= p
       /\ misled' = (misled \/ NotMine(t, c, SubSeq(conns[c].wire, 1, n + 1 - p)))
       /\ call' = CutShort(t, how, n)
       /\ conns' = IF n < p THEN Drop(c)
                   ELSE [DropDirty(c) EXCEPT ![c].wire = SubSeq(@, n + 1 - p, Len(@))]
  /\ UNCHANGED <<plan, list, lock, faults>>
\* Reading fails inside the body: nothing is shut down.
data_err(t) ==
  /\ call[t].pc = "body" /\ call[t].pre = <<>> /\ Fault("reset")
  /\ conns' = [DropDirty(call[t].conn) EXCEPT ![call[t].conn].eof = TRUE]
  /\ call' = [call EXCEPT ![t].pc = "failed", ![t].conn = 0]
  /\ UNCHANGED <<plan, list, lock, misled>>
\* The connection ended inside the body.
Ended(t) == call[t].pc = "body" /\ call[t].pre = <<>> /\ conns[call[t].conn].wire = <<>> /\ conns[call[t].conn].eof
data_eof(t) ==
  /\ Ended(t)
  /\ conns' = [Drop(call[t].conn) EXCEPT ![call[t].conn].shutdown = TRUE]
  /\ call' = [call EXCEPT ![t].pc = "failed", ![t].conn = 0]
  /\ UNCHANGED <<plan, list, lock, misled, faults>>

\* The caller drops the response before its end: nothing is shut down.
leave(t) ==
  /\ call[t].pc = "body" /\ Fault("leave")
  /\ conns' = DropDirty(call[t].conn)
  /\ call' = [call EXCEPT ![t].pc = "failed", ![t].conn = 0]
  /\ UNCHANGED <<plan, list, lock, misled>>

\* The call is over; the thread may make the next one.
return(t) ==
  /\ call[t].pc \in {"done", "failed"}
  /\ call' = [call EXCEPT ![t] = [Idle EXCEPT !.n = call[t].n]]
  /\ UNCHANGED <<plan, conns, list, lock, misled, faults>>

----------------------------------------------------------------------------
\* The server answers what it was asked, in order, or closes the connection.
Answer(c) ==
  /\ conns[c].asked # <<>> /\ ~conns[c].eof
  /\ \E of \in {Head(conns[c].asked)} : \E f \in {plan[of[1]][of[2]]} :
       conns' = [conns EXCEPT ![c].asked = IF f = "close" THEN <<>> ELSE Tail(@), ![c].eof = f = "close",
                              ![c].wire = @ \o Reply(of, f)]
  /\ UNCHANGED <<plan, call, list, lock, misled, faults>>
Close(c) ==
  /\ ~conns[c].eof /\ Fault("close")
  /\ \E n \in 0..Len(conns[c].wire) :
       conns' = [conns EXCEPT ![c].eof = TRUE, ![c].asked = <<>>, ![c].wire = SubSeq(@, 1, n)]
  /\ UNCHANGED <<plan, call, list, lock, misled>>

Thread(t) == \/ Lock(t) \/ is_shutdown(t) \/ dispatch(t) \/ Found(t) \/ connect(t) \/ connect_err(t)
             \/ write_all(t) \/ body_err(t) \/ read_err(t) \/ decode_head(t)
             \/ data_pre(t) \/ data(t) \/ data_cut(t) \/ data_err(t) \/ data_eof(t) \/ leave(t) \/ return(t)
Next == \/ \E t \in Threads : request(t) \/ Thread(t)
        \/ \E c \in 1..Len(conns) : Answer(c) \/ Close(c)

\* The threads run, the mutex comes to everyone who waits for it, and the
\* server answers.
Fairness == /\ \A t \in Threads : WF_vars(Thread(t)) /\ SF_vars(Lock(t))
            /\ WF_vars(\E c \in 1..Len(conns) : Answer(c))
Spec == Init /\ [][Next]_vars /\ Fairness

----------------------------------------------------------------------------
held == {p \in Threads \X (1..Len(conns)) : call[p[1]].conn = p[2]}
Lease == INSTANCE ConnLease WITH Limit <- Cardinality(Threads)

\* A connection has one user at a time (raw_mut: "only one coroutine gets the
\* handle at the same time"), although one thread dispatches while another
\* drops its handle: the pool implements the lease its users rely on.
LeaseSpec == Lease!Spec

\* A call reads the response to its own request and nothing else, on every
\* connection on which each earlier response was read to its last byte.  Where
\* one was not (the caller left, a body without length, a failed read or write,
\* a read that ended inside the last chunk) the code gives the connection back
\* without a flag, and the next call reads what is left.
OwnAnswer == ~misled

\* A body that ends without an error had all the data announced for it, also
\* when it ended early, inside the last chunk, and on a connection where other
\* responses were left unread.
BodyWhole == \A t \in Threads : call[t].pc = "done" => call[t].body >= BodyLeft(call[t].framing)

Stuck(t) == call[t].pc = "head" /\ (conns[call[t].conn].eof \/ conns[call[t].conn].cut)
Called(t) == call[t].pc = "lock"
Returned(t) == call[t].pc \in {"body", "done", "failed"} \/ Stuck(t)

\* request() comes back with a response or an error, also on a connection that
\* has the rest of another response on it; not when the connection ends before
\* the head (the read loop spins), nor behind half a request.
CallReturns == \A t \in Threads : Called(t) ~> Returned(t)

InBody(t) == call[t].pc = "body"
Reads(t) == InBody(t) /\ call[t].framing # "zero"

\* The body comes to its end or to an error; not a body of length zero, for
\* which the first read waits on the connection.
BodyEnds == \A t \in Threads : Reads(t) ~> ~InBody(t)
=============================================================================
