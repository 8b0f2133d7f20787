------------------------------- MODULE H3Conn -------------------------------
(***************************************************************************)
(* One HTTP/3 connection of the client above QUIC: the stream manager task *)
(* (util/h3/stream_manager.rs), its table of streams (util/h3/streams.rs)  *)
(* and the callers' handles (dispatcher.rs, module http3, and              *)
(* async_impl/conn/http3.rs).  Each poll of the manager walks its phases   *)
(* one action at a time, so callers, readers and the peer step in between. *)
(*                                                                         *)
(* A stream's bytes are pieces: "H" response headers, "B" headers whose    *)
(* field section waits for encoder instructions, "D" data, "T" trailers,   *)
(* "X" bytes the decoder refuses, "P" a frame that does not belong there,  *)
(* "F" the end of the stream, "R" a reset with an error, "N" a reset with  *)
(* H3NoError.  How requests are encoded and written is H3Writer; here a    *)
(* sending turn only ends in one of its outcomes.                          *)
(***************************************************************************)
EXTENDS Naturals, Sequences, FiniteSets

CONSTANTS
    Reqs,           \* the requests callers may make
    Dynamic,        \* the requests whose headers use the dynamic table
    Uploads,        \* the requests whose body may have to wait once
    CHANNEL_SIZE,   \* messages a response channel holds
    MaxConcurrent,  \* DEFAULT_MAX_CONCURRENT_STREAMS
    Answers,         \* Answers[r]: the pieces the peer answers r with
    Faults,         \* what else may happen: resets, GOAWAY, ...
    FaultBudget,    \* how many of those happen in a behaviour
    WRAP            \* working_stream_num counts modulo this (2^32 in a u32)

VARIABLES
    c,        \* the manager's state, with the QUIC buffers and the channels
    pc,       \* "idle", "recv", "blocked", "reqs", "input" or "dead"
    todo,     \* streams still to be read, or sending turns left, in this poll
    reader,   \* reader[r]: what the caller of r has seen
    peer      \* what the peer still has to send, and its faults

h3Vars == <<c, pc, todo, reader, peer>>

(* The peer's control, QPACK encoder and QPACK decoder streams; requests   *)
(* have the streams 1, 2, ...                                              *)
Control == 101
Enc == 102
Dec == 103
Uni == {Control, Enc, Dec}
Ids == DOMAIN c.str
Exit(e) == [k |-> "exit", v |-> e]
Output(f) == [k |-> "frame", v |-> f]

BidirectionalStream(r) ==
    [req |-> r, state |-> "Sending", header |-> TRUE, encoding |-> FALSE,
     curr |-> <<>>, pend |-> <<>>, in |-> <<>>, held |-> <<>>,
     open |-> FALSE, stopped |-> FALSE, ended |-> FALSE, unacked |-> FALSE,
     forgot |-> FALSE]

Streams ==
    [str |-> <<>>, send |-> <<>>, conc |-> <<>>, resume |-> <<>>,
     precv |-> {}, pchan |-> {}, working |-> 0, goaway |-> <<>>,
     uni |-> [u \in Uni |-> IF u = Control
                            THEN <<[t |-> "settings", id |-> 0]>> ELSE <<>>],
     known |-> {}, settings |-> FALSE,
     insts |-> FALSE, quic |-> "open", queue |-> <<>>, reqClosed |-> FALSE,
     chan |-> [r \in Reqs |-> <<>>], gone |-> {}, woken |-> FALSE,
     ioShutdown |-> FALSE, ioGoaway |-> FALSE,
     res |-> "ok", err |-> "", who |-> 0,
     cause |-> "", freed |-> {}, aborted |-> FALSE, twice |-> FALSE,
     lost |-> {}]

(* The peer's SETTINGS have arrived; nothing was read yet. *)
H3Init ==
    /\ c = Streams
    /\ pc = "idle"
    /\ todo = {}
    /\ reader = [r \in Reqs |-> [st |-> "new", got |-> <<>>]]
    /\ peer = [left |-> Answers, insts |-> FALSE,
               acked |-> {}, waited |-> {}, faults |-> FaultBudget, kinds |-> {},
               hurt |-> {}]

-----------------------------------------------------------------------------
(* Messages to a response channel. *)

(* Bug: a message that does not fit is dropped.                            *)
TransmitOrDrop(k, i, m) ==
    LET r == k.str[i].req IN
    IF r \in k.gone THEN [k EXCEPT !.res = "closed"]
    ELSE IF Len(k.chan[r]) < CHANNEL_SIZE
         THEN [k EXCEPT !.res = "ok", !.chan[r] = Append(@, m)]
         ELSE [k EXCEPT !.res = "ok"]

(* A message that does not fit becomes curr_message, in the place of       *)
(* whatever was there.                                                     *)
transmit_message(k, i, m) ==
    LET r == k.str[i].req IN
    IF r \in k.gone THEN [k EXCEPT !.res = "closed"]
    ELSE IF Len(k.chan[r]) < CHANNEL_SIZE
         THEN [k EXCEPT !.res = "ok", !.chan[r] = Append(@, m)]
         ELSE [k EXCEPT !.res = "pending", !.str[i].curr = <<m>>]

connection_error(k, why) ==
    [k EXCEPT !.err = "connection", !.who = 0,
              !.cause = IF @ = "" THEN why ELSE @]

(* Result of a transmission a caller returns with `?` or pends on. *)
Transmitted(k, i) ==
    CASE k.res = "ok" -> k
      [] k.res = "closed" -> connection_error(k, "reader gone")
      [] k.res = "pending" -> [k EXCEPT !.pchan = @ \cup {i}]

(* ... and of one whose failure is ignored: the stream pends or not. *)
Ignored(k, i) ==
    IF k.res = "pending" THEN [k EXCEPT !.pchan = @ \cup {i}] ELSE k

NextState(state, f) ==
    CASE state = "Sending" /\ f = "H" -> "HeadersReceived"
      [] state = "HeadersReceived" /\ f = "D" -> "BodyReceived"
      [] state = "BodyReceived" /\ f = "D" -> "BodyReceived"
      [] state = "BodyReceived" /\ f \in {"H", "T"} -> "TrailerReceived"
      [] state = "Shutdown" -> "Shutdown"
      [] OTHER -> "unexpected"

send_frame(k, i, f) ==
    LET s == k.str[i]
        to == NextState(s.state, f)
        k1 == [k EXCEPT !.str[i].state = to] IN
    CASE to = "unexpected" -> connection_error(k, "peer")
      [] s.state = "Shutdown" -> k
      [] s.curr # <<>> /\ to \notin {"unexpected", "Shutdown"} ->
            [k1 EXCEPT !.str[i].pend = Append(@, Output(f))]
      [] OTHER -> Transmitted(transmit_message(k1, i, Output(f)), i)

send_error(k, i) ==
    Transmitted(transmit_message([k EXCEPT !.str[i].pend = <<>>], i,
                                 Exit("decode")), i)

decrease_current_concurrency(k, i) ==
    [k EXCEPT !.working = (@ + WRAP - 1) % WRAP,
              !.str[i].ended = TRUE,
              !.twice = @ \/ k.str[i].ended]

(* Bug: a reset stream keeps its slot. *)
ShutdownKeepsSlot(k, i) ==
    [Ignored(transmit_message(k, i, Exit("stream")), i)
        EXCEPT !.str[i].ended = TRUE]

shutdown_stream(k, i) ==
    decrease_current_concurrency(
        Ignored(transmit_message(k, i, Exit("stream")), i), i)

(* Streams the loop of goaway and shutdown empties and tells. *)
TellAll(k, told, e) ==
    LET f[n \in 0..Len(k.str)] ==
            IF n = 0 THEN k
            ELSE IF n \notin told THEN f[n - 1]
            ELSE Ignored(transmit_message(
                    [f[n - 1] EXCEPT !.str[n].state = "Shutdown",
                                     !.str[n].header = FALSE,
                                     !.str[n].pend = <<>>], n, Exit(e)), n)
    IN f[Len(k.str)]

shutdown(k, e) == TellAll([k EXCEPT !.ioShutdown = TRUE], DOMAIN k.str, e)

(* An identifier that is not one of a request's stream. *)
NotARequest == 100

Streams_goaway(k, g) ==
    IF g = NotARequest THEN connection_error(k, "peer")
    ELSE TellAll([k EXCEPT !.goaway = <<g>>],
                 {i \in DOMAIN k.str : i > g}, "goaway")

-----------------------------------------------------------------------------
(* What arrived on a stream.  The pieces present are one stream_recv.      *)

(* The frames a decode returns, applied in order until one fails or        *)
(* blocks; a blocked section keeps what follows it in the decoder.         *)
recv_request_stream(k, i, fs) ==
    LET f[n \in 0..Len(fs)] ==
            IF n = 0 THEN k
            ELSE LET b == f[n - 1] IN
                 CASE b.err # "" \/ i \in b.precv -> b
                   [] fs[n] = "B" /\ ~b.insts ->
                        [b EXCEPT !.precv = @ \cup {i},
                                  !.str[i].held = SubSeq(fs, n, Len(fs))]
                   [] fs[n] = "P" -> connection_error(b, "peer")
                   [] OTHER -> send_frame(b, i, IF fs[n] = "B" THEN "H"
                                                ELSE fs[n])
    IN f[Len(fs)]

(* Bytes the decoder refuses, unless a blocked section comes before them,  *)
(* make the decode an error: the frames before them are lost with it.      *)
process_recv_data(k, i, fs) ==
    IF \E n \in DOMAIN fs :
           fs[n] = "X" /\ (k.insts \/ \A m \in 1..n : fs[m] # "B")
    THEN send_error(k, i)
    ELSE recv_request_stream(k, i, fs)

(* A resumed stream is decoded again from what the decoder holds. *)
Resumed(k, i) ==
    process_recv_data([k EXCEPT !.str[i].held = <<>>], i, k.str[i].held)

finish_stream(k, i) ==
    LET ended == [decrease_current_concurrency(k, i)
                     EXCEPT !.str[i].state = "Shutdown"]
        told == IF ended.str[i].curr = <<>>
                THEN Transmitted(transmit_message(ended, i,
                                                  Exit("finished")), i)
                ELSE [ended EXCEPT !.str[i].pend =
                                      Append(@, Exit("finished"))] IN
    CASE told.err # "" -> told
      [] told.str[i].unacked -> connection_error(told, "section not acked")
      [] i \in told.precv -> connection_error(told, "ended while blocked")
      [] OTHER -> [told EXCEPT !.str[i].forgot = TRUE,
                               !.ioShutdown =
                      @ \/ (told.goaway # <<>> /\ told.working = 0)]

read_stream(k, i) ==
    LET in == k.str[i].in
        fin == in # <<>> /\ in[Len(in)] = "F"
        fs == IF fin THEN SubSeq(in, 1, Len(in) - 1) ELSE in
        k1 == process_recv_data([k EXCEPT !.str[i].in = <<>>], i, fs) IN
    CASE in = <<>> -> k
      [] in[1] = "R" -> [k EXCEPT !.str[i].in = <<>>, !.err = "stream",
                                  !.who = i]
      [] in[1] = "N" -> [k EXCEPT !.str[i].in = <<>>]
      [] OTHER -> IF k1.err = "" /\ fin THEN finish_stream(k1, i) ELSE k1

recv_goaway_frame(k, g) ==
    Streams_goaway([k EXCEPT !.ioGoaway = TRUE, !.reqClosed = TRUE,
                             !.cause = IF @ = "" THEN "goaway" ELSE @], g)

(* Settings come first and once; GOAWAY after them; nothing else. *)
recv_control_stream(k, ms) ==
    LET f[n \in 0..Len(ms)] ==
            IF n = 0 THEN [k EXCEPT !.known = @ \cup {Control}]
            ELSE LET b == f[n - 1]
                     first == n = 1 /\ Control \notin k.known IN
                 CASE b.err # "" -> b
                   [] ms[n].t = "settings" ->
                        IF b.settings THEN connection_error(b, "peer")
                        ELSE [b EXCEPT !.settings = TRUE]
                   [] ms[n].t = "goaway" ->
                        LET g == recv_goaway_frame(b, ms[n].id) IN
                        IF first THEN connection_error(g, "peer") ELSE g
                   [] OTHER -> connection_error(b, "peer")
    IN f[Len(ms)]

recv_qpack_encode_stream(k) ==
    LET blocked == k.precv
        k1 == [k EXCEPT !.known = @ \cup {Enc}, !.insts = TRUE,
                        !.precv = {}, !.freed = @ \cup blocked]
        f[n \in 0..Len(k.str)] ==
            IF n = 0 THEN k1
            ELSE IF n \notin blocked \/ f[n - 1].err # "" THEN f[n - 1]
            ELSE Resumed(f[n - 1], n)
    IN f[Len(k.str)]

recv_qpack_decode_stream(k, ms) ==
    [k EXCEPT !.known = @ \cup {Dec},
              !.str = [i \in DOMAIN @ |->
                         IF \E n \in DOMAIN ms : ms[n].id = i
                         THEN [@[i] EXCEPT !.unacked = FALSE] ELSE @[i]]]

try_recv_uni_stream(k, u) ==
    LET all == k.uni[u]
        fin == all # <<>> /\ all[Len(all)].t = "fin"
        ms == IF fin THEN SubSeq(all, 1, Len(all) - 1) ELSE all
        k0 == [k EXCEPT !.uni[u] = <<>>]
        k1 == CASE u = Control -> recv_control_stream(k0, ms)
                [] u = Enc -> recv_qpack_encode_stream(k0)
                [] u = Dec -> recv_qpack_decode_stream(k0, ms) IN
    IF all = <<>> THEN k
    ELSE IF k1.err = "" /\ fin THEN connection_error(k1, "peer") ELSE k1

-----------------------------------------------------------------------------
(* Errors. *)

handle_stream_error(k, i) ==
    shutdown_stream([k EXCEPT !.str[i].in = <<>>, !.err = "", !.who = 0], i)

handle_connection_error(k) ==
    [shutdown(k, "connection") EXCEPT !.reqClosed = TRUE, !.quic = "closed"]

(* Bug: a stream's error is taken for the connection's. *)
EveryErrorFatal(k, next, left) ==
    IF k.err = "" THEN [c |-> k, pc |-> next, todo |-> left]
    ELSE [c |-> [handle_connection_error(k) EXCEPT !.err = ""],
          pc |-> "dead", todo |-> {}]

(* A phase ends with k.  A stream error is dealt with and the poll goes on *)
(* to its next phase; any other error ends the task, and with it whatever  *)
(* it still held: requests in the queue, messages that did not fit.        *)
handle_error(k, next, left) ==
    CASE k.err = "" -> [c |-> k, pc |-> next, todo |-> left]
      [] k.err = "stream" ->
            [c |-> [handle_stream_error(k, k.who) EXCEPT !.aborted = TRUE],
             pc |-> next, todo |-> left]
      [] k.err = "connection" ->
            LET d == handle_connection_error(k) IN
            [c |-> [d EXCEPT !.err = "",
                             !.lost = {d.queue[n] : n \in DOMAIN d.queue}
                                \cup {d.str[i].req : i \in
                                  {j \in DOMAIN d.str : d.str[j].curr # <<>>}}],
             pc |-> "dead", todo |-> {}]

-----------------------------------------------------------------------------
(* The phases of StreamManager::poll. *)

(* All signals are taken; a closed signal channel means the io task ended. *)
poll_recv_signal ==
    /\ pc = "idle"
    /\ c.woken
    /\ UNCHANGED <<reader, peer>>
    /\ LET k == [c EXCEPT !.woken = FALSE, !.freed = {}, !.aborted = FALSE] IN
       \E e \in {handle_error(IF c.quic = "io gone"
                              THEN connection_error(k, "io") ELSE k, "recv",
                              {i \in Ids : c.str[i].in # <<>>}
                              \cup {u \in Uni : c.uni[u] # <<>>})} :
          c' = e.c /\ pc' = e.pc /\ todo' = e.todo

frame_acceptable(k, i) == i \notin k.precv /\ i \notin k.pchan

(* The control, encoder and decoder streams first once they are known,     *)
(* then what is readable; the first error ends the phase.                  *)
poll_stream_recv(s) ==
    /\ pc = "recv"
    /\ s \in todo
    /\ \/ s \in c.known
       \/ todo \cap c.known = {}
    /\ UNCHANGED <<reader, peer>>
    /\ \E k \in {IF s \in Uni THEN try_recv_uni_stream(c, s)
                 ELSE IF frame_acceptable(c, s) THEN read_stream(c, s) ELSE c} :
       \E e \in {IF k.err = "" THEN handle_error(k, "recv", todo \ {s})
                 ELSE handle_error(k, "blocked", {})} :
          c' = e.c /\ pc' = e.pc /\ todo' = e.todo

stream_recv_end ==
    /\ pc = "recv"
    /\ todo = {}
    /\ c' = IF c.quic = "closed" THEN shutdown(c, "disconnect") ELSE c
    /\ pc' = "blocked"
    /\ UNCHANGED <<todo, reader, peer>>

(* Flushes the messages of the streams whose channel was full. *)
FlushStream(k, i) ==
    LET s == k.str[i]
        first == IF s.curr = <<>> THEN [k EXCEPT !.res = "ok"]
                 ELSE transmit_message([k EXCEPT !.str[i].curr = <<>>], i,
                                       s.curr[1])
        f[n \in 0..Len(s.pend)] ==
            IF n = 0 THEN first
            ELSE IF f[n - 1].res # "ok" THEN f[n - 1]
            ELSE transmit_message([f[n - 1] EXCEPT !.str[i].pend = Tail(@)],
                                  i, s.pend[n])
        end == f[Len(s.pend)] IN
    CASE end.res = "ok" -> [end EXCEPT !.pchan = @ \ {i},
                                       !.freed = @ \cup {i}]
      [] end.res = "closed" -> [end EXCEPT !.pchan = @ \ {i},
                                           !.freed = @ \cup {i},
                                           !.str[i].state = "Shutdown"]
      [] end.res = "pending" -> end

poll_blocked_message ==
    /\ pc = "blocked"
    /\ LET f[n \in 0..Len(c.str)] ==
               IF n = 0 THEN c
               ELSE IF n \in c.pchan THEN FlushStream(f[n - 1], n)
               ELSE f[n - 1]
       IN c' = f[Len(c.str)]
    /\ pc' = "reqs"
    /\ UNCHANGED <<todo, reader, peer>>

reach_max_concurrency(k) == k.working >= MaxConcurrent

push_back_pending_send(k, i) ==
    [k EXCEPT !.send = Append(@, i), !.working = @ + 1]

new_unidirectional_stream(k, r) ==
    LET i == Len(k.str) + 1
        k1 == [k EXCEPT !.str = Append(@, BidirectionalStream(r)),
                        !.queue = Tail(@)] IN
    IF reach_max_concurrency(k) THEN [k1 EXCEPT !.conc = Append(@, i)]
    ELSE push_back_pending_send(k1, i)

try_consume_pending_concurrency(k) ==
    LET f[n \in 0..Len(k.conc)] ==
            IF n = 0 THEN k
            ELSE IF reach_max_concurrency(f[n - 1]) THEN f[n - 1]
            ELSE [push_back_pending_send(f[n - 1], k.conc[n])
                     EXCEPT !.conc = Tail(@)]
    IN f[Len(k.conc)]

(* Requests are taken one by one; when none is left, a closed queue is an  *)
(* error and an empty one opens the sending phase.                         *)
poll_recv_request ==
    /\ pc = "reqs"
    /\ c.queue # <<>>
    /\ c' = new_unidirectional_stream(c, Head(c.queue))
    /\ UNCHANGED <<pc, todo, reader, peer>>

poll_input_request ==
    /\ pc = "reqs"
    /\ c.queue = <<>>
    /\ \E k \in {IF c.reqClosed THEN connection_error(c, "requests closed")
                 ELSE try_consume_pending_concurrency(c)} :
       \E e \in {handle_error(k, "input", 1..Len(k.send))} :
          c' = e.c /\ pc' = e.pc /\ todo' = e.todo
    /\ UNCHANGED <<reader, peer>>

(* One sending turn: the headers, then what is left of a frame, then as    *)
(* much of the body as goes.  It ends with all sent, or waiting for the    *)
(* window or for the body.  What else may happen:                          *)
(*   stopped         the peer stopped the stream; a frame was still being  *)
(*                   sent, so the turn just ends                           *)
(*   refused         stream_capacity fails: the peer stopped the stream,   *)
(*                   or QUIC has no such stream or no longer has it        *)
(*   forgotten       a frame was still being sent when the response ended, *)
(*                   and the encoder no longer knows the stream            *)
(*   no room         the instructions of the section took the whole window *)
(*   body error      the caller's body cannot be read                      *)
(*   stopped late    the peer stops the stream while the turn is going on, *)
(*   stopped at end  or just before its end is sent                        *)
TurnEnds == {"all", "window", "body", "stopped", "refused", "forgotten",
             "no room", "body error", "stopped late", "stopped at end"}
Waits == {"window", "body", "no room"}
Late == {"stopped late", "stopped at end"}
Fatal == {"forgotten", "no room", "body error", "stopped at end"}

Outcomes(s) ==
    LET known == s.open \/ s.header
        lost == s.encoding /\ s.forgot
        reads == s.state # "Shutdown" /\ ~s.stopped IN
    {o \in TurnEnds :
        CASE o = "all" -> known /\ ~s.stopped /\ ~lost
          [] o = "window" -> reads \/ (s.encoding /\ ~s.stopped)
          [] o = "stopped" -> s.stopped /\ s.encoding
          [] o = "refused" -> IF s.encoding THEN s.stopped /\ s.ended
                              ELSE s.stopped \/ ~known
          [] o = "forgotten" -> lost /\ ~s.stopped
          [] o = "no room" -> s.header /\ s.req \in Dynamic
          [] o \in {"body", "body error"} \cup Late -> reads}

input_stream_frame(out) ==
    /\ pc = "input"
    /\ todo # {}
    /\ out \in Outcomes(c.str[Head(c.send)])
    /\ out \in Waits =>
          c.str[Head(c.send)].req \in Uploads \ peer.waited
    /\ out \in Late => "stop" \in Faults /\ peer.faults > 0
    /\ out = "body error" => "body" \in Faults /\ peer.faults > 0
    /\ LET i == Head(c.send)
           s == c.str[i]
           k == [c EXCEPT !.send = Tail(@), !.str[i].header = FALSE,
                          !.str[i].encoding = FALSE,
                          !.str[i].open = @ \/ s.header,
                          !.str[i].stopped = @ \/ out \in Late,
                          !.str[i].unacked =
                              @ \/ (s.header /\ s.req \in Dynamic)]
           left == todo \ {CHOOSE x \in todo : \A y \in todo : x <= y} IN
       \E e \in {CASE out \in {"all", "stopped", "stopped late"} ->
                      handle_error(k, "input", left)
                   [] out \in {"window", "body"} ->
                      handle_error([k EXCEPT !.send = Append(@, i),
                                             !.str[i].encoding =
                                                 (out = "window")],
                                   "input", left)
                   [] out \in Fatal ->
                      handle_error(connection_error(k, out), "idle", {})
                   [] out = "refused" ->
                      handle_error([k EXCEPT !.err = "stream", !.who = i],
                                   "idle", {})} :
          c' = e.c /\ pc' = e.pc /\ todo' = e.todo
    /\ LET r == c.str[Head(c.send)].req
           f == IF out = "body error" THEN "body" ELSE "stop" IN
       peer' = CASE out \in Waits -> [peer EXCEPT !.waited = @ \cup {r}]
                 [] out \in Late \cup {"body error"} ->
                      [peer EXCEPT !.faults = @ - 1, !.kinds = @ \cup {f},
                                   !.hurt = @ \cup {r}]
                 [] OTHER -> peer
    /\ UNCHANGED reader

poll_pending ==
    /\ pc = "input"
    /\ todo = {}
    /\ pc' = "idle"
    /\ UNCHANGED <<c, todo, reader, peer>>

-----------------------------------------------------------------------------
(* The callers. *)

(* send_frame_to_reader: the request goes to the manager while it listens. *)
request(r) ==
    /\ reader[r].st = "new"
    /\ IF c.reqClosed \/ pc = "dead"
       THEN reader' = [reader EXCEPT ![r].st = "refused"] /\ UNCHANGED c
       ELSE /\ reader' = [reader EXCEPT ![r].st = "wait"]
            /\ c' = [c EXCEPT !.queue = Append(@, r), !.woken = TRUE]
    /\ UNCHANGED <<pc, todo, peer>>

(* A sender that waits for room in r's channel, or for r to leave. *)
SenderWaits(r) == \E i \in Ids : c.str[i].req = r /\ c.str[i].curr # <<>>

(* recv_resp, then TextIo::poll_read: trailers read as the end of the body *)
AfterMessage(st, m) ==
    CASE m.k = "frame" -> IF m.v = "T" THEN "done" ELSE "open"
      [] m.k = "exit" -> IF m.v = "finished" /\ st = "open" THEN "done"
                         ELSE "error"

poll_read(r) ==
    /\ reader[r].st \in {"wait", "open"}
    /\ c.chan[r] # <<>>
    /\ LET m == Head(c.chan[r])
           st == AfterMessage(reader[r].st, m) IN
       /\ reader' = [reader EXCEPT
                       ![r].st = st,
                       ![r].got = IF m.k = "frame" THEN Append(@, m.v) ELSE @]
       /\ c' = [c EXCEPT !.chan[r] = Tail(@),
                         !.woken = @ \/ SenderWaits(r),
                         !.gone = IF st = "error" /\ reader[r].st = "wait"
                                  THEN @ \cup {r} ELSE @]
    /\ UNCHANGED <<pc, todo, peer>>

(* The response is dropped: at its end, or early. *)
Leave(r) ==
    /\ reader[r].st \in {"wait", "open", "done", "error"}
    /\ r \notin c.gone
    /\ reader[r].st \in {"wait", "open"} => "leave" \in Faults /\ peer.faults > 0
    /\ c' = [c EXCEPT !.gone = @ \cup {r}, !.woken = @ \/ SenderWaits(r)]
    /\ reader' = [reader EXCEPT ![r].st = IF @ \in {"wait", "open"} THEN "left"
                                          ELSE @]
    /\ peer' = [peer EXCEPT
                   !.faults = IF reader[r].st \in {"wait", "open"} THEN @ - 1
                              ELSE @,
                   !.kinds = IF \E i \in Ids : c.str[i].req = r /\ c.str[i].ended
                             THEN @ ELSE @ \cup {"left early"}]
    /\ UNCHANGED <<pc, todo>>

-----------------------------------------------------------------------------
(* The peer, through the io task, which signals every packet received.     *)
(* The manager holds the QUIC lock while it reads.                         *)

Listening == c.quic = "open" /\ pc \notin {"recv", "dead"}
Arrives(d) == c' = [d EXCEPT !.woken = TRUE]

Piece(i) ==
    /\ Listening
    /\ c.str[i].open
    /\ peer.left[c.str[i].req] # <<>>
    /\ LET r == c.str[i].req IN
       /\ Arrives(IF c.str[i].ended THEN c
                  ELSE [c EXCEPT !.str[i].in = Append(@, Head(peer.left[r]))])
       /\ peer' = [peer EXCEPT !.left[r] = Tail(@)]
    /\ UNCHANGED <<pc, todo, reader>>

Unistream(u, m) == Arrives([c EXCEPT !.uni[u] = Append(@, m)])

(* Encoder instructions for the sections marked "B", before or after them. *)
PeerInsts ==
    /\ Listening
    /\ ~peer.insts
    /\ \E r \in Reqs : \E n \in DOMAIN Answers[r] : Answers[r][n] = "B"
    /\ Unistream(Enc, [t |-> "inst", id |-> 0])
    /\ peer' = [peer EXCEPT !.insts = TRUE]
    /\ UNCHANGED <<pc, todo, reader>>

PeerAck(i) ==
    /\ Listening
    /\ c.str[i].open
    /\ c.str[i].req \in Dynamic \ peer.acked
    /\ Unistream(Dec, [t |-> "ack", id |-> i])
    /\ peer' = [peer EXCEPT !.acked = @ \cup {c.str[i].req}]
    /\ UNCHANGED <<pc, todo, reader>>

Fault(f) ==
    /\ f \in Faults
    /\ peer.faults > 0
    /\ Listening
    /\ UNCHANGED <<pc, todo, reader>>

Strike(f, rs) == peer' = [peer EXCEPT !.faults = @ - 1,
                                      !.kinds = @ \cup {f},
                                      !.hurt = @ \cup rs]

(* A reset discards what was not read; a refused or misplaced frame comes  *)
(* before the rest of the answer or in its place.                          *)
StreamFault(f, i) ==
    /\ Fault(f)
    /\ c.str[i].open
    /\ ~c.str[i].ended
    /\ \E n \in DOMAIN peer.left[c.str[i].req] : TRUE
    /\ LET r == c.str[i].req IN
       CASE f \in {"R", "N"} ->
              /\ Arrives([c EXCEPT !.str[i].in = <<f>>])
              /\ peer' = [peer EXCEPT !.faults = @ - 1, !.left[r] = <<>>,
                                      !.kinds = @ \cup {f},
                                      !.hurt = @ \cup {r}]
         [] f \in {"X", "P"} ->
              /\ Arrives([c EXCEPT !.str[i].in = Append(@, f)])
              /\ peer' = [peer EXCEPT !.faults = @ - 1, !.left[r] = <<"F">>,
                                      !.kinds = @ \cup {f},
                                      !.hurt = @ \cup {r}]
         [] f = "stop" ->
              /\ ~c.str[i].stopped
              /\ Arrives([c EXCEPT !.str[i].stopped = TRUE])
              /\ Strike(f, {r})

ControlFault(f, g) ==
    /\ Fault(f)
    /\ CASE f = "goaway" -> Unistream(Control, [t |-> f, id |-> g])
         [] f = "no request" ->
              g = 0 /\ Unistream(Control, [t |-> "goaway", id |-> NotARequest])
         [] f \in {"settings", "cancel"} ->
              g = 0 /\ Unistream(Control, [t |-> f, id |-> g])
         [] f = "fin" -> g = 0 /\ Unistream(Enc, [t |-> f, id |-> g])
    /\ Strike(f, {})

(* The connection ends: closed by the peer, or timed out in the io task,   *)
(* which then signals nobody; or the io task itself fails.                 *)
ConnectionFault(f) ==
    /\ Fault(f)
    /\ CASE f = "close" -> Arrives([c EXCEPT !.quic = "closed"])
         [] f = "timeout" -> c' = [c EXCEPT !.quic = "closed"]
         [] f = "io" -> Arrives([c EXCEPT !.quic = "io gone"])
    /\ Strike(f, {})

(* The body a stalled turn waits for has more, or the window opened. *)
MoreToSend ==
    /\ Listening
    /\ pc = "idle"
    /\ ~c.woken
    /\ c.send # <<>>
    /\ Arrives(c)
    /\ UNCHANGED <<pc, todo, reader, peer>>

StreamManager ==
    \/ poll_recv_signal
    \/ \E s \in todo : poll_stream_recv(s)
    \/ stream_recv_end
    \/ poll_blocked_message
    \/ poll_recv_request
    \/ poll_input_request
    \/ \E out \in TurnEnds : input_stream_frame(out)
    \/ poll_pending

H3Next ==
    \/ StreamManager
    \/ \E r \in Reqs : request(r) \/ poll_read(r) \/ Leave(r)
    \/ \E i \in Ids : Piece(i) \/ PeerAck(i)
    \/ PeerInsts
    \/ \E f \in {"R", "N", "X", "P", "stop"}, i \in Ids : StreamFault(f, i)
    \/ \E f \in {"goaway", "no request", "settings", "cancel", "fin"},
          g \in 0..Cardinality(Reqs) : ControlFault(f, g)
    \/ \E f \in {"close", "timeout", "io"} : ConnectionFault(f)
    \/ MoreToSend

H3Spec == H3Init /\ [][H3Next]_h3Vars

-----------------------------------------------------------------------------
AsFrames(s) == [n \in DOMAIN s |-> IF s[n] = "B" THEN "H" ELSE s[n]]

IsPrefixOf(s, t) == Len(s) <= Len(t) /\ \A n \in DOMAIN s : s[n] = t[n]

(* What a caller reads is the beginning of the answer the peer gave to its *)
(* own request, in order and nothing twice, whatever the blocked sections, *)
(* full channels and resumptions on the way; and a caller who is told the  *)
(* response is over has all of it.  send_frame, poll_blocked_message,      *)
(* finish_stream.                                                          *)
ResponseWhole ==
    \A r \in Reqs :
        /\ IsPrefixOf(reader[r].got, AsFrames(Answers[r]))
        /\ reader[r].st = "done" => Len(reader[r].got) = Len(Answers[r]) - 1

(* The peer never has more than max_stream_concurrency requests that it    *)
(* has not answered: streams wait in pending_concurrency until one ends.   *)
(* (A stream whose end is counted twice breaks the count for good.)        *)
ConcurrencyKept ==
    c.twice \/ Cardinality({i \in Ids : c.str[i].open /\ ~c.str[i].ended})
                  <= MaxConcurrent

(* No stream is left waiting for a slot that is free: when the manager     *)
(* sleeps, pending_concurrency is empty or the working streams fill it -   *)
(* except right after a poll that a stream's error cut short.              *)
NoIdleSlot ==
    (pc = "idle" /\ ~c.woken /\ c.quic = "open" /\ ~c.twice /\ ~c.aborted) =>
        \/ c.conc = <<>>
        \/ Cardinality({i \in Ids : ~c.str[i].ended}) - Len(c.conc)
              >= MaxConcurrent

(* When the manager sleeps, nothing that arrived for a stream it could     *)
(* deliver to is left in QUIC's buffers - except on streams this very poll *)
(* freed after it had passed them over, and after a poll that the error of *)
(* another stream cut short: those wait for the next packet.               *)
LeftUnread ==
    (pc = "idle" /\ ~c.woken /\ c.quic = "open") =>
        \A i \in Ids : (c.str[i].in # <<>> /\ frame_acceptable(c, i)) =>
                           i \in c.freed \/ c.aborted

(* When the manager is gone, every caller still waiting has a message that *)
(* ends its wait, unless its request was still in the queue or its channel *)
(* was full: what the task held then is dropped with it.                   *)
EveryoneTold ==
    pc = "dead" =>
        \A r \in Reqs : (reader[r].st \in {"wait", "open"} /\ r \notin c.lost) =>
            \E n \in DOMAIN c.chan[r] : c.chan[r][n].k = "exit"

(* A reset of one response stays with its caller: with no other fault the  *)
(* connection lives on and no other caller sees an error.  The connection  *)
(* does end with a response that ends before the peer acknowledged its     *)
(* request's field section, while its own section is blocked, or while a   *)
(* frame of its request is still being sent (forgotten), and with a        *)
(* request whose instructions leave no room for its section.               *)
Contained ==
    (/\ peer.kinds \subseteq {"R", "N"}
     /\ c.cause \notin {"section not acked", "ended while blocked",
                       "forgotten", "no room"}) =>
        /\ pc # "dead"
        /\ \A r \in Reqs : reader[r].st = "error" => r \in peer.hurt
=============================================================================
