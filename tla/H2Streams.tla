----------------------------- MODULE H2Streams -----------------------------
(***************************************************************************)
(* The streams of one HTTP/2 connection: Streams (util/h2/streams.rs) with *)
(* its send windows (buffer/window.rs), and the part of ConnManager        *)
(* (util/h2/manager.rs) that drives it: new requests, the sending loop and *)
(* the frames that change a stream, a window or a limit.                   *)
(*                                                                         *)
(* ConnManager is one task.  Its poll handles the frames the reader has    *)
(* queued (phase "receive"), then takes the queued requests ("request"),   *)
(* then gives every stream in pending_send one turn ("input"), and sleeps  *)
(* (again "receive").  Streams is only touched from there.                 *)
(*                                                                         *)
(* The id 2n-1 of the code is n here.  A body is a number of units, a      *)
(* window counts the same units.  The server may send any frame for a      *)
(* stream it has seen, and none for one it has not: Init and the guards    *)
(* KnownToPeer exclude the frames that only a broken server sends.         *)
(***************************************************************************)
EXTENDS Integers, Sequences, FiniteSets

CONSTANTS
    LastId,      \* number of ids, generate_id fails beyond it
    MaxBody,     \* longest request body
    MaxWindow,   \* MAX_FLOW_CONTROL_WINDOW
    MaxFrame,    \* DEFAULT_MAX_FRAME_SIZE, most units in one DATA frame
    Windows,     \* values of SETTINGS_INITIAL_WINDOW_SIZE the server uses
    Increments,  \* increments of WINDOW_UPDATE frames
    Limits,      \* values of SETTINGS_MAX_CONCURRENT_STREAMS
    FirstWindow, \* DEFAULT_WINDOW_SIZE
    FirstLimit,  \* DEFAULT_MAX_CONCURRENT_STREAMS
    None         \* no stream

Ids == 1 .. LastId

ASSUME H2Assumption ==
    /\ LastId \in Nat /\ MaxBody \in Nat /\ MaxWindow \in Nat
    /\ MaxFrame \in Nat \ {0}
    /\ Windows \subseteq 0 .. MaxWindow
    /\ Increments \subseteq Nat \ {0}
    /\ Limits \subseteq Nat
    /\ FirstWindow \in Windows /\ FirstLimit \in Limits
    /\ None \notin Ids

VARIABLES
    state,       \* Stream.state, "none" for an id not in stream_map
    header,      \* Stream.header: "none" once sent, else the HEADERS to send
    left,        \* units of the body not read from Stream.data yet
    win,         \* Stream.send_window
    connWin,     \* the send window of the connection
    initWin,     \* stream_send_window_size
    cur,         \* current_concurrent_streams
    max,         \* max_concurrent_streams
    pendConc,    \* pending_concurrency
    pendSend,    \* pending_send
    pendConn,    \* pending_conn_window
    pendStream,  \* pending_stream_window
    nextId,      \* next_stream_id
    maxSendId,   \* max_send_id
    goaway,      \* go_away_error_code is Some
    phase,       \* what ConnManager is doing
    batch,       \* turns left in poll_input_request
    cursor       \* the stream whose turn it is, or None

---------------------------------------------------------------------------
(* The life of one stream: H2StreamState with its CloseReason, and what each *)
(* method of Streams does to it.  The two ActiveStates of an open stream are *)
(* written into its name, sending side first: H waits for HEADERS, D waits   *)
(* for DATA, so that Open {send: WaitData, recv: WaitHeaders} is "OpenDH".   *)
(* ReservedRemote is left out: no code constructs it, the client does not    *)
(* support push.  "none" is an id that is not in stream_map.                 *)

\* H2StreamState::Closed(_), by its reason
ClosedStates == {"LocalRst", "RemoteRst", "RemoteGoAway", "LocalGoAway", "EndStream"}

OpenStates == {"OpenHD", "OpenHH", "OpenDH", "OpenDD",
               "LocalH", "LocalD", "RemoteH", "RemoteD"}

States == {"none", "Idle"} \cup OpenStates \cup ClosedStates

\* send_headers_frame: the state after a HEADERS frame is sent.
SendHeadersState(s, eos) ==
    CASE s = "Idle"    -> IF eos THEN "LocalH" ELSE "OpenDH"
      [] s = "OpenHD"  -> IF eos THEN "LocalD" ELSE "OpenDD"
      [] s = "OpenHH"  -> IF eos THEN "LocalH" ELSE "OpenDH"
      [] s = "RemoteH" -> IF eos THEN "EndStream" ELSE "RemoteD"
      [] OTHER         -> "error"

\* Mutation of SendDataState: DATA is refused once the response has ended.
SendDataStateHalf(s, eos) ==
    CASE s = "OpenDH" -> IF eos THEN "LocalH" ELSE s
      [] s = "OpenDD" -> IF eos THEN "LocalD" ELSE s
      [] OTHER        -> "error"

\* send_data_frame: the state after a DATA frame is sent.
SendDataState(s, eos) ==
    CASE s = "OpenDH"  -> IF eos THEN "LocalH" ELSE s
      [] s = "OpenDD"  -> IF eos THEN "LocalD" ELSE s
      [] s = "RemoteD" -> IF eos THEN "EndStream" ELSE s
      [] OTHER         -> "error"

\* recv_headers: the state after a HEADERS frame is received.
RecvHeadersState(s, eos) ==
    CASE s = "Idle"                        -> IF eos THEN "RemoteH" ELSE "OpenHD"
      [] s = "OpenHH"                      -> IF eos THEN "RemoteH" ELSE "OpenHD"
      [] s = "OpenDH"                      -> IF eos THEN "RemoteD" ELSE "OpenDD"
      [] s = "LocalH"                      -> IF eos THEN "EndStream" ELSE "LocalD"
      [] s \in {"LocalGoAway", "LocalRst"} -> "ignore"
      [] OTHER                             -> "error"

\* recv_data: the state after a DATA frame is received.
RecvDataState(s, eos) ==
    CASE s = "OpenHD"                      -> IF eos THEN "RemoteH" ELSE s
      [] s = "OpenDD"                      -> IF eos THEN "RemoteD" ELSE s
      [] s = "LocalD"                      -> IF eos THEN "EndStream" ELSE s
      [] s \in {"LocalGoAway", "LocalRst"} -> "ignore"
      [] OTHER                             -> "error"

\* send_local_reset: an unclosed stream is reset, a finished one only renamed.
LocalResetState(s) ==
    IF s \in ClosedStates \ {"EndStream"} THEN s ELSE "LocalRst"

---------------------------------------------------------------------------
(* The state of the connection. *)

streams == <<state, header, left, win>>
limits == <<connWin, initWin, cur, max>>
queues == <<pendConc, pendSend, pendConn, pendStream>>
ids == <<nextId, maxSendId, goaway>>
loop == <<phase, batch, cursor>>
vars == <<streams, limits, queues, ids, loop>>

\* HEADERS that carry END_STREAM are "last", a body follows those that are "more".
Headers == {"none", "more", "last"}

\* "exit": the manager told every stream and is done; "dead": it returned an
\* error of its own without telling any.
Phases == {"receive", "request", "input", "exit", "dead"}

TypeOK ==
    /\ state \in [Ids -> States]
    /\ header \in [Ids -> Headers]
    /\ left \in [Ids -> 0 .. MaxBody]
    /\ win \in [Ids -> Int]
    /\ connWin \in Nat /\ initWin \in Windows
    /\ cur \in Int /\ max \in Limits
    /\ pendConc \in Seq(Ids) /\ pendSend \in Seq(Ids) /\ pendConn \in Seq(Ids)
    /\ pendStream \subseteq Ids
    /\ nextId \in 1 .. LastId + 1 /\ maxSendId \in Nat
    /\ goaway \in BOOLEAN
    /\ phase \in Phases /\ batch \in Nat /\ cursor \in Ids \cup {None}

Init ==
    /\ state = [i \in Ids |-> "none"]
    /\ header = [i \in Ids |-> "none"]
    /\ left = [i \in Ids |-> 0]
    /\ win = [i \in Ids |-> 0]
    /\ connWin = FirstWindow /\ initWin = FirstWindow
    /\ cur = 0 /\ max = FirstLimit
    /\ pendConc = <<>> /\ pendSend = <<>> /\ pendConn = <<>> /\ pendStream = {}
    /\ nextId = 1 /\ maxSendId = LastId /\ goaway = FALSE
    /\ phase = "receive" /\ batch = 0 /\ cursor = None

Unclosed(i) == state[i] \notin ClosedStates \cup {"none"}

KnownToPeer(i) == state[i] \notin {"none", "Idle"}

\* The orders in which a HashSet may be walked.
Orders(S) == {q \in [1 .. Cardinality(S) -> S] : \A i \in S : \E k \in DOMAIN q : q[k] = i}

---------------------------------------------------------------------------
(* Taking requests: poll_recv_request. *)

\* manage_pending_state, when no frame is waiting and no GOAWAY was received.
StartPending ==
    /\ phase = "receive" /\ ~goaway
    /\ phase' = "request"
    /\ UNCHANGED <<streams, limits, queues, ids, batch, cursor>>

\* Mutation of MustWait: a new request overtakes those that wait for a slot.
MustWaitIfFull == cur >= max

\* No slot is free, or an older request waits for one.
MustWait == cur >= max \/ pendConc # <<>>

\* A request that finds an id, with HEADERS h and b units of body, is counted
\* and queued, or kept for later.
NewStream(h, b) ==
    /\ phase = "request" /\ nextId <= LastId
    /\ nextId' = nextId + 1
    /\ IF MustWait
         THEN /\ pendConc' = Append(pendConc, nextId)
              /\ UNCHANGED <<cur, pendSend>>
         ELSE /\ cur' = cur + 1
              /\ pendSend' = Append(pendSend, nextId)
              /\ UNCHANGED pendConc
    /\ state' = [state EXCEPT ![nextId] = "Idle"]
    /\ header' = [header EXCEPT ![nextId] = h]
    /\ left' = [left EXCEPT ![nextId] = b]
    /\ win' = [win EXCEPT ![nextId] = initWin]
    /\ UNCHANGED <<connWin, initWin, max, pendConn, pendStream, maxSendId, goaway, loop>>

Least(a, b) == IF a < b THEN a ELSE b

\* Mutation of Admitted: the loop compares with > instead of >=.
AdmittedOneMore == IF cur <= max THEN Least(max - cur + 1, Len(pendConc)) ELSE 0

\* How many waiting streams the loop of try_consume_pending_concurrency admits.
Admitted == IF cur < max THEN Least(max - cur, Len(pendConc)) ELSE 0

\* try_consume_pending_concurrency, and the size of the batch that follows.
TryConsume ==
    LET n == Admitted
    IN  /\ phase = "request"
        /\ cur' = cur + n
        /\ pendSend' = pendSend \o SubSeq(pendConc, 1, n)
        /\ pendConc' = SubSeq(pendConc, n + 1, Len(pendConc))
        /\ phase' = "input"
        /\ batch' = Len(pendSend')
        /\ UNCHANGED <<streams, connWin, initWin, max, pendConn, pendStream, ids, cursor>>

---------------------------------------------------------------------------
(* Sending: poll_input_request and input_stream_frame. *)

NextPending ==
    /\ phase = "input" /\ cursor = None /\ batch > 0 /\ pendSend # <<>>
    /\ cursor' = Head(pendSend)
    /\ pendSend' = Tail(pendSend)
    /\ batch' = batch - 1
    /\ UNCHANGED <<streams, limits, pendConc, pendConn, pendStream, ids, phase>>

EndBatch ==
    /\ phase = "input" /\ cursor = None /\ (batch = 0 \/ pendSend = <<>>)
    /\ phase' = "receive" /\ batch' = 0
    /\ UNCHANGED <<streams, limits, queues, ids, cursor>>

\* headers and poll_read_body of a closed stream: nothing is sent.
SkipClosed ==
    /\ cursor # None /\ ~Unclosed(cursor)
    /\ cursor' = None
    /\ UNCHANGED <<streams, limits, queues, ids, phase, batch>>

\* poll_send_frame fails: the error leaves poll through manage_pending_state.
Die ==
    /\ phase' = "dead" /\ cursor' = None
    /\ UNCHANGED <<state, cur, queues, batch>>

\* The turn of the stream sends a frame that takes it to state t.
Sent(t) ==
    /\ state' = [state EXCEPT ![cursor] = t]
    /\ cur' = IF t = "EndStream" THEN cur - 1 ELSE cur
    /\ UNCHANGED <<queues, phase, batch>>

SendHeaders ==
    /\ cursor # None /\ Unclosed(cursor) /\ header[cursor] # "none"
    /\ header' = [header EXCEPT ![cursor] = "none"]
    /\ LET eos == header[cursor] = "last"
           t == SendHeadersState(state[cursor], eos)
       IN  IF t = "error" THEN Die
           ELSE /\ Sent(t)
                /\ cursor' = IF eos THEN None ELSE cursor
    /\ UNCHANGED <<left, win, connWin, initWin, max, ids>>

\* poll_read_body reached: the stream is open and its HEADERS are sent.
Reading == cursor # None /\ Unclosed(cursor) /\ header[cursor] = "none"

Available == win[cursor] > 0 /\ connWin > 0

BlockOnStream ==
    /\ Reading /\ win[cursor] <= 0
    /\ pendStream' = pendStream \cup {cursor}
    /\ cursor' = None
    /\ UNCHANGED <<streams, limits, pendConc, pendSend, pendConn, ids, phase, batch>>

BlockOnConn ==
    /\ Reading /\ win[cursor] > 0 /\ connWin <= 0
    /\ pendConn' = Append(pendConn, cursor)
    /\ cursor' = None
    /\ UNCHANGED <<streams, limits, pendConc, pendSend, pendStream, ids, phase, batch>>

\* n units are in the body, in both windows and in one frame.
Fits(n) ==
    n <= left[cursor] /\ n <= win[cursor] /\ n <= connWin /\ n <= MaxFrame

\* poll_sized_data reads n units.
SendData(n) ==
    /\ Reading /\ Available
    /\ Fits(n)
    /\ left' = [left EXCEPT ![cursor] = @ - n]
    /\ win' = [win EXCEPT ![cursor] = @ - n]
    /\ connWin' = connWin - n
    /\ LET t == SendDataState(state[cursor], FALSE)
       IN  IF t = "error" THEN Die ELSE Sent(t) /\ UNCHANGED cursor
    /\ UNCHANGED <<header, initWin, max, ids>>

\* The body is read to its end: an empty DATA frame with END_STREAM.
Finish ==
    /\ Reading /\ Available /\ left[cursor] = 0
    /\ LET t == SendDataState(state[cursor], TRUE)
       IN  IF t = "error" THEN Die ELSE Sent(t) /\ cursor' = None
    /\ UNCHANGED <<header, left, win, connWin, initWin, max, ids>>

\* Mutation of BodyPending: the stream is not queued again.
BodyPendingLost ==
    /\ Reading /\ Available
    /\ cursor' = None
    /\ UNCHANGED <<streams, limits, queues, ids, phase, batch>>

\* The body has nothing to give yet.
BodyPending ==
    /\ Reading /\ Available
    /\ pendSend' = Append(pendSend, cursor)
    /\ cursor' = None
    /\ UNCHANGED <<streams, limits, pendConc, pendConn, pendStream, ids, phase, batch>>

\* A reset of an unclosed stream, which drops its header and its body.
Reset(i, s) ==
    /\ state' = [state EXCEPT ![i] = s]
    /\ header' = [header EXCEPT ![i] = "none"]
    /\ left' = [left EXCEPT ![i] = 0]
    /\ cur' = cur - 1

\* Reading the body fails: deal_poll_body_error resets the stream.
BodyError ==
    /\ Reading /\ Available
    /\ Reset(cursor, "LocalRst")
    /\ cursor' = None
    /\ UNCHANGED <<win, connWin, initWin, max, queues, ids, phase, batch>>

---------------------------------------------------------------------------
(* Errors of the connection: manage_resp_error and exit_with_error. *)

\* exit_with_error after the streams were left in states s.  The windows are
\* not read again, so a partly applied change of them is left out.
CloseAll(s) ==
    /\ state' = [i \in Ids |-> IF s[i] \in ClosedStates \cup {"none"}
                               THEN s[i] ELSE "LocalGoAway"]
    /\ header' = [i \in Ids |-> IF Unclosed(i) THEN "none" ELSE header[i]]
    /\ left' = [i \in Ids |-> IF Unclosed(i) THEN 0 ELSE left[i]]
    /\ pendConc' = <<>> /\ pendSend' = <<>> /\ pendConn' = <<>> /\ pendStream' = {}
    /\ phase' = "exit"
    /\ UNCHANGED <<win, connWin, initWin, cur, nextId, batch, cursor>>

\* A connection error: from a frame, from the decoder, or the reader is gone.
\* After a GOAWAY the manager skips what the reader reports.
ConnectionError ==
    /\ phase = "receive" /\ ~goaway
    /\ CloseAll(state)
    /\ UNCHANGED <<max, maxSendId, goaway>>

\* The rest of manage_pending_state after a GOAWAY.
DealWithGoAway ==
    /\ phase = "receive" /\ goaway
    /\ \A i \in Ids : ~Unclosed(i)
    /\ phase' = "exit"
    /\ UNCHANGED <<streams, limits, queues, ids, batch, cursor>>

---------------------------------------------------------------------------
(* Frames: poll_recv_frame. *)

\* Stream i moves to t by a frame; when its request is gone (gone) the manager
\* fails to hand the frame over and resets the stream.
Receive(i, t, gone) ==
    IF t = "error" THEN CloseAll(state) /\ UNCHANGED <<max, maxSendId, goaway>>
    ELSE IF t = "ignore" THEN UNCHANGED vars
    ELSE LET u == IF gone THEN LocalResetState(t) ELSE t
             ended == t \notin ClosedStates /\ u \in ClosedStates
         IN  /\ state' = [state EXCEPT ![i] = u]
             /\ header' = [header EXCEPT ![i] = IF ended THEN "none" ELSE @]
             /\ left' = [left EXCEPT ![i] = IF ended THEN 0 ELSE @]
             /\ cur' = IF u \in ClosedStates THEN cur - 1 ELSE cur
             /\ UNCHANGED <<win, connWin, initWin, max, queues, ids, loop>>

RecvHeaders(i, e, gone) ==
    /\ phase = "receive" /\ KnownToPeer(i)
    /\ Receive(i, RecvHeadersState(state[i], e), gone)

RecvData(i, e, gone) ==
    /\ phase = "receive" /\ KnownToPeer(i)
    /\ Receive(i, RecvDataState(state[i], e), gone)

\* recv_remote_reset: the rest of the stream is forgotten.
RecvReset(i) ==
    /\ phase = "receive" /\ KnownToPeer(i) /\ Unclosed(i)
    /\ Reset(i, "RemoteRst")
    /\ UNCHANGED <<win, connWin, initWin, max, queues, ids, loop>>

\* manage_stream_error: a frame breaks the rules of its stream only, or the
\* request has gone while a frame for it was held back.
StreamError(i) ==
    /\ phase = "receive" /\ KnownToPeer(i)
    /\ IF Unclosed(i)
         THEN Reset(i, "LocalRst")
         ELSE /\ state' = [state EXCEPT ![i] = LocalResetState(@)]
              /\ UNCHANGED <<header, left, cur>>
    /\ UNCHANGED <<win, connWin, initWin, max, queues, ids, loop>>

\* The stream is queued again if it waited for its window.
Woken(i) == IF i \in pendStream THEN <<i>> ELSE <<>>

\* recv_window_frame for a stream, reassign_stream_send_window.
RecvStreamWindow(i, n) ==
    /\ phase = "receive" /\ KnownToPeer(i)
    /\ IF win[i] + n > MaxWindow
         THEN CloseAll(state) /\ UNCHANGED <<max, maxSendId, goaway>>
         ELSE /\ win' = [win EXCEPT ![i] = @ + n]
              /\ pendStream' = pendStream \ {i}
              /\ pendSend' = pendSend \o Woken(i)
              /\ UNCHANGED <<state, header, left, limits, pendConc, pendConn, ids, loop>>

\* recv_window_frame for the connection, reassign_conn_send_window.
RecvConnWindow(n) ==
    /\ phase = "receive"
    /\ IF connWin + n > MaxWindow
         THEN CloseAll(state) /\ UNCHANGED <<max, maxSendId, goaway>>
         ELSE /\ connWin' = connWin + n
              /\ pendSend' = pendSend \o pendConn
              /\ pendConn' = <<>>
              /\ UNCHANGED <<streams, initWin, cur, max, pendConc, pendStream, ids, loop>>

\* recv_settings_frame: both settings of one frame (a value that stays the same
\* is one the frame does not carry), apply_send_initial_window_size.
RecvSettings(m, w) ==
    /\ phase = "receive"
    /\ max' = m
    /\ IF \E i \in Ids : state[i] # "none" /\ w > initWin /\ win[i] + (w - initWin) > MaxWindow
         THEN CloseAll(state) /\ UNCHANGED <<maxSendId, goaway>>
         ELSE /\ initWin' = w
              /\ win' = [i \in Ids |-> IF state[i] = "none" THEN win[i]
                                       ELSE win[i] + (w - initWin)]
              /\ IF w > initWin
                   THEN /\ \E q \in Orders(pendStream) : pendSend' = pendSend \o q
                        /\ pendStream' = {}
                   ELSE UNCHANGED <<pendSend, pendStream>>
              /\ UNCHANGED <<state, header, left, connWin, cur, pendConc, pendConn, ids, loop>>

\* recv_go_away_frame: streams above last are given up, the manager takes no
\* more requests.  An error code it does not know (~known) ends the connection.
RecvGoAway(last, known) ==
    LET Given(i) == i > last /\ Unclosed(i)
        s == [i \in Ids |-> IF Given(i) THEN "RemoteGoAway" ELSE state[i]]
    IN  /\ phase = "receive"
        /\ IF maxSendId < last
             THEN CloseAll(state) /\ UNCHANGED <<max, maxSendId, goaway>>
             ELSE /\ maxSendId' = last
                  /\ IF ~known
                       THEN CloseAll(s) /\ UNCHANGED <<max, goaway>>
                       ELSE /\ state' = s
                            /\ header' = [i \in Ids |-> IF Given(i) THEN "none" ELSE header[i]]
                            /\ left' = [i \in Ids |-> IF Given(i) THEN 0 ELSE left[i]]
                            /\ cur' = cur - Cardinality({i \in Ids : Given(i) /\ state[i] # "Idle"})
                            /\ goaway' = TRUE
                            /\ UNCHANGED <<win, connWin, initWin, max, queues, nextId, loop>>

---------------------------------------------------------------------------
Input ==
    \/ NextPending \/ EndBatch \/ SkipClosed \/ SendHeaders
    \/ BlockOnStream \/ BlockOnConn
    \/ \E n \in 1 .. MaxBody : SendData(n)
    \/ Finish \/ BodyPending \/ BodyError

Frame ==
    \/ \E i \in Ids, e \in BOOLEAN, g \in BOOLEAN : RecvHeaders(i, e, g)
    \/ \E i \in Ids, e \in BOOLEAN, g \in BOOLEAN : RecvData(i, e, g)
    \/ \E i \in Ids : RecvReset(i)
    \/ \E i \in Ids : StreamError(i)
    \/ \E i \in Ids, n \in Increments : RecvStreamWindow(i, n)
    \/ \E n \in Increments : RecvConnWindow(n)
    \/ \E m \in Limits, w \in Windows : RecvSettings(m, w)
    \/ \E last \in 0 .. LastId, known \in BOOLEAN : RecvGoAway(last, known)

Next ==
    \/ StartPending
    \/ NewStream("last", 0)
    \/ \E b \in 0 .. MaxBody : NewStream("more", b)
    \/ TryConsume
    \/ Input
    \/ Frame
    \/ ConnectionError
    \/ DealWithGoAway

Spec == Init /\ [][Next]_vars

---------------------------------------------------------------------------
(* What the code must not get wrong. *)

InSeq(i, q) == \E k \in DOMAIN q : q[k] = i

Once(q) == \A j, k \in DOMAIN q : q[j] = q[k] => j = k

\* Where the sending loop will find a stream again.
Places(i) == <<InSeq(i, pendConc), InSeq(i, pendSend), InSeq(i, pendConn),
               i \in pendStream, i = cursor>>

\* The request of the stream is not fully sent.
Unsent(i) == state[i] \in {"Idle", "OpenHD", "OpenHH", "OpenDH", "OpenDD", "RemoteH", "RemoteD"}

Running == phase \notin {"exit", "dead"}

\* Each stream with something left to send is in one of the queues of Streams or
\* having its turn, and no stream is in two places: push and pop of the four
\* queues lose none, and a second entry would send a second END_STREAM.  It waits
\* for a window only while that window is empty: every WINDOW_UPDATE and SETTINGS
\* that opens a window requeues those it held back.
QueuedForReason ==
    /\ Running => \A i \in Ids : Unsent(i) => \E k \in 1 .. 5 : Places(i)[k]
    /\ Once(pendConc) /\ Once(pendSend) /\ Once(pendConn)
    /\ \A i \in Ids : \A j, k \in 1 .. 5 : Places(i)[j] /\ Places(i)[k] => j = k
    /\ \A i \in pendStream : Running => win[i] <= 0
    /\ pendConn # <<>> => connWin = 0

\* The errors of poll_send_frame that the code calls impossible are: the manager
\* never ends by an error of its own sending loop.
NeverDead == phase # "dead"

\* current_concurrent_streams is the number of streams that are neither closed
\* nor waiting in pending_concurrency: no path forgets or repeats a decrement.
CountExact ==
    Running => cur = Cardinality({i \in Ids : Unclosed(i) /\ ~InSeq(i, pendConc)})

\* Streams are opened in the order of their ids, as the protocol demands, also
\* when some wait in pending_concurrency while others are sent.
OpenedInOrder ==
    \A i, j \in Ids : i < j /\ state[i] = "Idle" =>
        state[j] \in {"none", "Idle", "RemoteGoAway", "LocalGoAway"}

\* HEADERS are sent only while the server allows another stream: the streams it
\* has to serve, the new one included, are at most SETTINGS_MAX_CONCURRENT_STREAMS;
\* and the count that decides it stays exact.
WithinLimit ==
    /\ []CountExact
    /\ [][\A i \in Ids : state[i] = "Idle" /\ state'[i] \in OpenStates =>
          Cardinality({j \in Ids : state'[j] \in OpenStates}) <= max]_vars

=============================================================================
