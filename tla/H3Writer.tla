------------------------------ MODULE H3Writer ------------------------------
(* The writing half of an HTTP/3 connection: FrameEncoder of                 *)
(* ylong_http/src/h3/encoder.rs and the part of the client's StreamManager   *)
(* that takes the requests in turn, has their frames encoded into a buffer   *)
(* and hands them to QUIC (util/h3/stream_manager.rs).  Bytes are cells: a   *)
(* pair of what the cell is and a number.  One step is one call of encode.   *)
EXTENDS Integers, Sequences

CONSTANTS
  Requests,        \* by stream: [fields, insts, body], numbers of cells
  Orders,          \* in which the requests may have come
  Controls,        \* frames of the control stream: [type, cells]
  BUF,             \* DECODE_BUF_SIZE: the buffer, and what QUIC must have room for
  MAX_FRAME,       \* DEFAULT_MAX_FRAME_SIZE
  Grants,          \* by how much the server lets QUIC send more
  MAX_GRANTS       \* bound of the model

VARIABLES
  pending_send,    \* streams whose turn comes
  streams,         \* of Streams and of the encoder, by stream
  field_iter,      \* QpackEncoder: the stream whose fields are to be encoded, or NONE
  cur,             \* the turn that is going on
  quic,            \* room, cells accepted and the ends of streams
  ctl, odd         \* frames for the control stream; where the properties end

CONTROL == 2
Ids == DOMAIN Requests
NONE == -1
NoTurn == [id |-> NONE, at |-> "none"]
Dead == [id |-> NONE, at |-> "dead"]     \* after an error of the connection
NoMessage == [repr |-> <<>>, inst |-> 0]
Least(a, b) == IF a < b THEN a ELSE b

Body(id) == [i \in 1 .. Requests[id].body |-> <<"data", i>>]
Section(id) == <<<<"prefix", 0>>>> \o [i \in 1 .. Requests[id].fields |-> <<"field", 10 * id + i>>]
Type(type) == <<type, 0>>
Length(cells) == <<"length", Len(cells)>>
After(s, n) == SubSeq(s, n + 1, Len(s))

Fresh == [header |-> TRUE, read |-> 0, encoding |-> FALSE, state |-> "Idle", frame |-> <<>>,
          message |-> NoMessage, payload_offset |-> 0]

Init ==
  /\ pending_send \in Orders
  /\ streams = [id \in Ids \union {CONTROL} |-> Fresh]
  /\ field_iter = NONE /\ cur = NoTurn
  /\ quic = [room |-> 2 * BUF, grants |-> 0, stopped |-> {}, shut |-> {},
             out |-> [id \in Ids \union {CONTROL} |-> <<>>], fin |-> {}]
  /\ ctl = Controls
  /\ odd = [mixed |-> {}, lost |-> {}, cut |-> {}, short |-> FALSE]

-----------------------------------------------------------------------------
(* FrameEncoder.                                                             *)

\* set_frame; a field section is not kept with the stream but in the encoder.
set_frame(id, frame) ==
  /\ streams[id].state \in {"Idle", "FrameComplete"}
  /\ streams' = [streams EXCEPT ![id].state = frame.type, ![id].frame = frame.cells,
                                ![id].encoding = TRUE, ![id].header = FALSE]
  /\ field_iter' = IF frame.type = "Headers" THEN id ELSE field_iter

\* What encode leaves behind: the stream, the cells and the instructions
\* written into the two buffers.
Encoded(s, cells, inst, iter) == [s |-> s, cells |-> cells, inst |-> inst, iter |-> iter]

\* encode_headers_repr and encode_qpack_inst: what fits of both.
encode_headers_repr_and_inst(s, head, room, iter) ==
  LET n == Least(Len(s.message.repr), room - Len(head))
      k == Least(s.message.inst, BUF)
      left == [repr |-> After(s.message.repr, n), inst |-> s.message.inst - k]
  IN  Encoded([s EXCEPT !.state = IF left = NoMessage THEN "FrameComplete" ELSE @,
                        !.message = left],
              head \o SubSeq(s.message.repr, 1, n), k, iter)

\* QpackEncoder::encode takes the fields that set_parts left, if any.
encode_headers_with_qpack(s, head) ==
  LET section == IF field_iter = NONE THEN <<<<"prefix", 0>>>> ELSE Section(field_iter)
      insts == IF field_iter = NONE THEN 0 ELSE Requests[field_iter].insts
  IN  encode_headers_repr_and_inst(
        [s EXCEPT !.message = [repr |-> section, inst |-> insts]],
        Append(head, Length(section)), BUF, NONE)

\* Bug: the place in the payload is kept when the frame is complete.
encode_data_payloadKept(s, head) ==
  LET left == Len(s.frame) - s.payload_offset
      n == Least(left, BUF - Len(head))
  IN  Encoded([s EXCEPT !.state = IF n = left THEN "FrameComplete" ELSE @,
                        !.payload_offset = @ + n],
              head \o SubSeq(s.frame, s.payload_offset + 1, s.payload_offset + n), 0, field_iter)

encode_data_payload(s, head) ==
  LET left == Len(s.frame) - s.payload_offset
      n == Least(left, BUF - Len(head))
  IN  Encoded([s EXCEPT !.state = IF n = left THEN "FrameComplete" ELSE @,
                        !.payload_offset = IF n = left THEN 0 ELSE @ + n],
              head \o SubSeq(s.frame, s.payload_offset + 1, s.payload_offset + n), 0, field_iter)

\* encode_settings_len and encode_settings_payload, in one go.
encode_settings(s) == <<Type("Settings"), Length(s.frame)>> \o s.frame

\* encode_cancel_push, encode_goaway and encode_max_push_id return the length
\* without the cell that holds it, and the caller sends that much.
encode_whole(s) ==
  LET frame == <<Type(s.state), Length(s.frame)>> \o s.frame
  IN  Encoded([s EXCEPT !.state = "FrameComplete"], SubSeq(frame, 1, Len(frame) - 1), 0, field_iter)

\* A section that has been begun is not begun again, even when it is empty.
Begun(s) == s.state = "HeadersPayload" /\ s.message # NoMessage

encode(s) ==
  CASE s.state \in {"Idle", "FrameComplete"} -> Encoded(s, <<>>, 0, field_iter)
    [] s.state = "Headers" ->
         encode_headers_with_qpack([s EXCEPT !.state = "HeadersPayload"], <<Type("Headers")>>)
    [] Begun(s) -> encode_headers_repr_and_inst(s, <<>>, BUF, field_iter)
    [] s.state = "Data" ->
         encode_data_payload([s EXCEPT !.state = "DataPayload"], <<Type("Data"), Length(s.frame)>>)
    [] s.state = "DataPayload" -> encode_data_payload(s, <<>>)
    [] s.state = "Settings" ->
         Encoded([s EXCEPT !.state = "FrameComplete"], encode_settings(s), 0, field_iter)
    [] s.state \in {"CancelPush", "Goaway", "MaxPushId"} -> encode_whole(s)

-----------------------------------------------------------------------------
(* StreamManager: the turn of a stream, input_stream_frame.                  *)

stream_writable == quic.room >= BUF
Turn(id, at) == [id |-> id, at |-> at]

\* QUIC takes the instructions and then the cells, as far as it has room; what
\* it does not take is not sent again, and no room at all is the error Done,
\* which ends the connection.  The lock is held: the room only shrinks.
Hand(id, r, inst) ==
  LET k == Least(inst, quic.room)
      n == Least(Len(r.cells), quic.room - k)
  IN  /\ streams' = [streams EXCEPT ![id] = r.s]
      /\ field_iter' = r.iter
      /\ quic' = [quic EXCEPT !.room = @ - n - k, !.out[id] = @ \o SubSeq(r.cells, 1, n)]
      /\ cur' = IF r.cells # <<>> /\ quic.room = k THEN Dead ELSE cur
      /\ odd' = [odd EXCEPT !.lost = IF n \in 1 .. Len(r.cells) - 1 THEN @ \union {id} ELSE @,
                            !.mixed = IF streams[id].state = "Headers" /\ field_iter # id
                                      THEN @ \union {id, field_iter} ELSE @,
                            !.short = @ \/ streams[id].state \in {"CancelPush", "Goaway", "MaxPushId"}]

\* poll_input_request: next_stream, and the header if it has not been sent.
NextStream ==
  /\ cur = NoTurn /\ pending_send # <<>>
  /\ LET id == Head(pending_send)
     IN  /\ pending_send' = Tail(pending_send)
         /\ IF streams[id].header
            THEN /\ set_frame(id, [type |-> "Headers", cells |-> <<>>])
                 /\ cur' = Turn(id, "header")
            ELSE /\ cur' = Turn(id, IF streams[id].encoding THEN "frame" ELSE "body")
                 /\ UNCHANGED <<streams, field_iter>>
  /\ UNCHANGED <<quic, ctl, odd>>

\* poll_send_header: encode until nothing is left, while QUIC has room.
poll_send_header ==
  LET id == cur.id
  IN  /\ cur.at = "header"
      /\ \/ ~stream_writable /\ cur' = Turn(id, "frame") /\ UNCHANGED <<streams, field_iter, quic, odd>>
         \/ /\ stream_writable
            /\ \E r \in {encode(streams[id])} :
                 IF r.cells = <<>> /\ r.inst = 0
                 THEN /\ streams' = [streams EXCEPT ![id].encoding = FALSE]
                      /\ cur' = Turn(id, "body") /\ UNCHANGED <<field_iter, quic, odd>>
                 ELSE Hand(id, r, r.inst)
      /\ UNCHANGED <<pending_send, ctl>>

\* poll_send_frame goes on with a frame; the instructions are not sent.  The
\* stream waits for another turn when QUIC has no room, and is given up when
\* the server has asked to stop.
poll_send_frame ==
  LET id == cur.id
  IN  /\ cur.at = "frame" /\ id \notin quic.stopped
      /\ \/ /\ ~stream_writable /\ cur' = NoTurn
            /\ pending_send' = Append(pending_send, id)
            /\ UNCHANGED <<streams, field_iter, quic, odd>>
         \/ /\ stream_writable
            /\ \E r \in {encode(streams[id])} :
                 IF r.cells = <<>>
                 THEN /\ streams' = [streams EXCEPT ![id].encoding = FALSE]
                      /\ cur' = Turn(id, "body") /\ UNCHANGED <<field_iter, quic, odd>>
                 ELSE Hand(id, r, 0)
            /\ UNCHANGED pending_send
      /\ UNCHANGED ctl

\* A stream that the server stopped: what is left of a frame is dropped with the
\* turn; before the body is read, stream_capacity fails and the stream is shut
\* with an error; and the end of the stream cannot be sent, which is an error of
\* the connection.
StreamStopped ==
  /\ cur.at \in {"frame", "body", "end"} /\ cur.id \in quic.stopped
  /\ cur' = IF cur.at = "end" THEN Dead ELSE NoTurn
  /\ quic' = IF cur.at = "body" THEN [quic EXCEPT !.shut = @ \union {cur.id}] ELSE quic
  /\ UNCHANGED <<pending_send, streams, field_iter, ctl, odd>>

\* poll_read_body reads as much as QUIC has room for: no room, or no body left,
\* is the end of the request.
poll_read_body ==
  LET id == cur.id
      s == streams[id]
      n == Least(Least(quic.room, MAX_FRAME), Len(Body(id)) - s.read)
  IN  /\ cur.at = "body" /\ id \notin quic.stopped
      /\ IF n > 0
         THEN /\ set_frame(id, [type |-> "Data", cells |-> SubSeq(Body(id), s.read + 1, s.read + n)])
              /\ cur' = Turn(id, "read") /\ UNCHANGED <<quic, odd>>
         ELSE /\ odd' = [odd EXCEPT !.cut = IF s.read = Len(Body(id)) THEN @ ELSE @ \union {id}]
              /\ cur' = Turn(id, "end") /\ UNCHANGED <<streams, field_iter, quic>>
      /\ UNCHANGED <<pending_send, ctl>>

\* DataReadState::Finish: the lock has been free since the body was read.
SendEnd ==
  /\ cur.at = "end" /\ cur.id \notin quic.stopped
  /\ quic' = [quic EXCEPT !.fin = @ \union {cur.id}]
  /\ cur' = NoTurn
  /\ UNCHANGED <<pending_send, streams, field_iter, ctl, odd>>

\* The frame that was read is set; the place in the body moves on.
BodyRead ==
  /\ cur.at = "read"
  /\ streams' = [streams EXCEPT ![cur.id].read = @ + Len(streams[cur.id].frame)]
  /\ cur' = Turn(cur.id, "frame")
  /\ UNCHANGED <<pending_send, field_iter, quic, ctl, odd>>

\* The body of the request is not there yet: the stream waits for its turn.
BodyPending ==
  /\ cur.at = "body" /\ cur.id \notin quic.stopped
  /\ streams[cur.id].read < Len(Body(cur.id))
  /\ cur' = NoTurn /\ pending_send' = Append(pending_send, cur.id)
  /\ UNCHANGED <<streams, field_iter, quic, ctl, odd>>

\* send_settings, and the other frames that the encoder has for a control stream.
SendControl ==
  /\ cur = NoTurn /\ ctl # <<>> /\ quic.room >= BUF
  /\ set_frame(CONTROL, Head(ctl))
  /\ ctl' = Tail(ctl) /\ cur' = Turn(CONTROL, "control")
  /\ UNCHANGED <<pending_send, quic, odd>>
EncodeControl ==
  /\ cur.at = "control"
  /\ \E r \in {encode(streams[CONTROL])} :
       IF r.cells = <<>> THEN cur' = NoTurn /\ UNCHANGED <<streams, field_iter, quic, odd>>
       ELSE Hand(CONTROL, r, 0)
  /\ UNCHANGED <<pending_send, ctl>>

\* The server lets the connection send more, and may ask a stream to stop,
\* whenever the manager does not hold the lock of the connection.
Unlocked == cur.at \in {"none", "body", "read", "end"}
Grant(n) ==
  /\ Unlocked /\ quic.grants < MAX_GRANTS
  /\ quic' = [quic EXCEPT !.room = @ + n, !.grants = @ + 1]
  /\ UNCHANGED <<pending_send, streams, field_iter, cur, ctl, odd>>
StopSending(id) ==
  /\ Unlocked /\ quic.out[id] # <<>> /\ id \notin quic.fin
  /\ quic' = [quic EXCEPT !.stopped = {id}]
  /\ UNCHANGED <<pending_send, streams, field_iter, cur, ctl, odd>>

Next ==
  \/ NextStream \/ poll_send_header \/ poll_send_frame \/ StreamStopped
  \/ poll_read_body \/ SendEnd \/ BodyRead \/ BodyPending \/ SendControl \/ EncodeControl
  \/ \E n \in Grants : Grant(n)
  \/ \E id \in Ids : StopSending(id)

-----------------------------------------------------------------------------
\* What a frame of data may look like on the wire: DATA frames whose payloads
\* together are the body.
Payload(cells) ==
  LET f[i \in 0 .. Len(cells)] ==
        IF i = 0 THEN [left |-> 0, got |-> <<>>, is |-> "frame"]
        ELSE LET s == f[i - 1]
             IN  CASE s.is = "bad" -> s
                   [] s.is = "frame" -> [s EXCEPT !.is = IF cells[i] = Type("Data") THEN "length" ELSE "bad"]
                   [] s.is = "length" -> [s EXCEPT !.left = cells[i][2], !.is = "data"]
                   [] OTHER -> [s EXCEPT !.left = @ - 1, !.got = Append(@, cells[i]),
                                         !.is = IF s.left = 1 THEN "frame" ELSE "data"]
  IN  f[Len(cells)]
HeadersFrame(id) == <<Type("Headers"), Length(Section(id))>> \o Section(id)
Starts(s, t) == Len(s) <= Len(t) /\ s = SubSeq(t, 1, Len(s))

Own(id) ==
  LET out == quic.out[id]
      h == HeadersFrame(id)
  IN  IF Len(out) <= Len(h) THEN Starts(out, h)
      ELSE /\ Starts(h, out)
           /\ \E p \in {Payload(After(out, Len(h)))} : p.is # "bad" /\ Starts(p.got, Body(id))

\* What QUIC is handed on the stream of a request is the HEADERS frame of that
\* request and DATA frames with its body, whatever turns the streams take and
\* wherever QUIC runs out of room.  The exception is a stream whose turn ended
\* before its section was encoded: QpackEncoder holds the fields of one request
\* only, and the next stream's set_frame replaces them.  Another is a section
\* sent together with instructions when there is room for one of them only:
\* nobody looks at how much stream_send took.
StreamsOwn == \A id \in Ids \ (odd.mixed \union odd.lost) : Own(id)

\* A stream is ended only after the whole body has been handed over, unless a
\* turn begins with the body when QUIC has no room left: then the buffer to
\* read into is empty, and what poll_read returns is taken for the end.
BodySent(id) == \E p \in {Payload(After(quic.out[id], Len(HeadersFrame(id))))} :
                  p.is = "frame" /\ p.got = Body(id)
EndedWhole == \A id \in quic.fin \ (odd.mixed \union odd.lost \union odd.cut) : BodySent(id)

\* The control stream carries whole frames, up to the first of those that are
\* cut by encode_whole.
ControlWhole ==
  ~odd.short =>
    \E n \in 0 .. Len(Controls) :
      quic.out[CONTROL] = LET f[i \in 0 .. n] ==
                                IF i = 0 THEN <<>>
                                ELSE f[i - 1] \o <<Type(Controls[i].type), Length(Controls[i].cells)>>
                                       \o Controls[i].cells
                          IN  f[n]
=============================================================================
