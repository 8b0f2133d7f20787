------------------------------ MODULE H2Writer ------------------------------
(* The writing half of an HTTP/2 connection: FrameEncoder of                 *)
(* ylong_http/src/h2/encoder.rs and the task SendData of the client          *)
(* (util/h2/input.rs), which takes frames from a channel, has each encoded   *)
(* into a buffer of fixed length, as often as it takes, and writes what the  *)
(* connection accepts.  One step is one turn of the loop of encode or one    *)
(* poll_write.  HpackEncoder is an encoder that hands over the field block   *)
(* of the frame in pieces that fill its buffer.                              *)
EXTENDS H2Frames, SequencesExt

CONSTANTS
  Queues,         \* sequences of frames the manager sends
  BufferSizes,    \* lengths of the caller's buffer: 1024 in SendData
  HPACK_BUFFER    \* header_payload_buffer: DEFAULT_MAX_FRAME_SIZE

VARIABLES
  queue,          \* frames in the channel
  asked,          \* frames taken from it, as they were to be sent
  enc,            \* FrameEncoder
  buf,            \* WriteBuf: the cells encoded, and the room of the call
  synced,         \* SettingsSync and the largest frame the server takes
  out             \* what the connection accepted

Least(a, b) == IF a < b THEN a ELSE b
Over(a, b) == IF a > b THEN a - b ELSE 0        \* saturating_sub
NoFrame == Frame("none", 0, 0, <<>>)

Init ==
  /\ queue \in Queues
  /\ asked = <<>>
  /\ enc = [state |-> "Idle", frame |-> NoFrame, done |-> 0, offset |-> 0, left |-> 0,
            block |-> <<>>, piece |-> <<>>, index |-> 0]
  /\ \E n \in BufferSizes : buf = [size |-> n, cells |-> <<>>, on |-> FALSE]
  /\ synced = [state |-> "Synced", max |-> HPACK_BUFFER]
  /\ out = [cells |-> <<>>, cut |-> FALSE]

-----------------------------------------------------------------------------
(* SendData in its state RecvFrame: update_settings, then set_frame.         *)

\* The SETTINGS of the server come back as their acknowledgement: the encoder
\* takes the size of frames from them and an empty frame is sent.  The size of
\* the header table goes to HpackEncoder, which ignores it (Hpack).
IsAck(f) == f.type = "SETTINGS" /\ Has(f.flags, ACK)
SizeIn(f) == {k \in 1 .. Len(f.val) - 1 : k % 2 = 1 /\ f.val[k] = 5}

set_frame(f) ==
  enc' = CASE f.type = "HEADERS" ->
                [enc EXCEPT !.frame = f, !.done = 0, !.index = 0, !.state = "HeadersFrame",
                            !.piece = First(f.val, HPACK_BUFFER),
                            !.block = After(f.val, HPACK_BUFFER)]
           [] f.type = "DATA" ->
                [enc EXCEPT !.frame = f, !.done = 0, !.offset = 0, !.left = Len(f.val),
                            !.state = "DataHeader"]
           [] OTHER -> [enc EXCEPT !.frame = f, !.done = 0, !.state = "Header"]

RecvFrame ==
  /\ enc.state \in {"Idle", "Complete"} /\ buf.cells = <<>> /\ ~buf.on
  /\ queue # <<>>
  /\ LET f == Head(queue)
         g == IF IsAck(f) THEN [f EXCEPT !.val = <<>>] ELSE f
     IN  /\ set_frame(g)
         /\ asked' = Append(asked, g)
         /\ synced' = CASE IsAck(f) /\ SizeIn(f) # {} ->
                             [synced EXCEPT !.max = f.val[1 + CHOOSE k \in SizeIn(f) :
                                                              \A j \in SizeIn(f) : j <= k]]
                        [] f.type = "SETTINGS" /\ ~IsAck(f) ->
                             [synced EXCEPT !.state = "Acknowledging"]
                        [] OTHER -> synced
  /\ queue' = Tail(queue)
  /\ buf' = [buf EXCEPT !.on = TRUE]
  /\ UNCHANGED out

-----------------------------------------------------------------------------
(* FrameEncoder::encode: while there is room, the part of the frame that     *)
(* comes next is written; the call returns when a part could not be          *)
(* completed.                                                                *)

Room == buf.size - Len(buf.cells)
In(state) == buf.on /\ Room > 0 /\ enc.state = state

\* A turn of the loop wrote these cells.
Turn(cells, e) ==
  /\ enc' = e
  /\ buf' = [buf EXCEPT !.cells = @ \o cells,
                        !.on = e.state \notin {enc.state, "Complete"}]
  /\ UNCHANGED <<queue, asked, synced>>

\* The cells of a frame header that are written at once, from where it stands.
HeaderPart(header) == SubSeq(header, enc.done + 1, Least(HEADER_LENGTH, enc.done + Room))
HeaderEnd == enc.done + Room >= HEADER_LENGTH

HeaderOf(length, flags) ==
  SubSeq(FrameCells((CHOOSE i \in 1 .. 10 : Types[i] = enc.frame.type) - 1, flags,
                    enc.frame.id, Zeros(length)), 1, HEADER_LENGTH)

\* headers_header_status, with finish_current_frame and read_rest_payload.
headers_header_status(e) ==
  CASE e.index < Len(e.piece) -> [e EXCEPT !.state = "HeadersPayload"]
    [] e.index = Len(e.piece) /\ e.block = <<>> ->
         [e EXCEPT !.state = "Complete", !.frame = NoFrame, !.done = 0, !.index = 0,
                   !.piece = <<>>]
    [] OTHER -> [e EXCEPT !.state = "Continuation", !.index = 0,
                          !.piece = First(e.block, HPACK_BUFFER),
                          !.block = After(e.block, HPACK_BUFFER)]

\* write_payload into what room there is.
PieceFrom(room) == SubSeq(enc.piece, enc.index + 1, Least(Len(enc.piece), enc.index + room))

encode_headers_frame ==
  LET flags == IF enc.block = <<>> THEN enc.frame.flags ELSE Without(enc.frame.flags, END_HEADERS)
      header == HeaderPart(HeaderOf(Len(enc.piece), flags))
      piece == PieceFrom(Room - Len(header))
      e == [enc EXCEPT !.done = @ + Len(header) + Len(piece), !.index = @ + Len(piece)]
  IN  /\ In("HeadersFrame")
      /\ IF HeaderEnd THEN Turn(header \o piece, headers_header_status(e))
                      ELSE Turn(header, [enc EXCEPT !.done = @ + Len(header)])
      /\ UNCHANGED out

encode_headers_payload ==
  LET piece == PieceFrom(Room)
  IN  /\ In("HeadersPayload")
      /\ Turn(piece, headers_header_status([enc EXCEPT !.index = @ + Len(piece),
                                                      !.done = @ + Len(piece)]))
      /\ UNCHANGED out

\* A frame header is not divided: with less room nothing is written.
encode_continuation_frames ==
  LET piece == PieceFrom(Room - HEADER_LENGTH)
      flags == IF enc.block = <<>> THEN END_HEADERS ELSE 0
      header == SubSeq(FrameCells(9, flags, enc.frame.id, enc.piece), 1, HEADER_LENGTH)
  IN  /\ In("Continuation")
      /\ IF Room < HEADER_LENGTH THEN Turn(<<>>, enc)
         ELSE Turn(header \o piece,
                   headers_header_status([enc EXCEPT !.index = @ + Len(piece),
                                                     !.done = @ + Len(piece)]))
      /\ UNCHANGED out

encode_data_header ==
  LET flags == IF enc.left <= synced.max THEN enc.frame.flags
                                         ELSE Without(enc.frame.flags, END_STREAM)
      header == HeaderPart(HeaderOf(Least(enc.left, synced.max), flags))
  IN  /\ In("DataHeader")
      /\ Turn(header, IF HeaderEnd THEN [enc EXCEPT !.done = 0, !.state = "DataPayload"]
                                   ELSE [enc EXCEPT !.done = @ + Len(header)])
      /\ UNCHANGED out

\* encode_slice.  A second frame, for data longer than the largest frame,
\* starts again from the beginning of the data.
encode_data_payload ==
  LET n == Least(Least(synced.max - enc.offset, enc.left), Room)
      e == [enc EXCEPT !.offset = @ + n, !.left = @ - n]
  IN  /\ In("DataPayload")
      /\ Turn(SubSeq(enc.frame.val, enc.offset + 1, enc.offset + n),
              CASE e.left = 0 -> [e EXCEPT !.offset = 0, !.state = "Complete"]
                [] e.left > 0 /\ e.offset = synced.max ->
                     [e EXCEPT !.offset = 0, !.state = "DataHeader"]
                [] OTHER -> e)
      /\ UNCHANGED out

\* The header of a frame of another type, from where it stands; the payload
\* counts on from done.  Some write relative to the buffer instead of the
\* header: only a header written in one call is right, -1 is a cell that is not.
FrameHeader(type, done, wrong) ==
  LET header == HeaderPart(HeaderOf(Len(Payload(enc.frame)), enc.frame.flags))
  IN  /\ In("Header") /\ enc.frame.type = type
      /\ out' = [out EXCEPT !.cut = @ \/ wrong]
      /\ Turn(IF wrong THEN [i \in DOMAIN header |-> -1] ELSE header,
              IF HeaderEnd THEN [enc EXCEPT !.done = done, !.state = "Payload"]
                           ELSE [enc EXCEPT !.done = @ + Len(header)])

encode_goaway_frame == FrameHeader("GOAWAY", HEADER_LENGTH, FALSE)
encode_priority_frame == FrameHeader("PRIORITY", HEADER_LENGTH, FALSE)
encode_window_update_frame == FrameHeader("WINDOW_UPDATE", 0, FALSE)
encode_settings_frame == FrameHeader("SETTINGS", HEADER_LENGTH, enc.done > 0)
encode_rst_stream_frame == FrameHeader("RST_STREAM", HEADER_LENGTH, enc.done > 0)
encode_ping_frame == FrameHeader("PING", HEADER_LENGTH, enc.done > 0)

\* Its payload: from is what the header took off done.
FramePayload(type, end) ==
  LET p == Payload(enc.frame)
      from == Over(enc.done, HEADER_LENGTH)
      n == Least(Len(p) - from, Room)
  IN  /\ In("Payload") /\ enc.frame.type = type
      /\ Turn(SubSeq(p, from + 1, from + n),
              [enc EXCEPT !.done = @ + n, !.state = IF enc.done + n = end THEN "Complete" ELSE @])

ResumedPayload(type) ==
  FramePayload(type, HEADER_LENGTH + Len(Payload(enc.frame))) /\ UNCHANGED out
encode_goaway_payload == ResumedPayload("GOAWAY")
encode_priority_payload == ResumedPayload("PRIORITY")
encode_settings_payload == ResumedPayload("SETTINGS")
encode_rst_stream_payload == ResumedPayload("RST_STREAM")
encode_ping_payload == ResumedPayload("PING")

\* It starts to count at 0 after its header and yet takes the length of the
\* header off, so that it cannot resume.
encode_window_update_payload ==
  /\ FramePayload("WINDOW_UPDATE", Len(Payload(enc.frame)))
  /\ out' = [out EXCEPT !.cut = @ \/ Room < Len(Payload(enc.frame))]

-----------------------------------------------------------------------------
(* SendData in its state WriteFrame.                                         *)

\* The call of encode has returned with something in the buffer; the
\* connection takes any part of it.  Pending leaves the rest in WriteBuf.
Returned == ~buf.on \/ Room = 0

\* After the last part encode is called again, until it has nothing to add.
Write(n) ==
  /\ Returned /\ n \in 1 .. Len(buf.cells)
  /\ out' = [out EXCEPT !.cells = @ \o SubSeq(buf.cells, 1, n)]
  /\ buf' = [buf EXCEPT !.cells = After(@, n),
                        !.on = n = Len(buf.cells) /\ enc.state \notin {"Complete", "Idle"}]
  /\ UNCHANGED <<queue, asked, enc, synced>>

\* A call that wrote nothing: the frame counts as sent.
EncodedNothing ==
  /\ ~buf.on /\ buf.cells = <<>> /\ enc.state \notin {"Complete", "Idle"}
  /\ enc' = [enc EXCEPT !.state = "Idle"]
  /\ UNCHANGED <<queue, asked, buf, synced, out>>

Next ==
  \/ RecvFrame
  \/ encode_headers_frame \/ encode_headers_payload \/ encode_continuation_frames
  \/ encode_data_header \/ encode_data_payload
  \/ encode_goaway_frame \/ encode_priority_frame \/ encode_window_update_frame
  \/ encode_settings_frame \/ encode_rst_stream_frame \/ encode_ping_frame
  \/ encode_goaway_payload \/ encode_priority_payload \/ encode_window_update_payload
  \/ encode_settings_payload \/ encode_rst_stream_payload \/ encode_ping_payload
  \/ \E n \in 1 .. Len(buf.cells) : Write(n)
  \/ EncodedNothing

-----------------------------------------------------------------------------
(* The field block in pieces as long as the buffer of the HPACK encoder.     *)
Pieces(f) ==
  LET n == Len(f.val)
      count == IF n = 0 THEN 1 ELSE (n + HPACK_BUFFER - 1) \div HPACK_BUFFER
  IN  FlattenSeq([i \in 1 .. count |->
        FrameCells(IF i = 1 THEN 1 ELSE 9,
                   CASE count = 1 -> f.flags
                     [] i = 1 /\ count > 1 -> Without(f.flags, END_HEADERS)
                     [] i > 1 /\ i = count -> END_HEADERS
                     [] OTHER -> 0,
                   f.id, SubSeq(f.val, (i - 1) * HPACK_BUFFER + 1,
                                Least(n, i * HPACK_BUFFER)))])

Expected(fs) == FlattenSeq([i \in DOMAIN fs |->
  IF fs[i].type = "HEADERS" THEN Pieces(fs[i]) ELSE Wire(fs[i], 0, 0)])

\* What the encoder handles: buffers no smaller than a frame of fixed length,
\* as those of SendData, and DATA frames of at most MAX_FRAME_SIZE, as those of
\* the client.
Handled == ~out.cut /\ buf.size >= HEADER_LENGTH
           /\ \A i \in DOMAIN asked : asked[i].type = "DATA" => Len(asked[i].val) <= synced.max

\* The server receives the frames the manager sent, in order, complete, with
\* END_HEADERS on the last piece of a field block only, whatever the lengths of
\* the buffer and of the parts the connection accepts (FrameEncoder, SendData).
FramesWritten ==
  Handled => /\ IsPrefix(out.cells \o buf.cells, Expected(asked))
             /\ (enc.state \in {"Idle", "Complete"} /\ ~buf.on) =>
                  out.cells \o buf.cells = Expected(asked)
=============================================================================
