------------------------------ MODULE H2Reader ------------------------------
(* The reading half of an HTTP/2 connection: FrameDecoder of                 *)
(* ylong_http/src/h2/decoder.rs and the task RecvData of the client          *)
(* (util/h2/output.rs), which reads pieces of any length, has them decoded   *)
(* and passes the frames to the connection manager through a bounded         *)
(* channel.  One step is one turn of the loops of decode, of                 *)
(* poll_iterator_frames or of poll_read_frame.  The header blocks are passed *)
(* to an HPACK decoder that knows fields of two cells; Hpack models it.      *)
EXTENDS H2Frames

CONSTANTS
  DEFAULT_MAX_FRAME_SIZE, MAX_ALLOWED_MAX_FRAME_SIZE, MAX_INITIAL_WINDOW_SIZE,
  Scripts,        \* what the server sends: [cells, frames, legal, split, acks]
  Configured,     \* MAX_FRAME_SIZE in the SETTINGS of the client
  Capacity        \* of the channel to the manager

VARIABLES
  script,         \* what the server sends
  wire,           \* the part that has not been read
  settings,       \* SettingsSync: "Synced" or "Acknowledging"
  dec,            \* FrameDecoder
  call,           \* the call of decode: the rest of the read, the frames
  reader          \* RecvData, and what the manager was sent

NoHeader == [id |-> 0, flags |-> 0, type |-> 0, len |-> 0]
NoContinuations == [open |-> FALSE, flags |-> 0, id |-> 0, promised |-> 0]
Idle == [on |-> FALSE, buf |-> <<>>, frames |-> <<>>]

Init ==
  /\ script \in Scripts
  /\ wire = script.cells
  /\ settings \in {"Synced", "Acknowledging"}
  /\ script.legal /\ script.acks => settings = "Acknowledging"
  /\ dec = [stage |-> "Header", buffer |-> <<>>, header |-> NoHeader, hpack |-> <<>>,
            continuations |-> NoContinuations, max |-> DEFAULT_MAX_FRAME_SIZE]
  /\ call = Idle
  /\ reader = [state |-> "Read", next |-> "Read", curr |-> <<>>, iter |-> <<>>,
               sent |-> <<>>, queued |-> 0, closed |-> FALSE, lost |-> FALSE, excuse |-> FALSE]

-----------------------------------------------------------------------------
(* Messages to the manager.  transmit_message waits in the state Send when   *)
(* the channel is full, and ends the task when the manager is gone.          *)

Exit(kind, id) == Frame(kind, 0, id, <<>>)
Errors == {"connection error", "stream error", "disconnect"}

transmit_message(r, message) ==
  CASE r.closed -> [r EXCEPT !.state = "Exit"]
    [] ~r.closed /\ r.queued < Capacity ->
         [r EXCEPT !.sent = Append(@, message), !.queued = @ + 1]
    [] OTHER -> [r EXCEPT !.curr = <<message>>, !.state = "Send"]

\* The manager takes a message, and leaves after one that ends the connection.
Taken == SubSeq(reader.sent, 1, Len(reader.sent) - reader.queued)
Ended == \E i \in DOMAIN Taken : Taken[i].type \in Errors \ {"stream error"}

Take ==
  /\ reader.queued > 0 /\ ~Ended
  /\ reader' = [reader EXCEPT !.queued = @ - 1]
  /\ UNCHANGED <<script, wire, settings, dec, call>>

ManagerLeaves ==
  /\ Ended /\ ~reader.closed
  /\ reader' = [reader EXCEPT !.closed = TRUE, !.queued = 0]
  /\ UNCHANGED <<script, wire, settings, dec, call>>

-----------------------------------------------------------------------------
(* FrameDecoder::decode.                                                     *)

\* decode fails: the frames of this call and the rest of the read are lost,
\* the decoder stays as it is, and the manager is told.  "excused" marks the
\* two refusals of legal frames described at NoFalseRefusal.
RefusedBut(excused, kind) ==
  /\ call' = Idle
  /\ reader' = transmit_message([reader EXCEPT !.lost = TRUE, !.excuse = @ \/ excused],
                                Exit(kind, dec.header.id))
  /\ UNCHANGED dec
Refused(kind) == RefusedBut(FALSE, kind)

\* The task panics; the manager finds its channel closed.
Panics ==
  /\ call' = Idle
  /\ reader' = [reader EXCEPT !.state = "Panicked"]
  /\ UNCHANGED dec

\* The acknowledgement of the client's own SETTINGS.
Acks(f) == f.type = "SETTINGS" /\ Has(f.flags, ACK)

\* The read ends before the header or the payload does.
Wanted == IF dec.stage = "Header" THEN HEADER_LENGTH - Len(dec.buffer)
                                  ELSE dec.header.len - Len(dec.buffer)
ReadEnds ==
  /\ dec' = [dec EXCEPT !.buffer = @ \o call.buf]
  /\ call' = Idle
  /\ reader' = [reader EXCEPT !.iter = call.frames, !.state = "Iterate"]

\* Bug: the part that was read before is not used.
decode_frame_headerForgets ==
  LET h == SubSeq(call.buf, 1, HEADER_LENGTH)
  IN  /\ call.on /\ dec.stage = "Header"
      /\ IF Len(call.buf) < HEADER_LENGTH THEN ReadEnds
         ELSE /\ dec' = [dec EXCEPT !.stage = "Payload", !.buffer = <<>>,
                           !.header = [len |-> h[1], type |-> h[2], flags |-> h[3],
                                       id |-> get_stream_id(SubSeq(h, 4, 5))]]
              /\ call' = [call EXCEPT !.buf = After(@, HEADER_LENGTH)]
              /\ UNCHANGED reader
      /\ UNCHANGED <<script, wire, settings>>

decode_frame_header ==
  LET h == dec.buffer \o SubSeq(call.buf, 1, Wanted)
  IN  /\ call.on /\ dec.stage = "Header"
      /\ \/ Len(call.buf) < Wanted /\ ReadEnds
         \/ Len(call.buf) >= Wanted /\ h[1] > dec.max
              /\ RefusedBut(\E i \in DOMAIN call.frames : Acks(call.frames[i]), "connection error")
         \/ /\ Len(call.buf) >= Wanted /\ h[1] <= dec.max
            /\ dec' = [dec EXCEPT !.stage = "Payload", !.buffer = <<>>,
                         !.header = [len |-> h[1], type |-> h[2], flags |-> h[3],
                                     id |-> get_stream_id(SubSeq(h, 4, 5))]]
            /\ call' = [call EXCEPT !.buf = After(@, Wanted)]
            /\ UNCHANGED reader
      /\ UNCHANGED <<script, wire, settings>>

\* Only a CONTINUATION of the same stream may follow an open field block.
Interrupts == /\ dec.continuations.open
              /\ \/ dec.header.id # dec.continuations.id
                 \/ dec.header.type # 9

decode_frame_payload ==
  /\ call.on /\ dec.stage = "Payload"
  /\ \/ Interrupts /\ Refused("connection error")
     \/ ~Interrupts /\ Len(call.buf) < Wanted /\ ReadEnds
     \/ ~Interrupts /\ Len(call.buf) >= Wanted /\ dec.header.type > 9
          /\ Refused("connection error")
  /\ UNCHANGED <<script, wire, settings>>

-----------------------------------------------------------------------------
(* The payload of each type of frame.  "rest" is what this read has of it.   *)

rest == SubSeq(call.buf, 1, Wanted)
payload == dec.buffer \o rest
flags == dec.header.flags
OnConnection == dec.header.id = 0

At(type) == /\ call.on /\ dec.stage = "Payload" /\ ~Interrupts
            /\ Len(call.buf) >= Wanted /\ dec.header.type = type

\* The payload is done with; frames is empty for FrameKind::Partial, which the
\* reader skips.
Decoded(frames, hpack, continuations) ==
  /\ dec' = [dec EXCEPT !.stage = "Header", !.buffer = <<>>, !.header = NoHeader,
                        !.hpack = hpack, !.continuations = continuations]
  /\ call' = [call EXCEPT !.buf = After(@, Wanted), !.frames = @ \o frames]
  /\ UNCHANGED reader

\* A frame other than HEADERS, PUSH_PROMISE and CONTINUATION.
Plain(val) ==
  Decoded(<<Frame(Types[dec.header.type + 1], flags, dec.header.id, val)>>,
          dec.hpack, dec.continuations)

Rest == UNCHANGED <<script, wire, settings>>

decode_ping_payload ==
  /\ At(6)
  /\ IF OnConnection /\ dec.header.len = 2 * WORD
     THEN Plain(payload) ELSE Refused("connection error")
  /\ Rest

\* The length that is compared is that of the last read, not of the payload.
decode_priority_payload ==
  /\ At(2)
  /\ CASE OnConnection -> Refused("connection error")
       [] ~OnConnection /\ Len(rest) # WORD + 1 ->
            RefusedBut(Len(payload) = WORD + 1, "stream error")
       [] OTHER -> LET word == get_code_value(payload)
                   IN  Plain(<<word \div Top, word % Top, payload[WORD + 1]>>)
  /\ Rest

decode_goaway_payload ==
  /\ At(7)
  /\ IF OnConnection /\ dec.header.len >= 2 * WORD
     THEN Plain(<<get_stream_id(payload), get_code_value(After(payload, WORD))>>
                  \o After(payload, 2 * WORD))
     ELSE Refused("connection error")
  /\ Rest

decode_window_update_payload ==
  /\ At(8)
  /\ CASE dec.header.len # WORD -> Refused("connection error")
       [] dec.header.len = WORD /\ get_stream_id(payload) = 0 -> Refused("stream error")
       [] OTHER -> Plain(<<get_stream_id(payload)>>)
  /\ Rest

decode_reset_payload ==
  /\ At(3)
  /\ IF ~OnConnection /\ dec.header.len = WORD
     THEN Plain(<<get_code_value(payload)>>) ELSE Refused("connection error")
  /\ Rest

\* get_setting: unknown settings are skipped, values out of range refused.
Setting(i) == SubSeq(payload, (WORD + 1) * (i - 1) + 1, (WORD + 1) * i)
SettingOk(id, value) ==
  /\ id = 2 => value \in {0, 1}
  /\ id = 4 => value <= MAX_INITIAL_WINDOW_SIZE
  /\ id = 5 => value \in DEFAULT_MAX_FRAME_SIZE .. MAX_ALLOWED_MAX_FRAME_SIZE
SettingValue(i) == get_code_value(After(Setting(i), 1))
Settings == [i \in 1 .. Len(payload) \div (WORD + 1) |-> <<Setting(i)[1], SettingValue(i)>>]
Known == SelectSeq(Settings, LAMBDA s : s[1] \in 1 .. 6)

decode_settings_payload ==
  /\ At(4)
  /\ CASE ~OnConnection \/ dec.header.len % (WORD + 1) # 0 -> Refused("connection error")
       [] Has(flags, ACK) /\ dec.header.len # 0 -> Refused("connection error")
       [] \E i \in DOMAIN Settings : ~SettingOk(Settings[i][1], Settings[i][2]) ->
            Refused("connection error")
       [] OTHER -> Plain([i \in 1 .. 2 * Len(Known) |-> Known[(i + 1) \div 2][2 - (i % 2)]])
  /\ Rest

PadLength == IF Has(flags, PADDED) /\ payload # <<>> THEN payload[1] ELSE 0
Start == IF Has(flags, PADDED) THEN 1 ELSE 0
BadPadding == Has(flags, PADDED) /\ PadLength >= dec.header.len

decode_data_payload ==
  /\ At(0)
  /\ IF OnConnection \/ (dec.header.len > 0 /\ BadPadding)
     THEN Refused("connection error")
     ELSE Plain(SubSeq(payload, Start + 1, dec.header.len - PadLength))
  /\ Rest

\* The pad length of an empty payload is read all the same, but for DATA.
NoPadLength == ~OnConnection /\ Has(flags, PADDED) /\ payload = <<>>

\* The HPACK decoder refuses a block that ends inside a field.
Fields(block) == Len(block) % 2 = 0

decode_headers_payload ==
  LET start == Start + IF Has(flags, PRIORITY) THEN WORD + 1 ELSE 0
      block == dec.hpack \o SubSeq(payload, start + 1, dec.header.len - PadLength)
  IN  /\ At(1)
      /\ CASE NoPadLength -> Panics
           [] ~NoPadLength /\ (OnConnection \/ BadPadding \/ start > dec.header.len - PadLength
                                 \/ (Has(flags, END_HEADERS) /\ ~Fields(block))) ->
                Refused("connection error")
           [] OTHER ->
                IF Has(flags, END_HEADERS)
                THEN Decoded(<<Frame("HEADERS", flags, dec.header.id, block)>>, <<>>,
                             dec.continuations)
                ELSE Decoded(<<>>, block,
                             [open |-> TRUE, flags |-> flags, id |-> dec.header.id,
                              promised |-> dec.continuations.promised])
      /\ Rest

\* push_promise_framing.  The whole payload, the promised stream and the
\* padding included, is taken for the field block.
decode_push_promise_payload ==
  LET block == dec.hpack \o payload
      promised == get_stream_id(After(payload, Start))
  IN  /\ At(5)
      /\ CASE NoPadLength -> Panics
           [] ~NoPadLength /\ (OnConnection \/ BadPadding \/ Start + WORD > dec.header.len - PadLength
                                 \/ promised = 0 \/ (Has(flags, END_HEADERS) /\ ~Fields(block))) ->
                Refused("connection error")
           [] OTHER ->
                IF Has(flags, END_HEADERS)
                THEN Decoded(<<Frame("PUSH_PROMISE", flags, dec.header.id,
                                     <<promised>> \o block)>>, <<>>, dec.continuations)
                ELSE Decoded(<<>>, block, [open |-> TRUE, flags |-> flags,
                                           id |-> dec.header.id, promised |-> promised])
      /\ Rest

decode_continuation_payload ==
  LET block == dec.hpack \o payload
      c == dec.continuations
  IN  /\ At(9)
      /\ IF OnConnection \/ (Has(flags, END_HEADERS) /\ ~Fields(block))
         THEN Refused("connection error")
         ELSE IF Has(flags, END_HEADERS)
              THEN Decoded(<<IF c.promised # 0
                             THEN Frame("PUSH_PROMISE", c.flags, c.id, <<c.promised>> \o block)
                             ELSE Frame("HEADERS", c.flags, c.id, block)>>,
                           <<>>, NoContinuations)
              ELSE Decoded(<<>>, block, c)
      /\ Rest

-----------------------------------------------------------------------------
(* RecvData.                                                                 *)

\* poll_read returns the next n cells of what the server sent.
Read(n) ==
  /\ reader.state = "Read" /\ ~call.on
  /\ n <= Len(wire)
  /\ call' = [on |-> TRUE, buf |-> SubSeq(wire, 1, n), frames |-> <<>>]
  /\ wire' = After(wire, n)
  /\ UNCHANGED <<script, settings, dec, reader>>

\* The end of the connection: a task that could pass the message on is not
\* woken again.
ReadEof ==
  /\ reader.state = "Read" /\ ~call.on /\ wire = <<>>
  /\ reader' = [transmit_message(reader, Exit("disconnect", 0))
                  EXCEPT !.state = "Send", !.next = "Read"]
  /\ UNCHANGED <<script, wire, settings, dec, call>>

\* transmit_error: the task ends when the message is sent.
ReadError ==
  /\ reader.state = "Read" /\ ~call.on
  /\ reader' = LET r == transmit_message(reader, Exit("disconnect", 0))
               IN  IF r.state = "Send" THEN [r EXCEPT !.next = "Exit"]
                                       ELSE [r EXCEPT !.state = "Exit"]
  /\ UNCHANGED <<script, wire, settings, dec, call>>

\* poll_iterator_frames with update_settings: the acknowledgement of the
\* client's own SETTINGS lets the decoder take larger frames from now on.
IterateFrame ==
  LET f == Head(reader.iter)
      r == [reader EXCEPT !.iter = Tail(@)]
  IN  /\ reader.state = "Iterate" /\ reader.iter # <<>>
      /\ reader' = transmit_message(r, IF Acks(f) /\ settings = "Synced"
                                       THEN Exit("connection error", 0) ELSE f)
      /\ dec' = IF Acks(f) /\ settings = "Acknowledging"
                THEN [dec EXCEPT !.max = Configured] ELSE dec
      /\ UNCHANGED <<script, wire, settings, call>>

IterateEnd ==
  /\ reader.state = "Iterate" /\ reader.iter = <<>>
  /\ reader' = [reader EXCEPT !.state = reader.next, !.next = "Read"]
  /\ UNCHANGED <<script, wire, settings, dec, call>>

\* poll_blocked_task: the message that waited goes out, then the frames.
Unblocked ==
  /\ reader.state = "Send" /\ reader.curr # <<>>
  /\ reader.closed \/ reader.queued < Capacity
  /\ reader' = IF reader.closed THEN [reader EXCEPT !.state = "Exit"]
               ELSE [reader EXCEPT !.sent = @ \o reader.curr, !.queued = @ + 1,
                                   !.curr = <<>>, !.state = "Iterate"]
  /\ UNCHANGED <<script, wire, settings, dec, call>>

Next ==
  \/ Take \/ ManagerLeaves
  \/ \E n \in 1 .. Len(wire) : Read(n)
  \/ ReadEof \/ ReadError
  \/ decode_frame_header \/ decode_frame_payload
  \/ decode_ping_payload \/ decode_priority_payload \/ decode_goaway_payload
  \/ decode_window_update_payload \/ decode_reset_payload \/ decode_settings_payload
  \/ decode_data_payload \/ decode_headers_payload \/ decode_push_promise_payload
  \/ decode_continuation_payload
  \/ IterateFrame \/ IterateEnd \/ Unblocked

-----------------------------------------------------------------------------
Passed == SelectSeq(reader.sent \o reader.curr, LAMBDA f : f.type \notin Errors)
            \o reader.iter \o call.frames
Told(kinds) == \E i \in DOMAIN reader.sent : reader.sent[i].type \in kinds

\* The field block of a PUSH_PROMISE is not the one that was sent
\* (decode_push_promise_payload), so only its other parts are compared.
Compared(fs) == [i \in DOMAIN fs |->
  IF fs[i].type = "PUSH_PROMISE" THEN [fs[i] EXCEPT !.val = <<@[1]>>] ELSE fs[i]]

\* Until a frame is refused, the manager is passed the frames the server sent,
\* in order, each with the value it was sent with, however the reads divide
\* them and however often the channel is full; and all of those that were read.
FramesInOrder ==
  (script.legal /\ ~reader.lost /\ reader.state # "Exit") =>
    IF wire = <<>> /\ ~call.on THEN Compared(Passed) = Compared(script.frames)
    ELSE \E n \in 0 .. Len(script.frames) :
           Compared(Passed) = Compared(SubSeq(script.frames, 1, n))

\* A legal frame is not refused, except for two: a PRIORITY frame whose payload
\* comes in two reads (decode_priority_payload), and a frame larger than
\* DEFAULT_MAX_FRAME_SIZE that comes in the read of the acknowledgement that
\* allows it, since update_settings runs only after decode.
NoFalseRefusal ==
  (script.legal /\ ~reader.excuse) => ~Told({"connection error", "stream error"})

\* A sequence of frames that the protocol forbids does not pass unnoticed: the
\* manager is told while the task goes on reading, or the task is gone - a HEADERS
\* or PUSH_PROMISE frame that is padded and empty makes it panic.
IllegalRefused ==
  (~script.legal /\ wire = <<>> /\ ~call.on /\ reader.iter = <<>>
     /\ reader.state \in {"Read", "Iterate"})
  => Told({"connection error", "stream error"})
=============================================================================
