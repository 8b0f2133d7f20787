------------------------------ MODULE H3Reader ------------------------------
(* FrameDecoder (ylong_http/src/h3/decoder.rs): the bytes of each stream of a *)
(* server, read in pieces, into frames.  A byte is a cell <<kind, value>>; a  *)
(* variable-length integer is <<"int", n, 1>>, or <<"int", n, 2>> and the     *)
(* cell Rest.  Of QPACK a section has the number of insertions it needs and   *)
(* waits for them (QpackDecoder has the rest).                                *)
EXTENDS Integers, Sequences, SequencesExt, FiniteSets

CONSTANTS
  Traffic,         \* what servers send: a set of functions from stream ids to items
  Bidirectional,   \* the ids of request streams
  Pieces           \* lengths of what a read hands on, if it is not all there is

VARIABLES
  sent,            \* by stream, the items the server sends
  wire,            \* by stream, the cells that have not been read
  streams,         \* DecodedH3Stream, by stream
  section,         \* QpackDecoder: the section of a stream that has been begun
  inserts,         \* and how many entries have been inserted
  call,            \* the call of decode that is going on
  out,             \* by stream, the frames handed on; DATA in the pieces it came in
  reader           \* refused, and where frames stop being read in step

DATA == 0
HEADERS == 1
CANCEL_PUSH == 3
SETTINGS == 4
PUSH_PROMISE == 5
GOAWAY == 7
MAX_PUSH_ID == 13

NoCall == [none |-> TRUE]
NoSection == [none |-> TRUE]
Rest == <<"rest", 0, 0>>
Narrow(n) == << <<"int", n, 1>> >>
Wide(n) == << <<"int", n, 2>>, Rest>>

\* Of an item of a stream its cells: a stream type, instructions that insert, or
\* a frame [type, body] where the body is a sequence of cells.
Cells(item) ==
  CASE item.is = "type" -> Narrow(item.n)
    [] item.is = "insert" -> << <<"insert", 0, 0>> >>
    [] item.is = "frame" -> Narrow(item.type)
                            \o (IF item.wide THEN Wide(Len(item.body)) ELSE Narrow(Len(item.body)))
                            \o item.body
CellsOf(items) ==
  LET upto[i \in 0 .. Len(items)] == IF i = 0 THEN <<>> ELSE upto[i - 1] \o Cells(items[i])
  IN  upto[Len(items)]
FramesOf(items) == SelectSeq(items, LAMBDA x : x.is = "frame")

\* DecodedH3Stream::new.
NewStream(id) ==
  [ty |-> IF id \in Bidirectional THEN "request" ELSE "init",
   state |-> IF id \in Bidirectional THEN "FrameType" ELSE "StreamType",
   buffer |-> <<>>, type |-> -1, len |-> 0, set |-> FALSE, pushed |-> -1]

Init ==
  /\ sent \in Traffic
  /\ wire = [id \in DOMAIN sent |-> CellsOf(sent[id])]
  /\ streams = [id \in {} |-> NoCall]
  /\ section = [id \in DOMAIN sent |-> NoSection]
  /\ inserts = 0
  /\ call = NoCall
  /\ out = [id \in DOMAIN sent |-> <<>>]
  /\ reader = [failed |-> FALSE, strayed |-> FALSE, waiting |-> {}, freed |-> {}]

-----------------------------------------------------------------------------
(* decode: a turn of its loop per action.  The buffer is what is left of it   *)
(* from the offset on.                                                        *)

Decode(id, n) ==
  /\ call = NoCall /\ ~reader.failed /\ id \notin reader.waiting
  /\ n \in 1 .. Len(wire[id])
  /\ call' = [id |-> id,
              s |-> [(IF id \in DOMAIN streams THEN streams[id] ELSE NewStream(id)) EXCEPT
                       !.buffer = @ \o SubSeq(wire[id], 1, n)]]
  /\ wire' = [wire EXCEPT ![id] = SubSeq(@, n + 1, Len(@))]
  /\ UNCHANGED <<sent, streams, section, inserts, out, reader>>

\* A stream that is not blocked any more is decoded again without new bytes.
DecodeUnblocked(id) ==
  /\ call = NoCall /\ ~reader.failed /\ id \in reader.freed
  /\ call' = [id |-> id, s |-> streams[id]]
  /\ reader' = [reader EXCEPT !.freed = @ \ {id}, !.waiting = @ \ {id}]
  /\ UNCHANGED <<sent, wire, streams, section, inserts, out>>

In(state) == call # NoCall /\ call.s.state = state
Buf == call.s.buffer
HasInt(buf) == buf # <<>> /\ Len(buf) >= Head(buf)[3]
IntOf(buf) == Head(buf)[2]
AfterInt(buf) == SubSeq(buf, Head(buf)[3] + 1, Len(buf))
From(buf, n) == SubSeq(buf, n + 1, Len(buf))

\* The loop goes on with this stream, or decode returns and keeps it.
Goes(s) == call' = [call EXCEPT !.s = s] /\ UNCHANGED streams
Returns(s) ==
  /\ call' = NoCall
  /\ streams' = [id \in DOMAIN streams \cup {call.id} |-> IF id = call.id THEN s ELSE streams[id]]
\* The frame is complete: at the end of the buffer decode returns.
FrameDone(rest) ==
  LET s == [call.s EXCEPT !.state = "FrameType", !.type = -1, !.len = 0, !.buffer = rest]
  IN  IF rest = <<>> THEN Returns(s) ELSE Goes(s)
Refuse ==
  /\ call' = NoCall
  /\ streams' = [id \in DOMAIN streams \ {call.id} |-> streams[id]]
  /\ reader' = [reader EXCEPT !.failed = TRUE]
  /\ UNCHANGED <<sent, wire, section, inserts, out>>
Frame(f) == out' = [out EXCEPT ![call.id] = Append(@, f)]
Others == UNCHANGED <<sent, wire, section, inserts, reader>>

decode_stream_type ==
  /\ In("StreamType")
  /\ IF HasInt(Buf)
     THEN LET ty == CASE IntOf(Buf) = 0 -> "control" [] IntOf(Buf) = 1 -> "push"
                      [] IntOf(Buf) = 2 -> "qpackencoder" [] IntOf(Buf) = 3 -> "qpackdecoder"
                      [] OTHER -> "unknown"
          IN  Goes([call.s EXCEPT !.ty = ty, !.buffer = AfterInt(Buf),
                     !.state = CASE ty = "control" -> "FrameType" [] ty = "push" -> "PushId"
                                 [] ty = "qpackencoder" -> "QpackEncoderInst"
                                 [] ty = "qpackdecoder" -> "QpackDecoderInst" [] OTHER -> "DropUnknown"])
     ELSE Returns(call.s)
  /\ UNCHANGED out /\ Others

decode_push_id ==
  /\ In("PushId")
  /\ IF HasInt(Buf) THEN Goes([call.s EXCEPT !.buffer = AfterInt(Buf), !.state = "FrameType"])
     ELSE Returns(call.s)
  /\ UNCHANGED out /\ Others

\* What may not come on this stream, or not again.
UnexpectedFrame(type) ==
  \/ type \in {DATA, HEADERS} /\ call.s.ty \notin {"request", "push"}
  \/ type = PUSH_PROMISE /\ call.s.ty # "request"
  \/ type = SETTINGS /\ (call.s.ty # "control" \/ call.s.set)
  \/ type = CANCEL_PUSH /\ call.s.ty # "control"
  \/ type = MAX_PUSH_ID

decode_frame_type ==
  /\ In("FrameType")
  /\ IF ~HasInt(Buf) THEN Returns(call.s) /\ UNCHANGED out /\ Others
     ELSE IF UnexpectedFrame(IntOf(Buf)) THEN Refuse
     ELSE /\ Goes([call.s EXCEPT !.type = IntOf(Buf), !.buffer = AfterInt(Buf), !.state = "PayloadLen",
                                 !.set = @ \/ IntOf(Buf) = SETTINGS])
          /\ UNCHANGED out /\ Others

PayloadState(type) ==
  CASE type = DATA -> "DataPayload"
    [] type = HEADERS -> "HeadersPayload"
    [] type = SETTINGS -> "SettingsPayload"
    [] type = PUSH_PROMISE -> "PushPromisePayload"
    [] type \in {GOAWAY, MAX_PUSH_ID, CANCEL_PUSH} -> "VariablePayload"
    [] OTHER -> "UnknownPayload"

decode_payload_len ==
  /\ In("PayloadLen")
  /\ IF HasInt(Buf)
     THEN Goes([call.s EXCEPT !.len = IntOf(Buf), !.buffer = AfterInt(Buf), !.state = PayloadState(call.s.type)])
     ELSE Returns(call.s)
  /\ UNCHANGED out /\ Others

\* A part of the payload is handed on at once.
decode_data_payload ==
  /\ In("DataPayload")
  /\ IF Len(Buf) < call.s.len
     THEN /\ Frame([type |-> DATA, body |-> Buf])
          /\ Returns([call.s EXCEPT !.len = @ - Len(Buf), !.buffer = <<>>])
     ELSE /\ Frame([type |-> DATA, body |-> SubSeq(Buf, 1, call.s.len)])
          /\ FrameDone(From(Buf, call.s.len))
  /\ Others

\* decode_repr of QPACK: a section needs the insertions its first cell asks for.
Sectioned(piece) == IF section[call.id] = NoSection THEN piece ELSE section[call.id].cells \o piece
Blocks(piece) == section[call.id] = NoSection /\ piece # <<>> /\ Head(piece)[2] > inserts

decode_headers_payload ==
  LET n == IF Len(Buf) < call.s.len THEN Len(Buf) ELSE call.s.len
      piece == SubSeq(Buf, 1, n)
      whole == n = call.s.len
      s == [call.s EXCEPT !.len = @ - n, !.buffer = From(Buf, n)]
  IN  /\ In("HeadersPayload")
      /\ IF Blocks(piece)
         THEN /\ Returns(s)
              /\ section' = [section EXCEPT ![call.id] = [cells |-> Sectioned(piece)]]
              /\ reader' = [reader EXCEPT !.waiting = @ \cup {call.id}]
              /\ UNCHANGED <<sent, wire, inserts, out>>
         ELSE IF whole
         THEN \* get_qpack_decoded_header
              /\ Frame([type |-> call.s.type, body |-> Sectioned(piece)])
              /\ section' = [section EXCEPT ![call.id] = NoSection]
              /\ FrameDone(From(Buf, n))
              /\ UNCHANGED <<sent, wire, inserts, reader>>
         ELSE /\ Returns(s)
              /\ section' = [section EXCEPT ![call.id] = [cells |-> Sectioned(piece)]]
              /\ UNCHANGED <<sent, wire, inserts, out, reader>>

\* GOAWAY and CANCEL_PUSH: one integer, whatever the length says.
decode_variable_payload ==
  /\ In("VariablePayload")
  /\ IF HasInt(Buf)
     THEN /\ Frame([type |-> call.s.type, body |-> SubSeq(Buf, 1, Head(Buf)[3])])
          /\ FrameDone(AfterInt(Buf))
     ELSE Returns(call.s) /\ UNCHANGED out
  /\ Others

\* The offset stays in front of the payload: what follows it in this buffer is
\* read from the payload on.
decode_settings_payload ==
  /\ In("SettingsPayload")
  /\ IF Len(Buf) < call.s.len
     THEN Returns(call.s) /\ UNCHANGED out /\ Others
     ELSE IF \E i \in 1 .. call.s.len : i % 2 = 1 /\ Buf[i][2] \in {0, 2, 3, 4, 5} THEN Refuse
     ELSE /\ Frame([type |-> SETTINGS, body |-> SubSeq(Buf, 1, call.s.len)])
          /\ FrameDone(IF Len(Buf) = call.s.len THEN <<>> ELSE Buf)
          /\ reader' = [reader EXCEPT !.strayed = @ \/ Len(Buf) > call.s.len]
          /\ UNCHANGED <<sent, wire, section, inserts>>

\* Nor does it move over the id of a push: it is read again as the section's.
decode_push_payload ==
  /\ In("PushPromisePayload")
  /\ IF HasInt(Buf)
     THEN /\ Goes([call.s EXCEPT !.pushed = IntOf(Buf), !.len = @ - Head(Buf)[3], !.state = "HeadersPayload"])
          /\ reader' = [reader EXCEPT !.strayed = TRUE]
          /\ UNCHANGED <<sent, wire, section, inserts>>
     ELSE Returns(call.s) /\ Others
  /\ UNCHANGED out

decode_unknown_payload ==
  /\ In("UnknownPayload")
  /\ IF Len(Buf) < call.s.len
     THEN Returns([call.s EXCEPT !.len = @ - Len(Buf), !.buffer = <<>>])
     ELSE FrameDone(From(Buf, call.s.len))
  /\ UNCHANGED out /\ Others

QpackDecoderInst ==
  /\ In("QpackDecoderInst")
  /\ Returns([call.s EXCEPT !.buffer = <<>>])
  /\ UNCHANGED out /\ Others

\* The streams that wait for no more are reported.
Needs(id) == Head(section[id].cells)[2]
QpackEncoderInst ==
  LET now == inserts + Len(Buf)
  IN  /\ In("QpackEncoderInst")
      /\ inserts' = now
      /\ reader' = [reader EXCEPT !.freed = @ \cup {id \in reader.waiting : Needs(id) <= now}]
      /\ Returns([call.s EXCEPT !.buffer = <<>>])
      /\ UNCHANGED <<sent, wire, section, out>>

\* The stream is forgotten: what comes next is taken for a new stream.
DropUnknown ==
  /\ In("DropUnknown")
  /\ call' = NoCall
  /\ streams' = [id \in DOMAIN streams \ {call.id} |-> streams[id]]
  /\ reader' = [reader EXCEPT !.strayed = @ \/ wire[call.id] # <<>>]
  /\ UNCHANGED <<sent, wire, section, inserts, out>>

Next ==
  \/ \E id \in DOMAIN sent : \E n \in Pieces \cup {Len(wire[id])} : Decode(id, n)
  \/ \E id \in DOMAIN sent : DecodeUnblocked(id)
  \/ decode_stream_type \/ decode_push_id \/ decode_frame_type \/ decode_payload_len
  \/ decode_data_payload \/ decode_headers_payload \/ decode_variable_payload
  \/ decode_settings_payload \/ decode_push_payload \/ decode_unknown_payload
  \/ QpackDecoderInst \/ QpackEncoderInst \/ DropUnknown

-----------------------------------------------------------------------------
\* Frames with the DATA of neighbouring pieces put together.
Known == {DATA, HEADERS, CANCEL_PUSH, SETTINGS, PUSH_PROMISE, GOAWAY, MAX_PUSH_ID}
Body(frames, type) ==
  LET upto[i \in 0 .. Len(frames)] ==
        IF i = 0 THEN <<>>
        ELSE IF frames[i].type = type THEN upto[i - 1] \o frames[i].body ELSE upto[i - 1]
  IN  upto[Len(frames)]
Types(frames) ==
  LET ts == [i \in DOMAIN frames |-> frames[i].type]
      keep == {i \in DOMAIN ts : ~(ts[i] = DATA /\ i > 1 /\ ts[i - 1] = DATA)}
  IN  {<<ts[i], Cardinality({j \in keep : j < i})>> : i \in keep}
Sent(id) == SelectSeq(FramesOf(sent[id]), LAMBDA f : f.type \in Known)

\* Once a stream has been read to its end the frames that were handed on are the
\* frames the server sent, in order and complete, however the stream was cut and
\* however long a section had to wait.  Not said after SETTINGS with more behind
\* it, a PUSH_PROMISE, or an unknown stream (strayed).
FramesInOrder ==
  call = NoCall /\ ~reader.failed /\ ~reader.strayed =>
    \A id \in DOMAIN sent :
      wire[id] = <<>> /\ id \notin reader.waiting =>
        /\ Types(out[id]) = Types(Sent(id))
        /\ \A type \in Known : Body(out[id], type) = Body(Sent(id), type)

\* The decoder refuses no stream of a server that keeps to the rules.
Legal(id) ==
  LET types == {FramesOf(sent[id])[i].type : i \in DOMAIN FramesOf(sent[id])}
      again == Cardinality({i \in DOMAIN sent[id] : sent[id][i].is = "frame" /\ sent[id][i].type = SETTINGS}) > 1
  IN  IF id \in Bidirectional THEN types \cap {SETTINGS, CANCEL_PUSH, MAX_PUSH_ID} = {}
      ELSE sent[id][1].n = 0 => ~again /\ types \cap {DATA, HEADERS, PUSH_PROMISE, MAX_PUSH_ID} = {}
NoFalseRefusal == reader.failed /\ ~reader.strayed => \E id \in DOMAIN sent : ~Legal(id)

\* And it takes no second SETTINGS, and nothing but a server's frames on the
\* control stream: a stream that breaks the rules is not read to its end.
RulesKept ==
  call = NoCall /\ ~reader.failed /\ ~reader.strayed =>
    \A id \in DOMAIN sent : wire[id] = <<>> /\ ~Legal(id) => id \in reader.waiting
=============================================================================
