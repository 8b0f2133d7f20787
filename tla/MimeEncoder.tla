----------------------------- MODULE MimeEncoder -----------------------------
(***************************************************************************)
(* MimeMultiEncoder: a multipart message is flattened into a queue of      *)
(* stages, which `data` (synchronous) and `poll_data` (asynchronous) copy  *)
(* into buffers of whatever size the caller brings.  A part that does not  *)
(* fit is put back at the front of the queue and resumed by the next call. *)
(* One action is one turn of the copying loop.                             *)
(***************************************************************************)
EXTENDS MimeText

CONSTANTS
    Multis,     \* the messages to encode
    BufSizes,   \* the sizes of buffer a caller may bring
    MaxPends    \* how often an asynchronous body may be not ready

VARIABLES
    multi,      \* the message being encoded
    mode,       \* "sync" (data) or "async" (poll_data)
    enc,        \* MimeMultiEncoder: stages, src, src_idx
    call,       \* the running call: open, its buffer and the room left
    out,        \* every byte handed to the caller
    pends       \* how often poll_data returned Pending

vars == <<multi, mode, enc, call, out, pends>>

EncodeHeadersNew(h) == [stage |-> "Start", left |-> h, value |-> <<>>, src |-> <<>>, idx |-> 0]

\* MimePartEncoder::from_part; a body held in memory that is empty is no body.
from_part(p) ==
    [stage |-> "Start", he |-> EncodeHeadersNew(p.h), src |-> <<>>, idx |-> 0,
     some |-> ~(p.from = "owned" /\ p.b = <<>>), body |-> p.b, from |-> p.from]

Stage(k) == [k |-> k, bytes |-> <<>>, he |-> EncodeHeadersNew(<<>>), part |-> <<>>]
BoundaryStage(b) == [Stage("Boundary") EXCEPT !.bytes = b]

push_first_boundary(b) == <<Stage("Dash"), BoundaryStage(b), Stage("Crlf")>>
push_middle_boundary(b) == <<Stage("Crlf")>> \o push_first_boundary(b)
push_end_boundary(b) ==
    <<Stage("Crlf"), Stage("Dash"), BoundaryStage(b), Stage("Dash"), Stage("Crlf")>>

RECURSIVE push_list_to_stages(_, _)
RECURSIVE push_multi_as_part(_)

push_list_to_stages(b, list) ==
    LET Element(x) == IF x.k = "multi" THEN push_multi_as_part(x)
                      ELSE <<[Stage("MimePart") EXCEPT !.part = from_part(x)]>>
        n == Len(list)
        pushed[i \in 0 .. n] ==
            IF i = 0 THEN push_first_boundary(b)
            ELSE pushed[i - 1] \o Element(list[i])
                 \o (IF i = n THEN push_end_boundary(b) ELSE push_middle_boundary(b))
    IN  IF n = 0 THEN push_first_boundary(b) \o push_end_boundary(b) ELSE pushed[n]

push_multi_as_part(m) ==
    <<[Stage("Headers") EXCEPT !.he = EncodeHeadersNew(m.h)], Stage("Crlf")>>
        \o push_list_to_stages(m.boundary, m.list)

from_multi(m) == [stages |-> push_list_to_stages(m.boundary, m.list), src |-> <<>>, idx |-> 0]

----------------------------------------------------------------------------
\* One copy: the bytes that fit, the new index, and whether the source is done.
data_copy(src, idx, room) ==
    LET left == Len(src) - idx
        num  == IF room < left THEN room ELSE left
    IN  [bytes |-> SubSeq(src, idx + 1, idx + num), idx |-> idx + num, complete |-> room >= left]

HeadersCheckNext(h) ==
    CASE h.stage = "Start" /\ h.left # <<>> ->
           [h EXCEPT !.stage = "Name", !.src = Head(h.left)[1], !.idx = 0,
                     !.value = Head(h.left)[2], !.left = Tail(@)]
      [] h.stage = "Start" /\ h.left = <<>> -> [h EXCEPT !.stage = "End"]
      [] h.stage = "Name"  -> [h EXCEPT !.stage = "Colon", !.src = <<":">>, !.idx = 0]
      [] h.stage = "Colon" -> [h EXCEPT !.stage = "Value", !.src = h.value, !.value = <<>>, !.idx = 0]
      [] h.stage = "Value" -> [h EXCEPT !.stage = "Crlf", !.src = CRLF, !.idx = 0]
      [] h.stage = "Crlf"  -> [h EXCEPT !.stage = "Start"]

\* EncodeHeaders::encode, one call: a step of the header machine.
headers_encode(h, room) ==
    CASE h.stage = "Start" -> [he |-> HeadersCheckNext(h), bytes |-> <<>>, complete |-> FALSE]
      [] h.stage = "End"   -> [he |-> h, bytes |-> <<>>, complete |-> TRUE]
      [] OTHER ->
           LET c == data_copy(h.src, h.idx, room)
               g == [h EXCEPT !.idx = c.idx]
           IN  [he |-> IF c.complete THEN HeadersCheckNext(g) ELSE g,
                bytes |-> c.bytes, complete |-> FALSE]

PartCheckNext(p) ==
    CASE p.stage = "Start"   -> [p EXCEPT !.stage = "Headers", !.idx = 0, !.src = <<>>]
      [] p.stage = "Headers" -> [p EXCEPT !.stage = "Crlf", !.idx = 0,
                                          !.src = IF p.some THEN CRLF ELSE <<>>]
      [] p.stage = "Crlf"    -> [p EXCEPT !.stage = "Body", !.idx = 0]
      [] p.stage = "Body"    -> [p EXCEPT !.stage = "End", !.idx = 0]

\* MixFrom: how many bytes one read of the body may give.  Memory fills the
\* buffer, a reader may give less; a reader of the other flavour gives nothing.
BodyReads(p, room) ==
    LET left == Len(p.body)
        most == IF room < left THEN room ELSE left
    IN  IF p.from = "owned" THEN {most}
        ELSE IF p.from # mode \/ left = 0 THEN {0}
        ELSE 1 .. most

\* One turn of the loop of MimePartEncoder: [part, bytes].
PartTurns(p, room) ==
    CASE p.stage = "Start" -> {[part |-> PartCheckNext(p), bytes |-> <<>>]}
      [] p.stage = "Headers" ->
           LET r == headers_encode(p.he, room)
               q == [p EXCEPT !.he = r.he]
           IN  {[part |-> IF r.complete THEN PartCheckNext(q) ELSE q, bytes |-> r.bytes]}
      [] p.stage = "Crlf" ->
           LET c == data_copy(p.src, p.idx, room)
               q == [p EXCEPT !.idx = c.idx]
           IN  {[part |-> IF c.complete THEN PartCheckNext(q) ELSE q, bytes |-> c.bytes]}
      [] p.stage = "Body" ->
           {[part |-> IF n = 0 THEN PartCheckNext(p) ELSE [p EXCEPT !.body = SubSeq(@, n + 1, Len(@))],
             bytes |-> SubSeq(p.body, 1, n)]
              : n \in IF p.some THEN BodyReads(p, room) ELSE {0}}

----------------------------------------------------------------------------
Init ==
    /\ multi \in Multis
    /\ mode \in {"sync", "async"}
    /\ enc = from_multi(multi)
    /\ call = [open |-> FALSE, buf |-> <<>>, room |-> 0, ended |-> FALSE, part |-> <<>>]
    /\ out = <<>>
    /\ pends = 0

\* The caller brings a buffer: data(buf), poll_data(cx, buf).
Call ==
    /\ ~call.open /\ ~call.ended
    /\ \E n \in BufSizes : call' = [call EXCEPT !.open = TRUE, !.room = n, !.buf = <<>>]
    /\ UNCHANGED <<multi, mode, enc, out, pends>>

Top == Head(enc.stages)

\* The bytes a turn wrote are counted; the queue and the source are replaced.
Wrote(bytes, stages, src, idx) ==
    /\ enc' = [stages |-> stages, src |-> src, idx |-> idx]
    /\ call' = [call EXCEPT !.buf = @ \o bytes, !.room = @ - Len(bytes), !.part = <<>>]

\* crlf_encode, dash_encode, boundary_encode: a stage that did not fit goes back
\* to the front with src_idx kept.
plain_encode(src) ==
    \E c \in {data_copy(src, enc.idx, call.room)} :
        IF c.complete THEN Wrote(c.bytes, Tail(enc.stages), <<>>, 0)
        ELSE Wrote(c.bytes, enc.stages, src, c.idx)

Turning == call.open /\ call.room # 0 /\ enc.stages # <<>> /\ call.part = <<>>

EncodePlain ==
    /\ Turning /\ Top.k \in {"Crlf", "Dash", "Boundary"}
    /\ plain_encode(CASE Top.k = "Crlf" -> CRLF [] Top.k = "Dash" -> DASH [] OTHER -> Top.bytes)
    /\ UNCHANGED <<multi, mode, out, pends>>

EncodeHeaders ==
    /\ Turning /\ Top.k = "Headers"
    /\ \E r \in {headers_encode(Top.he, call.room)} :
         IF r.complete THEN Wrote(r.bytes, Tail(enc.stages), <<>>, 0)
         ELSE Wrote(r.bytes, <<[Top EXCEPT !.he = r.he]>> \o Tail(enc.stages), enc.src, enc.idx)
    /\ UNCHANGED <<multi, mode, out, pends>>

\* The part's own loop runs inside one turn of the outer one, on the rest of the
\* buffer; call.part is that inner call: the part and the bytes it has written.
PartOpen ==
    /\ Turning /\ Top.k = "MimePart"
    /\ call' = [call EXCEPT !.part = <<[part |-> Top.part, bytes |-> <<>>]>>]
    /\ UNCHANGED <<multi, mode, enc, out, pends>>

InnerRoom == call.room - Len(call.part[1].bytes)

NotReady(p) == mode = "async" /\ p.stage = "Body" /\ p.from = "async" /\ pends < MaxPends

PartTurn ==
    /\ call.part # <<>> /\ InnerRoom # 0 /\ call.part[1].part.stage # "End"
    /\ \E r \in PartTurns(call.part[1].part, InnerRoom) :
         call' = [call EXCEPT !.part = <<[part |-> r.part, bytes |-> @[1].bytes \o r.bytes]>>]
    /\ UNCHANGED <<multi, mode, enc, out, pends>>

\* The inner call returns: no byte at all means that the part is finished, any
\* other answer puts it back to the front of the queue.
sync_mimepart_encode ==
    /\ call.part # <<>> /\ (InnerRoom = 0 \/ call.part[1].part.stage = "End")
    /\ \E p \in {call.part[1]} :
         IF p.bytes = <<>> THEN Wrote(<<>>, Tail(enc.stages), <<>>, 0)
         ELSE Wrote(p.bytes, <<[Top EXCEPT !.part = p.part]>> \o Tail(enc.stages), enc.src, enc.idx)
    /\ UNCHANGED <<multi, mode, out, pends>>

\* The asynchronous body is not ready: both loops return Pending at once.  The
\* bytes already in the buffer are not reported, and the part was popped and is
\* not put back.
poll_data_pending ==
    /\ call.part # <<>> /\ InnerRoom # 0 /\ NotReady(call.part[1].part)
    /\ enc' = [enc EXCEPT !.stages = Tail(@)]
    /\ call' = [call EXCEPT !.open = FALSE, !.buf = <<>>, !.part = <<>>]
    /\ pends' = pends + 1
    /\ UNCHANGED <<multi, mode, out>>

\* Ok(count); a caller that gets 0 for a buffer with room is done.
Return ==
    /\ call.open /\ call.part = <<>> /\ (call.room = 0 \/ enc.stages = <<>>)
    /\ out' = out \o call.buf
    /\ call' = [call EXCEPT !.open = FALSE, !.buf = <<>>, !.ended = call.buf = <<>>]
    /\ UNCHANGED <<multi, mode, enc, pends>>

Next ==
    \/ Call \/ EncodePlain \/ EncodeHeaders \/ PartOpen \/ PartTurn
    \/ sync_mimepart_encode \/ poll_data_pending \/ Return

Spec == Init /\ [][Next]_vars /\ WF_vars(Next)

----------------------------------------------------------------------------
(* Whatever the sizes of the buffers, and wherever in a header, a boundary or  *)
(* a body each call had to stop, what the caller has been given is the         *)
(* beginning of the message, and a caller told 0 has been given all of it      *)
(* (data, poll_data of MimeMultiEncoder).  A body that is not ready is where   *)
(* this ends: pends.                                                           *)
EncodedWhole ==
    pends = 0 =>
        /\ IsPrefix(out \o call.buf, MultiText(multi, mode, <<>>))
        /\ call.ended => out = MultiText(multi, mode, <<>>)

Ended == call.ended

(* A caller that keeps bringing buffers gets to the end: no stage is put back  *)
(* for ever (push_front in the encode functions).                              *)
EncodingEnds == <>Ended
=============================================================================
