---------------------------- MODULE RequestEncoder ----------------------------
(* The encoders of an HTTP/1 request head, RequestEncoder (which owns the    *)
(* head) and RequestRefEncoder (which borrows it): pieces written one after  *)
(* the other into buffers of any size, with the place in the current piece   *)
(* kept between two calls.  The connection calls encode until it returns 0.  *)
EXTENDS Integers, Sequences, SequencesExt

CONSTANTS Parts,      \* heads: [method, origin, full, version, headers]
          Sizes       \* sizes of the buffers encode is given

VARIABLES kind,       \* "owned" or "ref"
          req,        \* the head: headers is a sequence of [name, values]
          enc,        \* the encoder
          call,       \* the call under way: [size, room]
          out         \* what has been written, and whether the caller stopped

revars == <<kind, req, enc, call, out>>

Crlf == <<"cr", "lf">>
Pieces == {"method", "sp1", "uri", "sp2", "version", "crlf1", "name", "colon", "value", "sep",
           "crlf", "crlf2"}
FirstHeader == IF req.headers = <<>> THEN "EmptyHeader" ELSE "Name"

Init == /\ kind \in {"owned", "ref"} /\ req \in Parts
        /\ enc = [stage |-> "Method", idx |-> [p \in Pieces |-> 0], absolute |-> FALSE,
                  uri_absolute |-> FALSE, header |-> 1, status |-> FirstHeader,
                  part |-> 0, parts_written |-> 0, has_part |-> FALSE, needs_separator |-> FALSE,
                  in_value |-> FALSE]
        /\ call = [size |-> 0, room |-> 0]
        /\ out = [bytes |-> <<>>, stopped |-> FALSE]

absolute_uri(b) == /\ call.size = 0 /\ out.bytes = <<>>
                   /\ enc' = [enc EXCEPT !.absolute = b]
                   /\ UNCHANGED <<kind, req, call, out>>

Encode(n) == /\ call.size = 0 /\ ~out.stopped
             /\ call' = [size |-> n, room |-> n]
             /\ UNCHANGED <<kind, req, enc, out>>

\* Copies what fits of the rest of a piece.  The place is moved only when some
\* of it is left: a piece that is complete is not returned to.
Put(p, src, done) ==
  LET left == Len(src) - enc.idx[p]
      n == IF left < call.room THEN left ELSE call.room
  IN  /\ out' = [out EXCEPT !.bytes = @ \o SubSeq(src, enc.idx[p] + 1, enc.idx[p] + n)]
      /\ call' = [call EXCEPT !.room = @ - n]
      /\ enc' = IF call.room >= left THEN done
                ELSE [enc EXCEPT !.idx[p] = @ + n, !.in_value = FALSE]
      /\ UNCHANGED <<kind, req>>

In(stage) == call.room > 0 /\ enc.stage = stage
To(stage) == [enc EXCEPT !.stage = stage]

method_encode == In("Method") /\ Put("method", req.method, To("MethodSp"))
method_sp_encode == /\ In("MethodSp")
                    /\ Put("sp1", <<"sp">>, [enc EXCEPT !.stage = "Uri", !.uri_absolute = enc.absolute])
EncodeUri == IF enc.uri_absolute THEN req.full
             ELSE IF req.origin = <<>> THEN <<"/">> ELSE req.origin
uri_encode == In("Uri") /\ Put("uri", EncodeUri, To("UriSp"))
uri_sp_encode == In("UriSp") /\ Put("sp2", <<"sp">>, To("Version"))
version_encode == In("Version") /\ Put("version", req.version, To("VersionCrlf"))
version_crlf_encode == In("VersionCrlf") /\ Put("crlf1", Crlf, To("Header"))
header_crlf_encode == In("HeaderCrlf") /\ Put("crlf2", Crlf, To("EncodeFinished"))

-----------------------------------------------------------------------------
InHeader(status) == In("Header") /\ enc.status = status
Status(status) == [enc EXCEPT !.status = status]
Header == req.headers[enc.header]

EmptyHeader == /\ InHeader("EmptyHeader")
               /\ enc' = To("HeaderCrlf")
               /\ UNCHANGED <<kind, req, call, out>>

encode_name == InHeader("Name") /\ Put("name", Header.name, Status("Colon"))
encode_colon == InHeader("Colon") /\ Put("colon", <<":">>, Status("Value"))

\* The owning encoder joins the values of a name before it writes them.
Joined(values) == FoldLeftDomain(LAMBDA a, i : IF i = 1 THEN values[i] ELSE a \o <<",", "sp">> \o values[i],
                                 <<>>, values)
encode_value == /\ kind = "owned" /\ InHeader("Value")
                /\ Put("value", Joined(Header.values), Status("Crlf"))

\* The borrowing encoder writes them one by one, in a loop that may go on with
\* no room left in the buffer: one action for each thing a turn may do.
InValue == /\ kind = "ref" /\ enc.stage = "Header" /\ enc.status = "Value"
           /\ call.room > 0 \/ enc.in_value

ValueNext == /\ InValue /\ ~enc.has_part /\ enc.part < Len(Header.values)
             /\ enc' = [enc EXCEPT !.part = @ + 1, !.has_part = TRUE, !.in_value = TRUE,
                                   !.idx["value"] = 0, !.idx["sep"] = 0,
                                   !.needs_separator = enc.parts_written # 0]
             /\ UNCHANGED <<kind, req, call, out>>
ValueEnd == /\ InValue /\ ~enc.has_part /\ enc.part = Len(Header.values)
            /\ enc' = [enc EXCEPT !.status = "Crlf", !.in_value = FALSE]
            /\ UNCHANGED <<kind, req, call, out>>
ValueSeparator == /\ InValue /\ enc.has_part /\ enc.needs_separator
                  /\ Put("sep", <<",", "sp">>, [enc EXCEPT !.needs_separator = FALSE, !.idx["sep"] = 0,
                                                           !.in_value = TRUE])
ValuePart == /\ InValue /\ enc.has_part /\ ~enc.needs_separator
             /\ Put("value", Header.values[enc.part],
                    [enc EXCEPT !.has_part = FALSE, !.idx["value"] = 0, !.parts_written = @ + 1,
                                !.in_value = TRUE])

NextHeader == [enc EXCEPT !.header = @ + 1, !.status = "Name", !.part = 0, !.parts_written = 0,
                          !.has_part = FALSE, !.needs_separator = FALSE,
                          !.idx = [@ EXCEPT !["name"] = 0, !["colon"] = 0, !["value"] = 0,
                                            !["sep"] = 0, !["crlf"] = 0]]
encode_crlf == /\ InHeader("Crlf")
               /\ Put("crlf", Crlf, IF enc.header < Len(req.headers) THEN NextHeader ELSE To("HeaderCrlf"))

\* encode returns the number of bytes written, and the connection stops at 0.
Return == /\ call.size > 0 /\ ~enc.in_value
          /\ call.room = 0 \/ enc.stage = "EncodeFinished"
          /\ call' = [size |-> 0, room |-> 0]
          /\ out' = [out EXCEPT !.stopped = call.room = call.size]
          /\ UNCHANGED <<kind, req, enc>>

Next == \/ \E b \in BOOLEAN : absolute_uri(b)
        \/ \E n \in Sizes : Encode(n)
        \/ method_encode \/ method_sp_encode \/ uri_encode \/ uri_sp_encode
        \/ version_encode \/ version_crlf_encode \/ header_crlf_encode
        \/ EmptyHeader \/ encode_name \/ encode_colon \/ encode_value \/ encode_crlf
        \/ ValueNext \/ ValueEnd \/ ValueSeparator \/ ValuePart
        \/ Return

Spec == Init /\ [][Next]_revars

-----------------------------------------------------------------------------
Message == LET uri == IF enc.absolute THEN req.full
                      ELSE IF req.origin = <<>> THEN <<"/">> ELSE req.origin
               line(h) == h.name \o <<":">> \o Joined(h.values) \o Crlf
           IN  req.method \o <<"sp">> \o uri \o <<"sp">> \o req.version \o Crlf
               \o FlattenSeq([i \in DOMAIN req.headers |-> line(req.headers[i])]) \o Crlf

\* Whatever the buffers' sizes, both encoders write the bytes of the same head:
\* no byte is written twice or left out where a buffer ends, in the middle of a
\* name, of the separator of two values or of a line end.
HeadWritten == IsPrefix(out.bytes, Message)

\* The connection takes a return of 0 for the end: the whole head has been
\* written by then, never less of it.
StoppedAtEnd == out.stopped => out.bytes = Message
=============================================================================
