----------------------------- MODULE MimeDecoder -----------------------------
(***************************************************************************)
(* MimeMultiDecoder: a multipart message is read from pieces that end      *)
(* anywhere.  A stack of stages says what is being read (the headers of an *)
(* element not yet known to be a part or a multipart of its own, the body  *)
(* of a part, the boundary lines of a multipart) and a second stack holds  *)
(* the unfinished multiparts.  One action is one turn of the loops of      *)
(* `decode`, of DecodeHeaders and of MimePartDecoder.                      *)
(*                                                                         *)
(* The value of a content-type header is cut into the tokens "multipart",  *)
(* ";", "boundary=" and the bytes of the boundary.                         *)
(***************************************************************************)
EXTENDS MimeText

CONSTANTS
    Messages,   \* [multi, pre, pad, rest, bad]: a message, the text before it, the
                \* blanks after its boundaries, the text after it, and whether one
                \* of its headers has a CR without LF
    ContentType,\* the name of the header get_content_type_boundary looks for
    MaxPiece    \* the longest piece, apart from one with everything that is left

VARIABLES
    message,    \* what is being sent
    left,       \* the text that has not arrived
    dec,        \* MimeMultiDecoder: stages and multis
    buf,        \* `remains` of the running call
    res,        \* "idle", "call", "complete", "error" or "panic"
    cut         \* the places where splitting the text changes its meaning

vars == <<message, left, dec, buf, res, cut>>

Blank == {" "}

----------------------------------------------------------------------------
\* Helpers of mime/common.
trim_front_lwsp(b) ==
    LET keep == {i \in 1 .. Len(b) : b[i] \notin Blank}
    IN  IF keep = {} THEN <<>>
        ELSE SubSeq(b, CHOOSE i \in keep : \A j \in keep : i <= j, Len(b))

trim_back_lwsp(b) ==
    LET keep == {i \in 1 .. Len(b) : b[i] \notin Blank}
    IN  IF keep = {} THEN <<>>
        ELSE SubSeq(b, 1, CHOOSE i \in keep : \A j \in keep : i >= j)

EndsWith(b, x) == b # <<>> /\ Last(b) = x

trim_back_lwsp_if_end_with_lf(line) ==
    LET t == Front(line)
    IN  trim_back_lwsp(IF EndsWith(t, "CR") THEN Front(t) ELSE t)

\* The first line of b with its LF, and what follows; whole is FALSE without one.
get_crlf_contain(b) ==
    LET lf == {i \in 1 .. Len(b) : b[i] = "LF"}
    IN  IF lf = {} THEN [whole |-> FALSE, src |-> b, rest |-> <<>>]
        ELSE LET i == CHOOSE i \in lf : \A j \in lf : i <= j
             IN  [whole |-> TRUE, src |-> SubSeq(b, 1, i), rest |-> SubSeq(b, i + 1, Len(b))]

From(b, i) == SubSeq(b, i, Len(b))

\* The boundary parameter of a multipart content type, <<>> for None.
get_content_type_boundary(headers) ==
    LET types == {h \in headers : h[1] = ContentType}
        value == (CHOOSE h \in types : TRUE)[2]
        at == {i \in 2 .. Len(value) : value[i] = "boundary="}
    IN  IF types = {} \/ value = <<>> \/ Head(value) # "multipart" \/ at = {} THEN <<>>
        ELSE From(value, 1 + CHOOSE i \in at : \A j \in at : i <= j)

insert(headers, name, value) == {h \in headers : h[1] # name} \cup {<<name, value>>}

body_trim_crlf_once(b) ==
    LET c == IF EndsWith(b, "LF") THEN Front(b) ELSE b
    IN  IF EndsWith(c, "CR") THEN Front(c) ELSE c

----------------------------------------------------------------------------
DecodeHeadersNew == [stage |-> "Start", name |-> <<>>, src |-> <<>>, headers |-> {}]
UnknownStage(hd) == [k |-> "Unknown", hd |-> hd]
PartStage(headers, boundary) ==
    [k |-> "Part", h |-> headers, body |-> <<>>, boundary |-> boundary, idx |-> 0]
MultiStage(outermost, boundary) ==
    [k |-> "Multi", first |-> FALSE, outermost |-> outermost, boundary |-> boundary,
     src |-> <<>>, idx |-> 0]
EndStage == [k |-> "End"]

Top == Last(dec.stages)
Below == Front(dec.stages)

HeadersDone(s) == s.k = "Unknown" /\ s.hd.stage = "End"

\* A call goes on while bytes remain; without them it still finishes headers that
\* are complete, and pops the End stage.
Continue(d, rest) ==
    /\ dec' = d
    /\ buf' = rest
    /\ res' = IF rest = <<>> /\ Last(d.stages).k # "End" /\ ~HeadersDone(Last(d.stages))
              THEN "idle" ELSE "call"

Replace(stage, rest) == Continue([dec EXCEPT !.stages = Append(Below, stage)], rest)
Fail(why) == res' = why /\ UNCHANGED <<dec, buf>>

Turning(k) == res = "call" /\ dec.stages # <<>> /\ Top.k = k

\* decode(buf) is called with the next piece.
Feed ==
    /\ res = "idle" /\ left # <<>>
    /\ \E n \in {i \in 1 .. Len(left) : i <= MaxPiece \/ i = Len(left)} :
         /\ buf' = SubSeq(left, 1, n)
         /\ left' = From(left, n + 1)
    /\ res' = "call"
    /\ UNCHANGED <<message, dec, cut>>

----------------------------------------------------------------------------
\* DecodeHeaders.
TrimIfNew(hd) == IF hd.src = <<>> THEN trim_front_lwsp(buf) ELSE buf
is_cr_meet(hd) == hd.src = <<"CR">>

\* start_decode: an empty line ends the headers, anything else begins a name.
\* `buf[0]` is read after the blanks were removed.
start_decode ==
    /\ Turning("Unknown") /\ Top.hd.stage = "Start"
    /\ \E hd \in {Top.hd}, b \in {TrimIfNew(Top.hd)} :
         \/ b = <<>> /\ Fail("panic") /\ cut' = cut \cup {"blank"}
         \/ /\ b # <<>> /\ UNCHANGED cut
            /\ \/ b[1] = "LF" /\ Replace(UnknownStage([hd EXCEPT !.stage = "End"]), From(b, 2))
               \/ /\ b[1] = "CR" /\ ~is_cr_meet(hd)
                  /\ \/ Len(b) = 1 /\ Replace(UnknownStage([hd EXCEPT !.src = <<"CR">>]), <<>>)
                     \/ /\ Len(b) > 1 /\ b[2] = "LF"
                        /\ Replace(UnknownStage([hd EXCEPT !.stage = "End"]), From(b, 3))
               \/ /\ b[1] \notin {"CR", "LF"} /\ ~is_cr_meet(hd)
                  /\ Replace(UnknownStage([hd EXCEPT !.stage = "Name"]), b)
               \/ (IF is_cr_meet(hd) THEN b[1] # "LF"
                   ELSE b[1] = "CR" /\ Len(b) > 1 /\ b[2] # "LF") /\ Fail("error")
    /\ UNCHANGED <<message, left>>

\* The place of the first byte of `stop` in b, 0 when there is none.
FindAny(b, stop) ==
    LET at == {i \in 1 .. Len(b) : b[i] \in stop}
    IN  IF at = {} THEN 0 ELSE CHOOSE i \in at : \A j \in at : i <= j

NameByte(x) == x \notin {"CR", "LF", " ", ":"}

name_decode ==
    /\ Turning("Unknown") /\ Top.hd.stage = "Name"
    /\ \E hd \in {Top.hd}, b \in {TrimIfNew(Top.hd)} : \E i \in {FindAny(b, {":"})} :
         \E name \in {IF i = 0 THEN b ELSE SubSeq(b, 1, i - 1)} :
           \/ (\E j \in 1 .. Len(name) : ~NameByte(name[j])) /\ Fail("error")
           \/ /\ \A j \in 1 .. Len(name) : NameByte(name[j])
              /\ IF i = 0 THEN Replace(UnknownStage([hd EXCEPT !.src = @ \o name]), <<>>)
                 ELSE Replace(UnknownStage([hd EXCEPT !.name = hd.src \o name, !.src = <<>>,
                                                      !.stage = "Value"]), From(b, i + 1))
    /\ UNCHANGED <<message, left, cut>>

value_decode ==
    /\ Turning("Unknown") /\ Top.hd.stage = "Value"
    /\ \E hd \in {Top.hd}, b \in {TrimIfNew(Top.hd)} : \E i \in {FindAny(b, {"CR", "LF"})} :
         IF i = 0 THEN Replace(UnknownStage([hd EXCEPT !.src = @ \o b]), <<>>)
         ELSE Replace(UnknownStage(
                  [hd EXCEPT !.headers = insert(@, hd.name, trim_front_lwsp(hd.src \o SubSeq(b, 1, i - 1))),
                             !.name = <<>>, !.src = <<>>, !.stage = "Crlf"]), From(b, i))
    /\ UNCHANGED <<message, left, cut>>

\* crlf_decode with consume_crlf.
crlf_decode ==
    /\ Turning("Unknown") /\ Top.hd.stage = "Crlf"
    /\ \E hd \in {[Top.hd EXCEPT !.stage = "Start", !.src = <<>>]} :
         \/ buf[1] = "LF" /\ Replace(UnknownStage(hd), From(buf, 2))
         \/ buf[1] = "CR" /\ Len(buf) > 1 /\ buf[2] = "LF" /\ Replace(UnknownStage(hd), From(buf, 3))
         \/ buf = <<"CR">> /\ Replace(Top, <<>>)
         \/ (buf[1] \notin {"CR", "LF"} \/ (buf[1] = "CR" /\ Len(buf) > 1 /\ buf[2] # "LF")) /\ Fail("error")
    /\ UNCHANGED <<message, left, cut>>

\* The headers are complete: they say what the element is.
unknown_decode ==
    /\ Turning("Unknown") /\ HeadersDone(Top)
    /\ \E b \in {get_content_type_boundary(Top.hd.headers)} :
         IF b = <<>>
         THEN Replace(PartStage(Top.hd.headers, Last(dec.multis).boundary), buf)
         ELSE Continue([stages |-> Append(Below, MultiStage(FALSE, b)),
                        multis |-> Append(dec.multis, ReadMulti(Top.hd.headers, b, <<>>))], buf)
    /\ UNCHANGED <<message, left, cut>>

----------------------------------------------------------------------------
\* MimePartDecoder::body_decode and part_decode.
AddToLast(multis, x) ==
    Append(Front(multis), [Last(multis) EXCEPT !.list = Append(@, x)])

\* The innermost multipart is finished: `below` is the stack under its Multi stage.
temp_multi_end(below, multis) ==
    IF Len(multis) = 1 THEN [stages |-> <<EndStage>>, multis |-> multis]
    ELSE [stages |-> below, multis |-> AddToLast(Front(multis), Last(multis))]

BoundaryLine(b) == DASH \o b

body_decode ==
    /\ Turning("Part")
    /\ \E l \in {get_crlf_contain(buf)}, p \in {Top} :
       \E body \in {p.body \o l.src} :
       \E line \in {IF l.whole THEN trim_back_lwsp_if_end_with_lf(From(body, p.idx + 1)) ELSE <<>>},
          part \in {ReadPart(p.h, body_trim_crlf_once(SubSeq(body, 1, p.idx)))} :
         \/ /\ l.whole /\ line = BoundaryLine(p.boundary)
            /\ Continue([stages |-> Append(Below, UnknownStage(DecodeHeadersNew)),
                         multis |-> AddToLast(dec.multis, part)], l.rest)
         \/ /\ l.whole /\ line = BoundaryLine(p.boundary) \o DASH
            /\ Continue(temp_multi_end(Front(Below), AddToLast(dec.multis, part)), l.rest)
         \/ /\ ~l.whole \/ line \notin {BoundaryLine(p.boundary), BoundaryLine(p.boundary) \o DASH}
            /\ Replace([p EXCEPT !.body = body, !.idx = IF l.whole THEN Len(body) ELSE @], l.rest)
    /\ UNCHANGED <<message, left, cut>>

----------------------------------------------------------------------------
\* Boundary lines of a multipart.
FirstSeen(m) == [m EXCEPT !.first = TRUE, !.src = <<>>, !.idx = 0]

\* The outermost multipart has no header that names its boundary: the first line
\* that starts with two dashes does.  After any other line the rest of the piece
\* is dropped.
outermost_first_boundary_decode ==
    /\ Turning("Multi") /\ ~Top.first /\ Top.outermost
    /\ \E l \in {get_crlf_contain(buf)}, m \in {Top} :
       \E line \in {trim_front_lwsp(trim_back_lwsp(
                       IF l.whole THEN trim_back_lwsp_if_end_with_lf(m.src \o l.src) ELSE <<>>))} :
         \/ ~l.whole /\ Replace([m EXCEPT !.src = @ \o l.src], <<>>) /\ UNCHANGED cut
         \/ /\ l.whole /\ IsPrefix(DASH, line) /\ UNCHANGED cut
            /\ \E b \in {From(line, 3)} :
                 Continue([stages |-> Append(Append(Below, FirstSeen([m EXCEPT !.boundary = b])),
                                             UnknownStage(DecodeHeadersNew)),
                           multis |-> [dec.multis EXCEPT ![1].boundary = b]], l.rest)
         \/ /\ l.whole /\ ~IsPrefix(DASH, line)
            /\ Replace([m EXCEPT !.src = <<>>, !.idx = 0], <<>>)
            /\ cut' = IF l.rest = <<>> THEN cut ELSE cut \cup {"preamble"}
    /\ UNCHANGED <<message, left>>

\* An inner multipart knows its boundary.  The next element is begun whether or
\* not the line was complete, or the boundary.
inner_first_boundary_decode ==
    /\ Turning("Multi") /\ ~Top.first /\ ~Top.outermost
    /\ \E l \in {get_crlf_contain(buf)}, m \in {Top} :
       \E found \in {l.whole /\ trim_back_lwsp_if_end_with_lf(From(m.src \o l.src, m.idx + 1))
                                 = BoundaryLine(m.boundary)} :
       \E n \in {IF found THEN FirstSeen(m)
                 ELSE [m EXCEPT !.src = @ \o l.src, !.idx = IF l.whole THEN Len(m.src \o l.src) ELSE @]} :
         /\ Continue([dec EXCEPT !.stages = Append(Append(Below, n), UnknownStage(DecodeHeadersNew))], l.rest)
         /\ cut' = IF found THEN cut ELSE cut \cup {"inner"}
    /\ UNCHANGED <<message, left>>

\* After an inner multipart: the outer one looks for its own next boundary.
middle_or_end_boundary_decode ==
    /\ Turning("Multi") /\ Top.first
    /\ \E l \in {get_crlf_contain(buf)}, m \in {Top} :
       \E line \in {IF l.whole THEN trim_back_lwsp_if_end_with_lf(From(m.src \o l.src, m.idx + 1)) ELSE <<>>} :
         \/ /\ l.whole /\ line = BoundaryLine(m.boundary)
            /\ Continue([dec EXCEPT !.stages = Append(Append(Below, FirstSeen(m)),
                                                      UnknownStage(DecodeHeadersNew))], l.rest)
         \/ /\ l.whole /\ line = BoundaryLine(m.boundary) \o DASH
            /\ Continue(temp_multi_end(Below, dec.multis), l.rest)
         \/ /\ ~l.whole \/ line \notin {BoundaryLine(m.boundary), BoundaryLine(m.boundary) \o DASH}
            /\ Replace([m EXCEPT !.src = @ \o l.src,
                                 !.idx = IF l.whole THEN Len(m.src \o l.src) ELSE @], l.rest)
    /\ UNCHANGED <<message, left, cut>>

\* The End stage: the message is handed over with what remains of the piece.
End ==
    /\ Turning("End")
    /\ res' = "complete"
    /\ UNCHANGED <<message, left, dec, buf, cut>>

----------------------------------------------------------------------------
Text(m) == m.pre \o MultiText(m.multi, "sync", m.pad) \o m.rest

Init ==
    /\ message \in Messages
    /\ left = Text(message)
    /\ dec = [stages |-> <<MultiStage(TRUE, <<>>)>>, multis |-> <<ReadMulti({}, <<>>, <<>>)>>]
    /\ buf = <<>>
    /\ res = "idle"
    /\ cut = {}

Next ==
    \/ Feed \/ start_decode \/ name_decode \/ value_decode \/ crlf_decode \/ unknown_decode
    \/ body_decode \/ outermost_first_boundary_decode \/ inner_first_boundary_decode
    \/ middle_or_end_boundary_decode \/ End

Spec == Init /\ [][Next]_vars

----------------------------------------------------------------------------
(* However the text of a message is split into pieces, the decoder reads the   *)
(* message that was written: never an error, a panic or another message, and   *)
(* the text after the message is left for the caller (decode of                *)
(* MimeMultiDecoder).  `cut` names the three splits for which it does not:     *)
(* a piece that goes on after a line of the preamble, one that ends inside the *)
(* first boundary of an inner multipart, one that ends inside the blanks       *)
(* before a header.  A message with a stray CR among its headers is refused,   *)
(* whatever the split.                                                         *)
DecodedWhole ==
    cut = {} =>
        IF message.bad THEN res # "complete" ELSE
        /\ res \notin {"error", "panic"}
        /\ res = "complete" => dec.multis[1] = Meaning(message.multi) /\ buf \o left = message.rest
        /\ res = "idle" => left # <<>>

(* Every unfinished multipart has its Multi stage, in the same order, below    *)
(* whatever is being read: the two stacks of the decoder never drift apart,    *)
(* so that the part read next is added where it belongs.                       *)
StacksAgree ==
    LET open == SelectSeq(dec.stages, LAMBDA s : s.k = "Multi")
    IN  dec.stages # <<EndStage>> =>
            /\ Len(open) = Len(dec.multis)
            /\ \A i \in 1 .. Len(open) : open[i].boundary = dec.multis[i].boundary
=============================================================================
