--------------------------- MODULE ResponseDecoder ---------------------------
(* The decoder of an HTTP/1 response head: it is handed the bytes of a       *)
(* connection in pieces cut anywhere, keeps its place between two calls, and *)
(* gives back the head together with the first bytes of the body.  Bytes are *)
(* members of a small alphabet, "sp" a blank and "bad" a byte no token takes. *)
EXTENDS Integers, Sequences, SequencesExt

CONSTANTS Texts,      \* what a server sends: [bytes, ok, part, body]
          Versions,   \* the version tokens the decoder accepts
          Codes       \* the status codes it accepts

VARIABLES text,       \* what is being sent
          unsent,     \* the bytes that have not arrived yet
          dec,        \* the ResponseDecoder
          result      \* what decode returned last

rdvars == <<text, unsent, dec, result>>

Ends == {"cr", "lf"}
Fresh == [stage |-> "Version", version |-> <<>>, status |-> <<>>, headers |-> <<>>,
          key |-> <<>>, rest |-> <<>>, new_line |-> FALSE]

\* What a phase makes of buffer b: go on with the next phase, or return.
Go(d, stage, b) == [d |-> [d EXCEPT !.stage = stage], b |-> b, out |-> "go"]
None(d) == [d |-> d, b |-> <<>>, out |-> "none"]
Err(d) == [d |-> d, b |-> <<>>, out |-> "err"]
Done(d, b) == [d |-> d, b |-> b, out |-> "done"]

Drop(b, n) == SubSeq(b, n + 1, Len(b))

\* The bytes up to the first one of stops, unless a byte of illegal comes first.
Scan(b, stops, illegal) ==
  LET i == SelectInSeq(b, LAMBDA c : c \in stops \cup illegal)
  IN  IF i = 0 THEN [is |-> "partial", token |-> b, at |-> 0]
      ELSE [is |-> IF b[i] \in stops THEN "complete" ELSE "err", token |-> SubSeq(b, 1, i - 1), at |-> i]

status_token(b) == Scan(b, {"sp"}, Ends \cup {"bad"})
decode_reason(b) == Scan(b, Ends, {"bad"})
get_header_name(b) == Scan(b, {":"}, Ends \cup {"sp", "bad"})
get_header_value(b) == Scan(b, Ends, {"bad"})

\* A token cut in two is kept in rest until its end arrives.
Keep(d, token) == [d EXCEPT !.rest = @ \o token]
take_value(d, token) == d.rest \o token

version_phase(d, b) ==
  LET t == status_token(b)
  IN  CASE t.is = "partial" -> None(Keep(d, t.token))
        [] t.is = "complete" /\ take_value(d, t.token) \in Versions ->
             Go([d EXCEPT !.version = take_value(d, t.token), !.rest = <<>>], "StatusCode", Drop(b, t.at))
        [] OTHER -> Err(d)

status_code_phase(d, b) ==
  LET t == status_token(b)
  IN  CASE t.is = "partial" -> None(Keep(d, t.token))
        [] t.is = "complete" /\ take_value(d, t.token) \in Codes ->
             Go([d EXCEPT !.status = take_value(d, t.token), !.rest = <<>>], "Reason", Drop(b, t.at))
        [] OTHER -> Err(d)

reason_phase(d, b) ==
  LET t == decode_reason(b)
  IN  CASE t.is = "partial" -> None(d)
        [] t.is = "complete" -> Go(d, "StatusCrlf", Drop(b, t.at - 1))
        [] OTHER -> Err(d)

\* How many bytes the line end at the front of b takes; 0 when more are needed.
consume_crlf(b, cr_meet) ==
  CASE b = <<>> -> [is |-> "partial", n |-> 0]
    [] b # <<>> /\ b[1] = "lf" -> [is |-> "complete", n |-> 1]
    [] b = <<"cr">> /\ ~cr_meet -> [is |-> "partial", n |-> 1]
    [] Len(b) > 1 /\ b[1] = "cr" /\ b[2] = "lf" /\ ~cr_meet -> [is |-> "complete", n |-> 2]
    [] OTHER -> [is |-> "err", n |-> 0]

\* The line end after the status line, and the blank line, remember a lone CR.
decode_status_crlf(d, b, Then(_, _)) ==
  LET t == consume_crlf(b, d.new_line)
  IN  CASE t.is = "complete" -> Then([d EXCEPT !.new_line = FALSE], Drop(b, t.n))
        [] t.is = "partial" -> None([d EXCEPT !.new_line = t.n = 1])
        [] OTHER -> Err(d)

\* A header line may begin here: the blank line ends the head.
detect_blank(d, b, waiting) ==
  IF b = <<>> THEN None([d EXCEPT !.stage = waiting])
  ELSE Go(d, IF b[1] \in Ends THEN "BlankLine" ELSE "Key", b)

status_crlf_phase(d, b) ==
  decode_status_crlf(d, b, LAMBDA e, rest : detect_blank([e EXCEPT !.headers = <<>>], rest, "Start"))

decode_key(d, b) ==
  LET t == get_header_name(b)
  IN  CASE t.is = "partial" -> None(Keep(d, t.token))
        [] t.is = "complete" ->
             Go([d EXCEPT !.key = take_value(d, t.token), !.rest = <<>>], "OwsBefore", Drop(b, t.at))
        [] OTHER -> Err(d)

decode_ows(d, b) ==
  LET i == SelectInSeq(b, LAMBDA c : c # "sp")
  IN  IF i = 0 THEN None(d) ELSE Go(d, "Value", Drop(b, i - 1))

\* Trailing blanks are cut from the whole value, and the name is lowered.
Trimmed(v) == SubSeq(v, 1, SelectLastInSeq(v, LAMBDA c : c # "sp"))
Lower(name) == [i \in DOMAIN name |-> IF name[i] = "A" THEN "a" ELSE name[i]]
header_insert(headers, name, value) == Append(headers, <<Lower(name), value>>)

decode_value(d, b) ==
  LET t == get_header_value(b)
  IN  CASE t.is = "partial" -> None(Keep(d, t.token))
        [] t.is = "complete" ->
             Go([d EXCEPT !.headers = header_insert(@, d.key, Trimmed(take_value(d, t.token))),
                          !.key = <<>>, !.rest = <<>>], "Crlf", Drop(b, t.at - 1))
        [] OTHER -> Err(d)

\* The end of a header line is looked for with cr_meet unset, whatever new_line says.
decode_crlf(d, b) ==
  LET t == consume_crlf(b, FALSE)
  IN  CASE t.is = "complete" -> detect_blank([d EXCEPT !.new_line = FALSE], Drop(b, t.n), "EndCrlf")
        [] t.is = "partial" -> None([d EXCEPT !.new_line = @ \/ t.n = 1])
        [] OTHER -> Err(d)

blank_line_phase(d, b) == decode_status_crlf(d, b, Done)

Phase(d, b) ==
  CASE d.stage = "Version" -> version_phase(d, b)
    [] d.stage = "StatusCode" -> status_code_phase(d, b)
    [] d.stage = "Reason" -> reason_phase(d, b)
    [] d.stage = "StatusCrlf" -> status_crlf_phase(d, b)
    [] d.stage \in {"Start", "EndCrlf"} -> detect_blank(d, b, d.stage)
    [] d.stage = "Key" -> decode_key(d, b)
    [] d.stage = "OwsBefore" -> decode_ows(d, b)
    [] d.stage = "Value" -> decode_value(d, b)
    [] d.stage = "Crlf" -> decode_crlf(d, b)
    [] d.stage = "BlankLine" -> blank_line_phase(d, b)

RECURSIVE decode(_, _)
decode(d, b) == LET r == Phase(d, b) IN IF r.out = "go" THEN decode(r.d, r.b) ELSE r

-----------------------------------------------------------------------------
Init == /\ text \in Texts
        /\ unsent = text.bytes
        /\ dec = Fresh
        /\ result = None(Fresh)

\* A read of the connection brings the next n bytes; an error or a head ends it.
Feed(n) == /\ result.out = "none"
           /\ n \in 1..Len(unsent)
           /\ result' = decode(dec, SubSeq(unsent, 1, n))
           /\ dec' = result'.d
           /\ unsent' = Drop(unsent, n)
           /\ UNCHANGED text

Next == \E n \in 1..Len(unsent) : Feed(n)
Spec == Init /\ [][Next]_rdvars

-----------------------------------------------------------------------------
Part(d) == [version |-> d.version, status |-> d.status, headers |-> d.headers]

\* However the bytes are cut into reads, decode gives the head that was sent,
\* and what it leaves of the buffer is the beginning of the body, no byte of
\* which is lost or taken for the head.
HeadRight == result.out = "done" /\ text.ok =>
               /\ Part(result.d) = text.part
               /\ result.b \o unsent = text.body

\* A response that keeps to the grammar is never refused because of where a
\* read ends, and its head is complete once all its bytes have arrived.
HeadAccepted == text.ok => /\ result.out # "err"
                           /\ Len(unsent) <= Len(text.body) => result.out = "done"

\* What the decoder makes of any bytes, legal or not, is what it makes of them
\* in one piece.  A header line ended by CR CR LF is the exception: decode_crlf
\* takes it when the first CR ends a read.
LaxCr == \E i \in 1..(Len(text.bytes) - 1) : text.bytes[i] = "cr" /\ text.bytes[i + 1] = "cr"
WholeOrCut == LET whole == decode(Fresh, text.bytes)
              IN  ~LaxCr =>
                    CASE result.out = "done" -> /\ whole.out = "done"
                                                /\ Part(result.d) = Part(whole.d)
                                                /\ result.b \o unsent = whole.b
                      [] result.out = "err" -> whole.out = "err"
                      [] result.out = "none" -> unsent = <<>> => whole.out = "none"
=============================================================================
