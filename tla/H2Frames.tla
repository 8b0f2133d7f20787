------------------------------ MODULE H2Frames ------------------------------
(* The frames of HTTP/2 (ylong_http/src/h2/frame.rs) and what they look like *)
(* on the wire.  Bytes are cells: a cell for the length of the payload, for  *)
(* the type, for the flags, for a weight and for the identifier of a         *)
(* setting, and two cells of two bits for a word of 32 bits.  The upper bit  *)
(* of a word is the reserved or the exclusive bit.                           *)
EXTENDS Integers, Sequences

HEADER_LENGTH == 5         \* FRAME_HEADER_LENGTH, in cells
WORD == 2                  \* 4 bytes
Top == 8                   \* the upper bit of a word

Types == <<"DATA", "HEADERS", "PRIORITY", "RST_STREAM", "SETTINGS",
           "PUSH_PROMISE", "PING", "GOAWAY", "WINDOW_UPDATE", "CONTINUATION">>

\* The bits of the flags.
END_STREAM == 1
ACK == 1
END_HEADERS == 4
PADDED == 8
PRIORITY == 32
Has(flags, bit) == (flags \div bit) % 2 = 1
Without(flags, bit) == IF Has(flags, bit) THEN flags - bit ELSE flags

WordCells(n) == <<n \div 4, n % 4>>
get_code_value(cells) == 4 * cells[1] + cells[2]
get_stream_id(cells) == get_code_value(cells) % Top

FrameCells(type, flags, id, payload) ==
  <<Len(payload), type, flags>> \o WordCells(id) \o payload

(* A frame is a record of its type, its flags, its stream and its value,     *)
(* which is a sequence of numbers:                                           *)
(*   DATA <<data...>>           RST_STREAM <<code>>   WINDOW_UPDATE <<n>>    *)
(*   HEADERS <<field block...>>  SETTINGS <<id, value, id, value...>>        *)
(*   PUSH_PROMISE <<promised, field block...>>  PING <<opaque data...>>      *)
(*   PRIORITY <<exclusive, dependency, weight>>                              *)
(*   GOAWAY <<last stream, code, debug data...>>                             *)
Frame(type, flags, id, val) == [type |-> type, flags |-> flags, id |-> id, val |-> val]

Zeros(n) == [i \in 1 .. n |-> 0]
First(s, n) == SubSeq(s, 1, IF n < Len(s) THEN n ELSE Len(s))
After(s, n) == SubSeq(s, n + 1, Len(s))

Payload(f) ==
  CASE f.type \in {"DATA", "HEADERS", "PING"} -> f.val
    [] f.type = "PRIORITY" -> WordCells(Top * f.val[1] + f.val[2]) \o <<f.val[3]>>
    [] f.type \in {"RST_STREAM", "WINDOW_UPDATE"} -> WordCells(f.val[1])
    [] f.type = "SETTINGS" ->
         [i \in 1 .. (Len(f.val) \div 2) * (WORD + 1) |->
            LET k == 2 * ((i - 1) \div (WORD + 1)) + 1
            IN  CASE i % (WORD + 1) = 1 -> f.val[k]
                  [] i % (WORD + 1) = 2 -> WordCells(f.val[k + 1])[1]
                  [] OTHER -> WordCells(f.val[k + 1])[2]]
    [] f.type = "PUSH_PROMISE" -> WordCells(f.val[1]) \o After(f.val, 1)
    [] f.type = "GOAWAY" -> WordCells(f.val[1]) \o WordCells(f.val[2]) \o After(f.val, 2)

\* The frame as a peer sends it: padded with "pad" cells if the flags say so,
\* with a dependency if they say so, and the last "cont" cells of its field
\* block in a CONTINUATION frame unless the flags say END_HEADERS.
Wire(f, pad, cont) ==
  LET p == Payload(f)
      first == SubSeq(p, 1, Len(p) - cont)
      deps == IF f.type = "HEADERS" /\ Has(f.flags, PRIORITY) THEN Zeros(WORD + 1) ELSE <<>>
      body == IF Has(f.flags, PADDED) /\ f.type \in {"DATA", "HEADERS", "PUSH_PROMISE"}
              THEN <<pad>> \o deps \o first \o Zeros(pad)
              ELSE deps \o first
      type == (CHOOSE i \in 1 .. 10 : Types[i] = f.type) - 1
  IN  FrameCells(type, f.flags, f.id, body)
        \o IF f.type \in {"HEADERS", "PUSH_PROMISE"} /\ ~Has(f.flags, END_HEADERS)
           THEN FrameCells(9, END_HEADERS, f.id, SubSeq(p, Len(p) - cont + 1, Len(p)))
           ELSE <<>>
=============================================================================
