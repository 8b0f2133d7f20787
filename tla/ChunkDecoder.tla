---------------------------- MODULE ChunkDecoder ----------------------------
(* The decoder of the chunked transfer coding, ChunkBodyDecoder of           *)
(* ylong_http/src/body/chunk.rs.  It is handed the body in pieces of any     *)
(* length and keeps where it stopped between two calls of decode.  A byte is *)
(* one of the classes the code tells apart: the hexadecimal digits, "sp"     *)
(* (space, ';'), "cr", "lf", ":" and every other letter.                     *)
EXTENDS Integers, Sequences, SequencesExt

CONSTANT HexMax          \* i64::MAX in the code: the largest chunk size

Digits == [c \in {"0", "1", "2"} |-> CASE c = "0" -> 0 [] c = "1" -> 1 [] c = "2" -> 2]
CRLF == <<"cr", "lf">>

Fresh(contain_trailer) ==
  [stage |-> "Size", total |-> 0, rest |-> 0, hex |-> 0, cr |-> FALSE,
   num |-> FALSE, last |-> FALSE, inTrailer |-> FALSE,
   hasTrailer |-> contain_trailer, trailerCrlf |-> FALSE, trailer |-> <<>>]

-----------------------------------------------------------------------------
(* Results of one stage: an error, or the decoder, one chunk and what is     *)
(* left of the input.  "at" is the ChunkState of the chunk.                  *)

Bad == [ok |-> FALSE]

Sized(d, at, data, left) ==
  [ok |-> TRUE, dec |-> d, left |-> left,
   chunk |-> [at |-> at, size |-> d.total, data |-> data,
              isTrailer |-> FALSE, trailer |-> <<>>]]

SizedTrailer(d, at, size, trailer, left) ==
  [ok |-> TRUE, dec |-> d, left |-> left,
   chunk |-> [at |-> at, size |-> size, data |-> <<>>,
              isTrailer |-> TRUE, trailer |-> trailer]]

From(buf, i) == SubSeq(buf, i, Len(buf))
FirstEol(buf) == SelectInSeq(buf, LAMBDA c : c \in {"cr", "lf"})

\* decode_cr and decode_lf over a buffer that may hold only a line end: the
\* line end is complete, is still to come, or is something else.
LineEnd(d, buf) ==
  LET expected == IF d.cr THEN <<"lf">> ELSE CRLF
  IN  CASE IsPrefix(expected, buf) -> [is |-> "end", n |-> Len(expected)]
        [] IsStrictPrefix(buf, expected) -> [is |-> "part", cr |-> d.cr \/ buf # <<>>]
        [] OTHER -> [is |-> "bad"]

skip_last_crlf(d, data, buf) ==
  LET e == LineEnd(d, buf)
      complete == Sized(d, "Finish", data, From(buf, e.n + 1))
  IN  CASE e.is = "bad" -> Bad
        [] e.is = "end" ->
             [complete EXCEPT !.dec = [d EXCEPT !.stage = "Size", !.cr = FALSE, !.total = 0]]
        [] e.is = "part" -> Sized([d EXCEPT !.stage = "DataEnd", !.cr = e.cr],
                                  "DataCrlf", data, <<>>)

\* Bug: the size of the rest is not brought down.
decode_dataStale(d, buf) ==
  CASE buf = <<>> -> Sized([d EXCEPT !.stage = "Data"], "Data", <<>>, <<>>)
    [] buf # <<>> /\ Len(buf) >= d.rest ->
         skip_last_crlf([d EXCEPT !.rest = 0, !.cr = FALSE],
                        SubSeq(buf, 1, d.rest), From(buf, d.rest + 1))
    [] OTHER -> Sized([d EXCEPT !.stage = "Data"], "Data", buf, <<>>)

decode_data(d, buf) ==
  CASE buf = <<>> -> Sized([d EXCEPT !.stage = "Data"], "Data", <<>>, <<>>)
    [] buf # <<>> /\ Len(buf) >= d.rest ->
         skip_last_crlf([d EXCEPT !.rest = 0, !.cr = FALSE],
                        SubSeq(buf, 1, d.rest), From(buf, d.rest + 1))
    [] OTHER -> Sized([d EXCEPT !.stage = "Data", !.rest = @ - Len(buf)],
                      "Data", buf, <<>>)

skip_crlf(d, buf) ==
  LET e == LineEnd(d, buf)
  IN  CASE e.is = "bad" -> Bad
        [] e.is = "end" -> decode_data([d EXCEPT !.cr = FALSE], From(buf, e.n + 1))
        [] e.is = "part" -> Sized([d EXCEPT !.stage = "SizeEnd", !.cr = e.cr],
                                  "MetaCrlf", <<>>, <<>>)

\* A line of the trailer section ends; the empty one ends the body.
skip_trailer_last_crlf(d, data, buf) ==
  LET e == LineEnd(d, buf)
  IN  CASE e.is = "bad" -> Bad
        [] e.is = "end" /\ d.last ->
             SizedTrailer([d EXCEPT !.stage = "TrailerEndCrlf", !.cr = FALSE],
                          "Finish", 0, <<>>, From(buf, e.n + 1))
        [] e.is = "end" /\ ~d.last ->
             SizedTrailer([d EXCEPT !.stage = "TrailerData", !.cr = FALSE,
                                    !.trailerCrlf = TRUE],
                          "DataCrlf", 0, data, From(buf, e.n + 1))
        [] e.is = "part" ->
             SizedTrailer([d EXCEPT !.stage = "TrailerEndCrlf", !.cr = e.cr],
                          "DataCrlf", 0, data, <<>>)

\* A lone "lf" is refused here and in skip_extension: decode_lf takes the flag
\* of the "cr" away and the line-end scan that follows meets the same "lf".
decode_trailer_data(d, buf) ==
  LET i == FirstEol(buf)
      e == [d EXCEPT !.stage = "TrailerData",
                     !.last = @ \/ (d.trailerCrlf /\ buf # <<>> /\ buf[1] = "cr")]
  IN  CASE buf = <<>> -> SizedTrailer(e, "Data", 0, <<>>, <<>>)
        [] buf # <<>> /\ i = 0 -> SizedTrailer([e EXCEPT !.trailerCrlf = FALSE],
                                               "Data", 0, buf, <<>>)
        [] i > 0 /\ (buf[i] = "lf" \/ d.cr) -> Bad
        [] OTHER -> skip_trailer_last_crlf([e EXCEPT !.cr = TRUE],
                                           SubSeq(buf, 1, i - 1), From(buf, i + 1))

skip_trailer_crlf(d, buf) ==
  LET e == LineEnd(d, buf)
  IN  CASE e.is = "bad" -> Bad
        [] e.is = "end" -> decode_trailer_data([d EXCEPT !.cr = FALSE, !.trailerCrlf = TRUE],
                                               From(buf, e.n + 1))
        [] e.is = "part" -> SizedTrailer([d EXCEPT !.stage = "TrailerCrlf", !.cr = e.cr],
                                         "MetaCrlf", d.total, <<>>, <<>>)

skip_extension(d, buf) ==
  LET i == FirstEol(buf)
      e == [d EXCEPT !.stage = "Extension"]
  IN  CASE i = 0 /\ d.inTrailer -> SizedTrailer(e, "MetaExt", d.total, <<>>, <<>>)
        [] i = 0 /\ ~d.inTrailer -> Sized(e, "MetaExt", <<>>, <<>>)
        [] i > 0 /\ (buf[i] = "lf" \/ d.cr) -> Bad
        [] OTHER -> IF d.inTrailer
                    THEN skip_trailer_crlf([e EXCEPT !.cr = TRUE], From(buf, i + 1))
                    ELSE skip_crlf([e EXCEPT !.cr = TRUE], From(buf, i + 1))

decode_special_char(d, buf) ==
  IF d.inTrailer
  THEN skip_trailer_crlf([d EXCEPT !.num = FALSE], buf)
  ELSE skip_extension([d EXCEPT !.total = d.hex, !.hex = 0, !.num = FALSE,
                                !.last = @ \/ d.hex = 0,
                                !.rest = IF d.hex = 0 THEN @ ELSE d.hex], buf)

\* The digits of the size, most significant first.  A "0" seen together with
\* what follows it, before any other digit, opens the trailer section of a
\* decoder that expects one; the last digit of a piece cannot be seen so.
\* (chunk_flag is never set without num_flag and is left out.)
decode_size(d, buf) ==
  LET rest == SelectInSeq(buf, LAMBDA c : c \notin DOMAIN Digits)
      k == IF rest = 0 THEN Len(buf) ELSE rest - 1
      size == FoldLeft(LAMBDA n, c : 16 * n + Digits[c], d.hex, SubSeq(buf, 1, k))
      num == d.num \/ \E i \in 1 .. k : buf[i] # "0"
      e == [d EXCEPT !.stage = "Size", !.hex = size, !.num = num]
      opensTrailer == /\ d.hasTrailer /\ ~num
                      /\ k > 0 /\ k < Len(buf) /\ buf[k + 1] \in {"sp", "cr"}
  IN  CASE size > HexMax -> Bad
        [] opensTrailer -> skip_extension([e EXCEPT !.inTrailer = TRUE], From(buf, k))
        [] k = Len(buf) -> Sized(e, "MetaSize", <<>>, <<>>)
        [] k < Len(buf) /\ ~opensTrailer /\ buf[k + 1] \in {"sp", "cr", "lf"} ->
             decode_special_char(e, From(buf, k + 1))
        [] OTHER -> Bad

-----------------------------------------------------------------------------
Stage(d, buf) ==
  CASE d.stage = "Size" -> decode_size(d, buf)
    [] d.stage = "Extension" -> skip_extension(d, buf)
    [] d.stage = "SizeEnd" -> skip_crlf(d, buf)
    [] d.stage = "Data" -> decode_data(d, buf)
    [] d.stage = "DataEnd" -> skip_last_crlf(d, <<>>, buf)
    [] d.stage = "TrailerCrlf" -> skip_trailer_crlf(d, buf)
    [] d.stage = "TrailerData" -> decode_trailer_data(d, buf)
    [] d.stage = "TrailerEndCrlf" -> skip_trailer_last_crlf(d, <<>>, buf)

\* What the trailer part of a chunk adds to the trailer section.
merge_trailer(d, chunk) ==
  LET t == d.trailer \o chunk.trailer
  IN  [d EXCEPT !.trailer =
         IF chunk.at \in {"Finish", "DataCrlf"} /\ t # <<>> THEN t \o CRLF ELSE t]

\* Whether decode returns after this chunk.
match_decode_result(d, chunk, left) ==
  CASE chunk.at = "Finish" -> d.last \/ left = <<>>
    [] d.inTrailer /\ chunk.at \in {"Data", "DataCrlf"} -> left = <<>>
    [] OTHER -> TRUE

\* The loop of decode; r is the result of a stage.
RECURSIVE DecodeFrom(_, _)
DecodeFrom(r, chunks) ==
  IF ~r.ok THEN Bad
  ELSE LET m == IF r.chunk.isTrailer THEN merge_trailer(r.dec, r.chunk) ELSE r.dec
           out == Append(chunks, r.chunk)
       IN  IF match_decode_result(m, r.chunk, r.left)
           THEN [ok |-> TRUE, chunks |-> out, left |-> r.left,
                 dec |-> IF r.chunk.at = "Finish" THEN [m EXCEPT !.last = FALSE] ELSE m]
           ELSE DecodeFrom(Stage(m, r.left), out)

decode(d, buf) == DecodeFrom(Stage(d, buf), <<>>)

\* The header lines of a trailer section, up to an empty one.
get_trailer(d) ==
  LET t == d.trailer
      ends == SetToSortSeq({i \in DOMAIN t : t[i] = "lf"}, <)
      empty == SelectInSeq(ends, LAMBDA i : i > 2 /\ t[i - 2] = "lf")
      kept == IF empty = 0 THEN ends ELSE SubSeq(ends, 1, empty - 1)
  IN  [j \in DOMAIN kept |->
         SubSeq(t, IF j = 1 THEN 1 ELSE kept[j - 1] + 1, kept[j] - 2)]
=============================================================================
