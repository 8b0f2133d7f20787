------------------------------- MODULE Hpack --------------------------------
(* HPACK, ylong_http/src/h2/hpack: an encoder, the field blocks on their     *)
(* way, and a decoder, each side with its own dynamic table.  The encoder is *)
(* HpackEncoder, or a server that uses any representation RFC 7541 allows;   *)
(* the decoder is HpackDecoder, or a server's, which is no different here.   *)
(* A byte is a cell <<kind, value>>: the kind stands for its upper bits, and *)
(* for what it belongs to.  A string is a sequence of letters; coded by      *)
(* Huffman, a byte holds two of them.  A field is <<name, value>>.           *)
EXTENDS Integers, Sequences, SequencesExt, FiniteSetsExt

CONSTANTS
  Static,         \* the static table; a value "none" is no value
  TABLE_SIZE,     \* DEFAULT_HEADER_TABLE_SIZE
  LIST_SIZE,      \* header_list_size of the decoder
  OVERHEAD,       \* 32: what an entry counts beyond its letters
  Prefix,         \* largest number the first byte of each kind holds
  BASE,           \* 128: of the bytes that follow it
  INT_MAX,        \* the largest usize
  Traffic,        \* sequences of field lists that each peer sends
  Rooms,          \* lengths of the buffers of encode
  Sizes           \* size updates of a server, and sizes in its SETTINGS

VARIABLES
  peer,           \* "own" or "server": who encodes
  lists,          \* the field lists still to be encoded
  enc,            \* HpackEncoder
  flight,         \* cells that have not been decoded, a block at a time
  dec,            \* HpackDecoder
  told            \* what was sent, and what was decoded

None == <<"none">>
NStatic == Len(Static)
SizeOf(h) == Len(h[1]) + Len(h[2]) + OVERHEAD
TotalOf(hs) == FoldLeft(LAMBDA n, h : n + SizeOf(h), 0, hs)
FirstOf(s, n) == SubSeq(s, 1, IF n < Len(s) THEN n ELSE Len(s))
Beyond(s, n) == SubSeq(s, n + 1, Len(s))

NewTable == [queue |-> <<>>, size |-> 0, max |-> TABLE_SIZE]
Start == [at |-> "Index"]

Init ==
  /\ peer \in {"own", "server"}
  /\ lists \in Traffic[peer]
  /\ \E huffman \in BOOLEAN :
       enc = [table |-> NewTable, rest |-> <<>>, state |-> <<>>, on |-> FALSE, room |-> 0,
              huffman |-> huffman, begun |-> FALSE]
  /\ flight = <<>>
  /\ dec = [table |-> NewTable, st |-> Start, buf |-> <<>>, lines |-> <<>>, size |-> 0,
            on |-> FALSE, failed |-> FALSE]
  /\ told = [sent |-> <<>>, got |-> <<>>, odd |-> FALSE, lowered |-> FALSE]

-----------------------------------------------------------------------------
(* DynamicTable.  The newest entry is the first.                             *)

\* Entries leave from the end until the rest fits.
fit_size(t) ==
  LET gone == Min({n \in 0 .. Len(t.queue) :
                     \/ n = Len(t.queue)
                     \/ t.size - TotalOf(Beyond(t.queue, Len(t.queue) - n)) <= t.max})
      kept == Len(t.queue) - gone
  IN  [t EXCEPT !.queue = SubSeq(@, 1, kept), !.size = @ - TotalOf(Beyond(t.queue, kept))]

update(t, h) == fit_size([t EXCEPT !.queue = <<h>> \o @, !.size = @ + SizeOf(h)])
update_size(t, max) == fit_size([t EXCEPT !.max = max])

-----------------------------------------------------------------------------
(* TableSearcher: where a field is found, and what an index stands for.      *)

StaticAt(h) == {i \in 1 .. NStatic : Static[i] = h}
StaticNamed(h) == {i \in 1 .. NStatic : Static[i][1] = h[1]}
DynamicAt(t, h) == {i \in DOMAIN t.queue : t.queue[i] = h}
DynamicNamed(t, h) == {i \in DOMAIN t.queue : t.queue[i][1] = h[1]}

Found(kind, i) == [kind |-> kind, i |-> i]

\* A field of which only the name is in the dynamic table is taken for one that
\* is there with its value.
index(t, h) ==
  CASE StaticAt(h) # {} -> Found("Header", Min(StaticAt(h)))
    [] StaticAt(h) = {} /\ DynamicAt(t, h) # {} ->
         Found("Header", NStatic + Min(DynamicAt(t, h)))
    [] StaticAt(h) = {} /\ DynamicAt(t, h) = {} /\ StaticNamed(h) # {} ->
         Found("HeaderName", Min(StaticNamed(h)))
    [] StaticAt(h) = {} /\ StaticNamed(h) = {} /\ DynamicAt(t, h) = {}
         /\ DynamicNamed(t, h) # {} -> Found("Header", NStatic + Min(DynamicNamed(t, h)))
    [] OTHER -> Found("None", 0)

\* search_header and search_header_name; <<>> for none.
search_header(t, i) ==
  CASE i \in 1 .. NStatic -> IF Static[i][2] = None THEN <<>> ELSE Static[i]
    [] i > NStatic /\ i - NStatic \in DOMAIN t.queue -> t.queue[i - NStatic]
    [] OTHER -> <<>>
search_header_name(t, i) ==
  CASE i \in 1 .. NStatic -> Static[i]
    [] i > NStatic /\ i - NStatic \in DOMAIN t.queue -> t.queue[i - NStatic]
    [] OTHER -> <<>>

-----------------------------------------------------------------------------
(* The representations.                                                      *)

\* IntegerEncoder after a first byte that is full.
Trailing[n \in 0 .. INT_MAX] ==
  IF n >= BASE THEN << <<"more", n % BASE>> >> \o Trailing[n \div BASE] ELSE << <<"last", n>> >>
Integer(kind, n) ==
  IF n < Prefix[kind] THEN << <<kind, n>> >>
  ELSE << <<kind, Prefix[kind]>> >> \o Trailing[n - Prefix[kind]]

Octets(s, huffman) ==
  IF huffman
  THEN [i \in 1 .. (Len(s) + 1) \div 2 |-> <<"octet", SubSeq(s, 2 * i - 1,
                                              IF 2 * i <= Len(s) THEN 2 * i ELSE Len(s))>>]
  ELSE [i \in DOMAIN s |-> <<"octet", <<s[i]>>>>]
Literal(s, huffman) ==
  Integer(IF huffman THEN "huffman" ELSE "plain", Len(Octets(s, huffman))) \o Octets(s, huffman)

IndexAndValue(kind, i, h, huffman) == Integer(kind, i) \o Literal(h[2], huffman)
NameAndValue(kind, h, huffman) ==
  Integer(kind, 0) \o Literal(h[1], huffman) \o Literal(h[2], huffman)

-----------------------------------------------------------------------------
(* HpackEncoder::encode.                                                     *)

set_parts ==
  /\ lists # <<>> /\ ~enc.on /\ enc.rest = <<>> /\ enc.state = <<>> /\ ~enc.begun
  /\ enc' = [enc EXCEPT !.rest = Head(lists), !.begun = TRUE]
  /\ lists' = Tail(lists)
  /\ told' = [told EXCEPT !.sent = Append(@, Head(lists))]
  /\ UNCHANGED <<peer, flight, dec>>

\* is_finished, and what may be left of the last representation.
is_finished == enc.rest = <<>> /\ enc.state = <<>>

\* A call of encode goes on with what the last buffer had no room for.
EncodeCall(room) ==
  LET w == FirstOf(enc.state, room)
  IN  /\ ~enc.on /\ ~is_finished
      /\ flight' = flight \o w
      /\ enc' = [enc EXCEPT !.state = Beyond(@, room), !.room = room - Len(w),
                            !.on = Len(enc.state) <= room /\ enc.rest # <<>>]
      /\ UNCHANGED <<peer, lists, dec, told>>

\* The next field is represented, even if the buffer is just full; the call
\* returns with what did not fit.
Represent(cells, t, odd) ==
  LET w == FirstOf(cells, enc.room)
  IN  /\ flight' = flight \o w
      /\ enc' = [enc EXCEPT !.table = t, !.rest = Tail(@), !.state = Beyond(cells, enc.room),
                            !.room = @ - Len(w),
                            !.on = Len(w) = Len(cells) /\ Len(enc.rest) > 1]
      /\ told' = [told EXCEPT !.odd = @ \/ odd]
      /\ UNCHANGED <<peer, lists, dec>>

EncodeNext ==
  LET h == Head(enc.rest)
      at == index(enc.table, h)
  IN  /\ peer = "own" /\ enc.on
      /\ \/ at.kind = "Header"
            /\ Represent(Integer("indexed", at.i), enc.table, search_header(enc.table, at.i) # h)
         \/ at.kind = "HeaderName"
            /\ Represent(IndexAndValue("indexing", at.i, h, enc.huffman), update(enc.table, h), FALSE)
         \/ at.kind = "None"
            /\ Represent(NameAndValue("indexing", h, enc.huffman), update(enc.table, h), FALSE)

\* A server may choose any of them.  An index of the static table that has no
\* value stands for an empty value in RFC 7541.
ServerNext ==
  LET h == Head(enc.rest)
      t == enc.table
      all == 1 .. NStatic + Len(t.queue)
  IN  /\ peer = "server" /\ enc.on
      /\ \/ \E i \in all : search_header(t, i) = h /\ Represent(Integer("indexed", i), t, FALSE)
         \/ \E i \in 1 .. NStatic : /\ Static[i] = <<h[1], None>> /\ h[2] = <<>>
                                    /\ Represent(Integer("indexed", i), t, TRUE)
         \/ \E kind \in {"indexing", "without", "never"} :
              LET u == IF kind = "indexing" THEN update(t, h) ELSE t
              IN  \/ Represent(NameAndValue(kind, h, enc.huffman), u, FALSE)
                  \/ \E i \in all : /\ search_header_name(t, i)[1] = h[1]
                                    /\ Represent(IndexAndValue(kind, i, h, enc.huffman), u, FALSE)

\* A server changes the size of the table at the start of a block.
ServerSizeUpdate(max) ==
  /\ peer = "server" /\ enc.begun /\ ~enc.on /\ enc.state = <<>>
  /\ enc.rest # <<>> /\ enc.rest = told.sent[Len(told.sent)] /\ flight = <<>> /\ dec.buf = <<>>
  /\ dec.lines = <<>> /\ max # enc.table.max
  /\ enc' = [enc EXCEPT !.table = update_size(@, max), !.state = Integer("size", max)]
  /\ UNCHANGED <<peer, lists, flight, dec, told>>

\* The server's SETTINGS lower the size of its table.  It takes the entries that
\* do not fit out of its own; update_max_dynamic_table_size of the encoder is
\* empty, so that the encoder goes on with the table it had.
update_max_dynamic_table_size(max) ==
  /\ peer = "own" /\ ~enc.begun /\ ~dec.failed /\ max < dec.table.max
  /\ dec' = [dec EXCEPT !.table = update_size(@, max)]
  /\ told' = [told EXCEPT !.lowered = TRUE]
  /\ UNCHANGED <<peer, lists, enc, flight>>

-----------------------------------------------------------------------------
(* HpackDecoder::decode: a turn of the loop takes the representation on by   *)
(* one state.  A buffer that ends leaves the state in the holder.            *)

\* The two ends share nothing but the bytes, so a block may be encoded before it
\* is decoded; it is decoded in any pieces.
DecodeCall(n) ==
  /\ enc.begun /\ is_finished /\ ~enc.on
  /\ ~dec.on /\ ~dec.failed /\ n \in 1 .. Len(flight)
  /\ dec' = [dec EXCEPT !.buf = SubSeq(flight, 1, n), !.on = TRUE]
  /\ flight' = Beyond(flight, n)
  /\ UNCHANGED <<peer, lists, enc, told>>

DecodeReturn ==
  /\ dec.on /\ dec.buf = <<>> /\ ~(dec.st.at = "Bytes" /\ dec.st.left = 0)
  /\ dec' = [dec EXCEPT !.on = FALSE]
  /\ UNCHANGED <<peer, lists, enc, flight, told>>

At(state) == dec.on /\ dec.buf # <<>> /\ dec.st.at = state
Cell == Head(dec.buf)
Taken == [dec EXCEPT !.buf = Tail(@)]
Become(d) == dec' = d /\ UNCHANGED <<peer, lists, enc, flight, told>>
Fail == Become([dec EXCEPT !.failed = TRUE, !.on = FALSE, !.buf = <<>>])

\* The length of a string comes next.
ExpectString(what, kind, name) == [at |-> "Length", what |-> what, kind |-> kind, name |-> name]

\* Updater: a line is counted, then kept.
Keep(d, h, table) ==
  IF d.size + SizeOf(h) > LIST_SIZE THEN Fail
  ELSE Become([d EXCEPT !.size = @ + SizeOf(h), !.lines = Append(@, h), !.table = table,
                        !.st = Start])

update_indexed(d, i) ==
  LET h == search_header(dec.table, i)
  IN  IF i = 0 \/ h = <<>> THEN Fail ELSE Keep(d, h, dec.table)

\* Index::decode once the number is known.
Indexed(d, kind, n) ==
  CASE kind = "indexed" -> update_indexed(d, n)
    [] kind = "size" -> Become([d EXCEPT !.table = update_size(@, n), !.st = Start])
    [] kind \notin {"indexed", "size"} /\ n = 0 ->
         Become([d EXCEPT !.st = ExpectString("name", kind, <<>>)])
    [] OTHER -> LET named == search_header_name(dec.table, n)
                IN  IF named = <<>> THEN Fail
                    ELSE Become([d EXCEPT !.st = ExpectString("value", kind, named[1])])

Number(kind, n, st) == [at |-> "Number", kind |-> kind, n |-> n, weight |-> 1, st |-> st]

\* Once the length is known.  Ascii- and HuffmanStringBytes need no byte for an
\* empty string.
Lengthed(d, st, n) ==
  Become([d EXCEPT !.st = [at |-> "Bytes", what |-> st.what, kind |-> st.kind,
                           name |-> st.name, left |-> n, s |-> <<>>]])

FirstByte ==
  /\ At("Index")
  /\ IF Cell[2] < Prefix[Cell[1]] THEN Indexed(Taken, Cell[1], Cell[2])
     ELSE Become([Taken EXCEPT !.st = Number(Cell[1], Cell[2], Start)])

LengthFirstByte ==
  /\ At("Length")
  /\ IF Cell[2] < Prefix[Cell[1]] THEN Lengthed(Taken, dec.st, Cell[2])
     ELSE Become([Taken EXCEPT !.st = Number(dec.st.kind, Cell[2], dec.st)])

\* IntegerDecoder::next_byte, of an index or of a length.
TrailingBytes ==
  LET n == dec.st.n + dec.st.weight * Cell[2]
  IN  /\ At("Number")
      /\ CASE n > INT_MAX -> Fail
           [] n <= INT_MAX /\ Cell[1] = "more" ->
                Become([Taken EXCEPT !.st = [dec.st EXCEPT !.n = n, !.weight = @ * BASE]])
           [] n <= INT_MAX /\ Cell[1] = "last" /\ dec.st.st.at = "Index" ->
                Indexed(Taken, dec.st.kind, n)
           [] OTHER -> Lengthed(Taken, dec.st.st, n)

\* Bug: every literal enters the table.
StringBytesIndexed ==
  LET st == dec.st
      take == IF st.left < Len(dec.buf) THEN st.left ELSE Len(dec.buf)
      s == st.s \o FlattenSeq([i \in 1 .. take |-> dec.buf[i][2]])
      d == [dec EXCEPT !.buf = Beyond(@, take)]
      h == <<st.name, s>>
  IN  /\ dec.on /\ st.at = "Bytes" /\ (dec.buf # <<>> \/ st.left = 0)
      /\ CASE take < st.left -> Become([d EXCEPT !.st = [st EXCEPT !.left = @ - take, !.s = s]])
           [] take = st.left /\ st.what = "name" ->
                Become([d EXCEPT !.st = ExpectString("value", st.kind, s)])
           [] OTHER -> Keep(d, h, update(dec.table, h))

\* AsciiStringBytes and HuffmanStringBytes; the value ends a literal.
StringBytes ==
  LET st == dec.st
      take == IF st.left < Len(dec.buf) THEN st.left ELSE Len(dec.buf)
      s == st.s \o FlattenSeq([i \in 1 .. take |-> dec.buf[i][2]])
      d == [dec EXCEPT !.buf = Beyond(@, take)]
      h == <<st.name, s>>
  IN  /\ dec.on /\ st.at = "Bytes" /\ (dec.buf # <<>> \/ st.left = 0)
      /\ CASE take < st.left -> Become([d EXCEPT !.st = [st EXCEPT !.left = @ - take, !.s = s]])
           [] take = st.left /\ st.what = "name" ->
                Become([d EXCEPT !.st = ExpectString("value", st.kind, s)])
           [] OTHER -> Keep(d, h, IF st.kind = "indexing" THEN update(dec.table, h) ELSE dec.table)

\* finish, when the frame with END_HEADERS has been decoded.
finish ==
  /\ enc.begun /\ is_finished /\ ~enc.on /\ flight = <<>> /\ ~dec.on /\ ~dec.failed
  /\ IF dec.st # Start
     THEN Fail
     ELSE /\ dec' = [dec EXCEPT !.lines = <<>>, !.size = 0]
          /\ told' = [told EXCEPT !.got = Append(@, dec.lines)]
          /\ enc' = [enc EXCEPT !.begun = FALSE]
          /\ UNCHANGED <<peer, lists, flight>>

Next ==
  \/ set_parts
  \/ \E room \in Rooms : EncodeCall(room)
  \/ EncodeNext \/ ServerNext
  \/ \E max \in Sizes : ServerSizeUpdate(max) \/ update_max_dynamic_table_size(max)
  \/ \E n \in 1 .. Len(flight) : DecodeCall(n)
  \/ DecodeReturn
  \/ FirstByte \/ LengthFirstByte \/ TrailingBytes \/ StringBytes \/ finish

-----------------------------------------------------------------------------
\* What is decoded is what was sent, block by block and field by field, in
\* however many buffers it was encoded and decoded.  For the exceptions see
\* "index" (odd) and "update_max_dynamic_table_size" (lowered).
SameBlocks == (~told.odd /\ ~told.lowered /\ ~dec.failed) => IsPrefix(told.got, told.sent)

\* A block that is legal and not longer than the list size is not refused, with
\* the same exceptions.
NoFalseFailure == dec.failed => told.odd \/ told.lowered \/ \E i \in DOMAIN told.sent : TotalOf(told.sent[i]) > LIST_SIZE

\* Between two blocks the tables of the two sides are the same, entry by entry:
\* the indexes of the next block mean the same to both - until the server lowers
\* the size of its table, which the encoder does not follow.
TablesInSync ==
  (~told.lowered /\ flight = <<>> /\ enc.state = <<>> /\ ~dec.on /\ dec.st = Start /\ ~dec.failed)
  => dec.table = enc.table

\* curr_size is the size of the entries and never above max_size: fit_size
\* neither leaks nor underflows.
SizeExact ==
  \A t \in {enc.table, dec.table} : t.size = TotalOf(t.queue) /\ t.size <= t.max
=============================================================================
