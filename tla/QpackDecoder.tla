---------------------------- MODULE QpackDecoder ----------------------------
(* QpackDecoder (ylong_http/src/h3/qpack/decoder.rs and format/decoder.rs)   *)
(* against a server's encoder.  Instructions come on the encoder stream and  *)
(* field sections on request streams, each in order, in pieces of any length *)
(* and in any order between the streams.  A byte is a cell <<kind, value>>,  *)
(* numbers take one byte; a field is <<name, value>>, sequences of letters.  *)
EXTENDS Integers, Sequences, SequencesExt, FiniteSets, FiniteSetsExt

CONSTANTS
  Streams, Static,
  MAX_CAPACITY,    \* max_table_capacity of the decoder
  Capacities,      \* what a server may set
  ENTRY,           \* 32: what an entry counts beyond its letters
  MAX_BLOCKED,     \* max_blocked_streams
  SECTION_SIZE,    \* max_field_section_size
  Fields,          \* fields a server inserts
  Lists,           \* field lists a server sends, by stream
  Pieces,          \* lengths of what a read hands on, if it is not all there is
  MAX_CUTS,        \* bound of the model: how often that happens
  MAX_INSERTS      \* bound of the model

VARIABLES
  server,          \* the server's encoder
  instStream,      \* its instructions on their way
  wire,            \* and the sections, by stream
  dec,             \* QpackDecoder
  call,            \* the call of decode_repr or decode_ins that is going on
  seen             \* what was finished, and where the decoder loses its way

Size(h) == Len(h[1]) + Len(h[2]) + ENTRY
SumOf(q) ==
  LET sum[i \in 0 .. Len(q)] == IF i = 0 THEN 0 ELSE sum[i - 1] + Size(q[i]) IN sum[Len(q)]
None == [none |-> TRUE]
NoCall == [at |-> "none"]
Least(a, b) == IF a < b THEN a ELSE b

\* ReprMessage::new.
NewMessage == [ric |-> 0, base |-> 0, state |-> None, remaining |-> <<>>, lines |-> <<>>, size |-> 0]

Init ==
  /\ server = [queue |-> <<>>, removed |-> 0, cap |-> 0, lists |-> [s \in Streams |-> <<>>],
               sent |-> {}]
  /\ instStream = <<>>
  /\ wire = [s \in Streams |-> <<>>]
  /\ dec = [queue |-> <<>>, removed |-> 0, cap |-> 0, inst |-> <<>>,
            streams |-> [s \in {} |-> None], blocked |-> [s \in {} |-> 0], failed |-> FALSE]
  /\ call = NoCall
  /\ seen = [done |-> [s \in {} |-> <<>>], acks |-> <<>>, unblocked |-> <<>>, cut |-> {},
             waited |-> {}, cuts |-> 0]

-----------------------------------------------------------------------------
(* The server's encoder, as RFC 9204 has it.                                 *)

ServerInserts == server.removed + Len(server.queue)
Entry(t, i) == t.queue[i - t.removed + 1]
Within(t, i) == i - t.removed + 1 \in DOMAIN t.queue

ServerSetCap(cap) ==
  /\ call = NoCall /\ server.cap = 0
  /\ server' = [server EXCEPT !.cap = cap]
  /\ instStream' = Append(instStream, <<"setcap", cap>>)
  /\ UNCHANGED <<wire, dec, call, seen>>

\* StaticTable: the field, and the name, of an index.
field(i) == Static[i]
field_name(i) == Static[i][1]

Octets(s) == [i \in DOMAIN s |-> <<"octet", s[i]>>]
ValueCells(h) == << <<"length", Len(h[2])>> >> \o Octets(h[2])

\* An instruction for an insertion, by reference or as a literal.
InsertCells(h) ==
  {<< <<"insertliteral", Len(h[1])>> >> \o Octets(h[1]) \o ValueCells(h)}
  \cup {<< <<"insertstatic", i>> >> \o ValueCells(h) : i \in {j \in DOMAIN Static : field_name(j) = h[1]}}
  \cup {<< <<"insertdynamic", Len(server.queue) - i>> >> \o ValueCells(h) :
          i \in {j \in DOMAIN server.queue : server.queue[j][1] = h[1]}}
  \cup {<< <<"duplicate", Len(server.queue) - i>> >> : i \in {j \in DOMAIN server.queue : server.queue[j] = h}}

\* Entries that no section waits for make room.
ServerInsert(h, cells) ==
  LET drop == {n \in 0 .. Len(server.queue) :
                 SumOf(SubSeq(server.queue, n + 1, Len(server.queue))) + Size(h) <= server.cap}
  IN  /\ drop # {}
      /\ Min(drop) = 0 \/ (server.sent = {} /\ instStream = <<>>)
      /\ server' = [server EXCEPT !.queue = Append(SubSeq(@, Min(drop) + 1, Len(@)), h),
                                  !.removed = @ + Min(drop)]
      /\ instStream' = instStream \o cells
      /\ UNCHANGED <<wire, dec, call, seen>>

\* A line of a section that starts at base, and what it refers to.
LinesFor(h, base) ==
  {[cells |-> << <<"static", i>> >>, ref |-> -1] : i \in {j \in DOMAIN Static : field(j) = h}}
  \cup {[cells |-> << <<"literal", Len(h[1])>> >> \o Octets(h[1]) \o ValueCells(h), ref |-> -1]}
  \cup {[cells |-> << <<"namedstatic", i>> >> \o ValueCells(h), ref |-> -1] :
          i \in {j \in DOMAIN Static : field_name(j) = h[1]}}
  \cup UNION {
     {[cells |-> << IF i < base THEN <<"dynamic", base - i - 1>> ELSE <<"post", i - base>> >>, ref |-> i]}
     : i \in {j \in server.removed .. ServerInserts - 1 : Entry(server, j) = h}}
  \cup UNION {
     {[cells |-> << IF i < base THEN <<"named", base - i - 1>> ELSE <<"postnamed", i - base>> >>
                 \o ValueCells(h), ref |-> i]}
     : i \in {j \in server.removed .. ServerInserts - 1 : Entry(server, j)[1] = h[1]}}

Joined(lines) ==
  LET upto[i \in 0 .. Len(lines)] == IF i = 0 THEN <<>> ELSE upto[i - 1] \o lines[i].cells
  IN  upto[Len(lines)]

\* The required insert count is sent modulo twice the most entries there can be.
ServerSection(s, list, base, lines) ==
  LET refs == {lines[i].ref : i \in DOMAIN lines} \ {-1}
      ric == IF refs = {} THEN 0 ELSE Max(refs) + 1
      coded == IF ric = 0 THEN 0 ELSE (ric % (2 * (MAX_CAPACITY \div ENTRY))) + 1
      sign == IF ric = 0 \/ base >= ric THEN <<"plus", IF ric = 0 THEN 0 ELSE base - ric>>
              ELSE <<"minus", ric - base - 1>>
  IN  /\ ric = 0 => base = ServerInserts
      /\ server' = [server EXCEPT !.lists[s] = list, !.sent = @ \cup {s}]
      /\ wire' = [wire EXCEPT ![s] = << <<"ric", coded>>, sign>>
                                     \o Joined(lines)]
      /\ UNCHANGED <<instStream, dec, call, seen>>

-----------------------------------------------------------------------------
(* The dynamic table of the decoder.                                         *)

insert_count == dec.removed + Len(dec.queue)

max_entries == dec.cap \div ENTRY

\* fit_size, which only update_size calls: an insertion evicts nothing.
Fitted(queue, cap) ==
  LET gone == Min({n \in 0 .. Len(queue) :
                     n = Len(queue) \/ SumOf(SubSeq(queue, n + 1, Len(queue))) <= cap})
  IN  gone
update_size(cap) ==
  LET gone == Fitted(dec.queue, cap)
  IN  [dec EXCEPT !.cap = cap, !.removed = @ + gone, !.queue = SubSeq(@, gone + 1, Len(@))]
update(h) == [dec EXCEPT !.queue = Append(@, h)]

-----------------------------------------------------------------------------
(* decode_ins.  What is kept of an instruction is the name it has read: one  *)
(* whose value is not complete is an error.                                  *)

Refuse == /\ dec' = [dec EXCEPT !.failed = TRUE]
          /\ call' = NoCall
          /\ UNCHANGED <<server, instStream, wire, seen>>

DecodeIns(n) ==
  /\ call = NoCall /\ ~dec.failed /\ n \in 1 .. Len(instStream)
  /\ call' = [at |-> "ins", buf |-> dec.inst \o SubSeq(instStream, 1, n)]
  /\ dec' = [dec EXCEPT !.inst = <<>>]
  /\ instStream' = SubSeq(instStream, n + 1, Len(instStream))
  /\ n < Len(instStream) => seen.cuts < MAX_CUTS
  /\ seen' = [seen EXCEPT !.cuts = IF n < Len(instStream) THEN @ + 1 ELSE @]
  /\ UNCHANGED <<server, wire>>

\* A string after k cells: where it ends, or 0.
EndOfString(buf, k, n) == IF k + n <= Len(buf) THEN k + n ELSE 0
EndOfValue(buf, k) == IF Len(buf) <= k THEN 0 ELSE EndOfString(buf, k + 1, buf[k + 1][2])
Letters(buf, from, to) == [i \in 1 .. to - from + 1 |-> buf[from + i - 1][2]]
ValueAt(buf, k) == Letters(buf, k + 2, EndOfValue(buf, k))

\* The name is there when the value begins.
ValueFrom(buf) == IF Head(buf)[1] \in {"insertliteral", "literal"} THEN 1 + Head(buf)[2] ELSE 1

Executed(d, n) ==
  /\ dec' = d
  /\ call' = [call EXCEPT !.buf = SubSeq(@, n + 1, Len(@))]
  /\ UNCHANGED <<server, instStream, wire, seen>>

SetCap ==
  LET c == Head(call.buf)
  IN  /\ call.at = "ins" /\ call.buf # <<>> /\ c[1] = "setcap"
      /\ IF c[2] > MAX_CAPACITY THEN Refuse ELSE Executed(update_size(c[2]), 1)

duplicate ==
  LET c == Head(call.buf)
      i == insert_count - c[2] - 1
  IN  /\ call.at = "ins" /\ call.buf # <<>> /\ c[1] = "duplicate"
      /\ IF Within(dec, i) THEN Executed(update(Entry(dec, i)), 1) ELSE Refuse

update_table ==
  LET c == Head(call.buf)
      i == insert_count - c[2] - 1
      k == ValueFrom(call.buf)
      name == CASE c[1] = "insertliteral" -> Letters(call.buf, 2, k)
                [] c[1] = "insertstatic" -> field_name(c[2])
                [] OTHER -> Entry(dec, i)[1]
      end == EndOfValue(call.buf, k)
  IN  /\ call.at = "ins" /\ call.buf # <<>>
      /\ c[1] \in {"insertliteral", "insertstatic", "insertdynamic"}
      /\ IF c[1] = "insertliteral" /\ Len(call.buf) < k
         THEN \* the name goes on in the next piece
              /\ dec' = [dec EXCEPT !.inst = call.buf]
              /\ call' = [call EXCEPT !.buf = <<>>]
              /\ UNCHANGED <<server, instStream, wire, seen>>
         ELSE IF end = 0
         THEN /\ dec' = [dec EXCEPT !.failed = TRUE]
              /\ call' = NoCall
              /\ seen' = [seen EXCEPT !.cut = @ \cup {0}]
              /\ UNCHANGED <<server, instStream, wire>>
         ELSE IF c[1] = "insertdynamic" /\ ~Within(dec, i) THEN Refuse
         ELSE Executed(update(<<name, ValueAt(call.buf, k)>>), end)

\* The streams that need no more insertions are reported and leave the map.
InsReturn ==
  LET free == {s \in DOMAIN dec.blocked : dec.blocked[s] <= insert_count}
  IN  /\ call.at = "ins" /\ call.buf = <<>>
      /\ dec' = [dec EXCEPT !.blocked = [s \in DOMAIN @ \ free |-> @[s]]]
      /\ seen' = [seen EXCEPT !.unblocked = @ \o SetToSeq(free)]
      /\ call' = NoCall
      /\ UNCHANGED <<server, instStream, wire>>

-----------------------------------------------------------------------------
(* decode_repr: what a stream had to leave when it was blocked, then the new *)
(* piece.  Each of the two starts with a base of 0.                          *)

MessageOf(s) == IF s \in DOMAIN dec.streams THEN dec.streams[s] ELSE NewMessage
Without(f, s) == [x \in DOMAIN f \ {s} |-> f[x]]
With(f, s, v) == [x \in DOMAIN f \cup {s} |-> IF x = s THEN v ELSE f[x]]

DecodeRepr(s, n) ==
  LET m == MessageOf(s)
      piece == SubSeq(wire[s], 1, n)
  IN  /\ call = NoCall /\ ~dec.failed /\ s \notin DOMAIN dec.blocked
      /\ n \in 1 .. Len(wire[s]) \/ (n = 0 /\ m.remaining # <<>>)
      /\ wire' = [wire EXCEPT ![s] = SubSeq(@, n + 1, Len(@))]
      /\ dec' = [dec EXCEPT !.streams = Without(@, s)]
      /\ call' = [at |-> "repr", s |-> s, m |-> [m EXCEPT !.remaining = <<>>], base |-> 0,
                  buf |-> IF m.remaining # <<>> THEN m.remaining ELSE piece,
                  then |-> IF m.remaining # <<>> THEN piece ELSE <<>>]
      /\ n \in 1 .. Len(wire[s]) - 1 => seen.cuts < MAX_CUTS
      /\ seen' = [seen EXCEPT !.cut = IF n < Len(wire[s]) \/ m # NewMessage THEN @ \cup {s} ELSE @,
                              !.cuts = IF n \in 1 .. Len(wire[s]) - 1 THEN @ + 1 ELSE @]
      /\ UNCHANGED <<server, instStream>>

InRepr == call.at = "repr" /\ call.buf # <<>>
InPrefix == [prefix |-> TRUE]
AtPrefix == call.m.state \in {None, InPrefix}
Line == IF AtPrefix THEN call.buf ELSE call.m.state.cells \o call.buf

\* A representation has been decoded.  At the end of the buffer nothing is kept,
\* so that the next piece is read from a prefix on.
After(m, n, base) ==
  LET rest == SubSeq(Line, n + 1, Len(Line))
  IN  call' = [call EXCEPT !.buf = rest, !.base = base,
                           !.m = [m EXCEPT !.state = IF rest = <<>> THEN None ELSE [cells |-> <<>>]]]

\* From one piece of the input to the next, and back to the caller.
ReprReturn ==
  /\ call.at = "repr" /\ call.buf = <<>>
  /\ IF call.then # <<>>
     THEN /\ call' = [call EXCEPT !.buf = call.then, !.then = <<>>, !.base = 0]
          /\ UNCHANGED dec
     ELSE /\ dec' = [dec EXCEPT !.streams = With(@, call.s, call.m)]
          /\ call' = NoCall
  /\ UNCHANGED <<server, instStream, wire, seen>>

\* The required insert count from what was sent of it.
Wrapped(coded) ==
  LET full == 2 * max_entries
      most == insert_count + max_entries
      ric == (most \div full) * full + coded - 1
  IN  IF ric > most THEN ric - full ELSE ric

\* FiledSectionPrefix; it needs a byte after its last one, and keeps nothing of
\* a part of it.
FieldSectionPrefix ==
  LET coded == call.buf[1][2]
      full == 2 * max_entries
      ric == IF coded = 0 THEN 0 ELSE Wrapped(coded)
      base == IF call.buf[2][1] = "minus" THEN ric - call.buf[2][2] - 1 ELSE ric + call.buf[2][2]
      m == [call.m EXCEPT !.ric = ric, !.base = base]
  IN  /\ InRepr /\ AtPrefix /\ Len(call.buf) > 2 /\ call.buf[1][1] = "ric"
      /\ IF coded > full \/ (coded # 0 /\ ric <= 0) THEN Refuse
         ELSE IF ric > insert_count
         THEN IF Cardinality(DOMAIN dec.blocked) > MAX_BLOCKED THEN Refuse
              ELSE /\ dec' = [dec EXCEPT
                        !.blocked = With(@, call.s, ric),
                        !.streams = With(@, call.s,
                           [m EXCEPT !.remaining = SubSeq(call.buf, 3, Len(call.buf)),
                                     !.state = [cells |-> <<>>]])]
                   /\ call' = NoCall
                   /\ seen' = [seen EXCEPT !.waited = @ \cup {call.s}]
                   /\ UNCHANGED <<server, instStream, wire>>
         ELSE /\ After(m, 2, base)
              /\ UNCHANGED <<server, instStream, wire, dec, seen>>

PrefixNeedsMore ==
  /\ InRepr /\ AtPrefix /\ Len(call.buf) <= 2
  /\ call' = [call EXCEPT !.buf = <<>>, !.m.state = InPrefix]
  /\ UNCHANGED <<server, instStream, wire, dec, seen>>

\* A later byte taken for a prefix: what comes of it is not modelled.
OutOfStep ==
  /\ InRepr /\ AtPrefix /\ Len(call.buf) > 2 /\ call.buf[1][1] # "ric"
  /\ Refuse

\* Searcher: an indexed line of the static table or below the base is not
\* counted, the others are.
Found(h, n, counted) ==
  LET size == IF counted THEN call.m.size + Size(h) ELSE call.m.size
  IN  IF size > SECTION_SIZE THEN Refuse
      ELSE /\ After([call.m EXCEPT !.lines = Append(@, h), !.size = size], n, call.base)
           /\ UNCHANGED <<server, instStream, wire, dec, seen>>

InLine == InRepr /\ ~AtPrefix
Kind == Head(Line)[1]
Index == Head(Line)[2]
Target == IF Kind \in {"dynamic", "named"} THEN call.base - Index - 1 ELSE call.base + Index

search_indexed ==
  /\ InLine
  /\ \/ Kind = "static" /\ Found(field(Index), 1, FALSE)
     \/ Kind = "dynamic" /\ Within(dec, Target) /\ Found(Entry(dec, Target), 1, FALSE)
     \/ Kind = "dynamic" /\ ~Within(dec, Target) /\ Refuse

search_post_indexed ==
  /\ InLine /\ Kind = "post"
  /\ IF Within(dec, Target) THEN Found(Entry(dec, Target), 1, TRUE) ELSE Refuse

search_literal ==
  LET k == ValueFrom(Line)
      end == IF Len(Line) < k THEN 0 ELSE EndOfValue(Line, k)
      name == CASE Kind = "literal" -> Letters(Line, 2, k)
                [] Kind = "namedstatic" -> field_name(Index)
                [] OTHER -> Entry(dec, Target)[1]
  IN  /\ InLine /\ Kind \in {"literal", "namedstatic", "named", "postnamed"}
      /\ IF end = 0
         THEN /\ call' = [call EXCEPT !.buf = <<>>, !.m.state = [cells |-> Line]]
              /\ UNCHANGED <<server, instStream, wire, dec, seen>>
         ELSE IF Kind \in {"named", "postnamed"} /\ ~Within(dec, Target) THEN Refuse
         ELSE Found(<<name, ValueAt(Line, k)>>, end, TRUE)

\* finish, once the payload of the frame has been decoded: the section is
\* acknowledged if it needs insertions.
finish(s) ==
  /\ call = NoCall /\ ~dec.failed /\ s \in DOMAIN dec.streams \ DOMAIN dec.blocked
  /\ wire[s] = <<>> /\ dec.streams[s].remaining = <<>>
  /\ LET m == dec.streams[s]
     IN  IF m.state # None
         THEN /\ dec' = [dec EXCEPT !.failed = TRUE]
              /\ UNCHANGED <<server, instStream, wire, call, seen>>
         ELSE /\ dec' = [dec EXCEPT !.streams = Without(@, s)]
              /\ seen' = [seen EXCEPT !.done = With(@, s, m.lines),
                                      !.acks = IF m.ric > 0 THEN Append(@, s) ELSE @]
              /\ server' = [server EXCEPT !.sent = @ \ {s}]
              /\ UNCHANGED <<instStream, wire, call>>

\* stream_cancel, while there is a table.
stream_cancel(s) ==
  /\ call = NoCall /\ ~dec.failed /\ s \in server.sent /\ s \notin DOMAIN seen.done /\ dec.cap > 0
  /\ dec' = [dec EXCEPT !.blocked = Without(@, s), !.streams = Without(@, s)]
  /\ wire' = [wire EXCEPT ![s] = <<>>]
  /\ server' = [server EXCEPT !.sent = @ \ {s}]
  /\ seen' = [seen EXCEPT !.waited = @ \ {s}]
  /\ UNCHANGED <<instStream, call>>

\* What a server may send next; it goes on while the decoder is not in a call.
Unsent == IF call = NoCall THEN {s \in Streams : server.lists[s] = <<>>} ELSE {}
Insertable == IF call = NoCall /\ ServerInserts < MAX_INSERTS /\ server.cap > 0 THEN Fields ELSE {}

Next ==
  \/ \E cap \in Capacities : ServerSetCap(cap)
  \/ \E h \in Insertable : \E cells \in InsertCells(h) : ServerInsert(h, cells)
  \/ \E s \in Unsent : \E list \in Lists[s], base \in {0, ServerInserts} :
       \E lines \in {f \in [DOMAIN list -> UNION {LinesFor(list[i], base) : i \in DOMAIN list}] :
                       \A i \in DOMAIN list : f[i] \in LinesFor(list[i], base)} :
         ServerSection(s, list, base, lines)
  \/ \E n \in Pieces \cup {Len(instStream)} : DecodeIns(n)
  \/ SetCap \/ duplicate \/ update_table \/ InsReturn
  \/ \E s \in Streams : \E n \in Pieces \cup {0, Len(wire[s])} : DecodeRepr(s, n)
  \/ ReprReturn \/ FieldSectionPrefix \/ PrefixNeedsMore \/ OutOfStep
  \/ search_indexed \/ search_post_indexed \/ search_literal
  \/ \E s \in Streams : finish(s) \/ stream_cancel(s)

-----------------------------------------------------------------------------
\* A section that came in one piece and did not have to wait is decoded to the
\* fields that were sent, whichever lines the server chose and however far its
\* insertions were ahead.
SectionsRight ==
  \A s \in DOMAIN seen.done :
    s \notin seen.cut \cup seen.waited => seen.done[s] = server.lists[s]

\* The decoder refuses nothing that a server may send, as long as no literal
\* instruction and no section is cut in pieces (cut) or had to wait (waited) and
\* the capacity has been set to the largest there is (max_entries goes by the
\* current one); sections may be too long.
NoFalseRefusal ==
  dec.failed => \/ seen.cut # {} \/ seen.waited # {} \/ dec.cap # MAX_CAPACITY
                \/ \E s \in Streams : SumOf(server.lists[s]) > SECTION_SIZE
                \/ \E s \in Streams : server.lists[s] = <<>> /\ s \in server.sent

\* A stream that waits is waiting for an insertion that has not been made, and
\* one that has waited and waits no more has been reported: none is forgotten.
WaitsForReason ==
  call = NoCall =>
    /\ \A s \in DOMAIN dec.blocked : dec.blocked[s] > insert_count
    /\ \A s \in seen.waited : s \in DOMAIN dec.blocked \/ Contains(seen.unblocked, s)
=============================================================================
