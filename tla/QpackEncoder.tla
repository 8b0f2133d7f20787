---------------------------- MODULE QpackEncoder ----------------------------
(* QpackEncoder (ylong_http/src/h3/qpack/encoder.rs, table.rs and            *)
(* format/encoder.rs) against a server's decoder.  Instructions, sections and *)
(* the server's acknowledgements travel on streams of their own, so that each *)
(* may be late.  Instructions and lines are records; a field is a pair of a   *)
(* name and a value, whose letters only count for its size.                   *)
EXTENDS Integers, Sequences, SequencesExt, FiniteSets, FiniteSetsExt

CONSTANTS
  Requests,        \* by stream, the fields of its request
  Static,
  SizeOf(_),       \* of a field in the table
  Framed,          \* names whose coded length is their length, and below 7
  ENTRY,           \* 32
  Capacities,      \* of a server's SETTINGS
  Blocked          \* its blocked streams

VARIABLES
  enc,             \* QpackEncoder with its DynamicTable
  cur,             \* the call of encode that is going on
  inst, sections,  \* to the server
  back,            \* decoder instructions on their way back
  srv, odd         \* the server's decoder; what was sent that it cannot read

Streams == DOMAIN Requests
NoCall == [none |-> TRUE]
NotYet == [none |-> TRUE]

Init ==
  /\ enc = [queue |-> <<>>, removed |-> 0, used |-> 0, cap |-> 0, toUpdate |-> -1, known |-> 0,
            blocked |-> 0, maxBlocked |-> 0, unacked |-> [s \in {} |-> {}], panic |-> FALSE,
            miscounted |-> FALSE, sent |-> {}, failed |-> FALSE]
  /\ cur = NoCall /\ inst = <<>> /\ back = <<>>
  /\ sections = [s \in Streams |-> NotYet]
  /\ srv = [queue |-> <<>>, removed |-> 0, cap |-> 0, max |-> -1, told |-> 0, lists |-> [s \in {} |-> <<>>],
            cancelled |-> {}, dead |-> FALSE]
  /\ odd = {}

-----------------------------------------------------------------------------
(* The dynamic table.                                                        *)

insert_count(t) == t.removed + Len(t.queue)
max_entries(cap) == cap \div ENTRY
Within(t, i) == i - t.removed + 1 \in DOMAIN t.queue
Without(f, s) == [x \in DOMAIN f \ {s} |-> f[x]]
With(f, s, v) == [x \in DOMAIN f \cup {s} |-> IF x = s THEN v ELSE f[x]]

\* can_evict: how many times the size of the front entry has to go, -1 if it
\* may not.  The loop looks at the front entry again and again, whatever the
\* sizes of the entries behind it and whoever refers to them.
Times(over, size) == (over + size - 1) \div size
can_evict(t, required) ==
  IF required > t.cap THEN -1
  ELSE IF t.queue = <<>> \/ t.used <= t.cap - required THEN 0
  ELSE IF Head(t.queue).tracked > 0 \/ t.removed > t.known THEN -1
  ELSE Times(t.used - (t.cap - required), SizeOf(Head(t.queue).h))
\* The loop subtracts more than is used.
Underflows(t, n) == n > 0 /\ n * SizeOf(Head(t.queue).h) > t.used

SumOf(q) == LET sum[i \in 0 .. Len(q)] == IF i = 0 THEN 0 ELSE sum[i - 1] + SizeOf(q[i].h)
            IN  sum[Len(q)]

\* For the properties: n entries are not what has to go for the room that is
\* required, or one of them may not go.
Miscounts(t, required, n) ==
  LET enough == {m \in 0 .. Len(t.queue) : t.used - SumOf(SubSeq(t.queue, 1, m)) + required <= t.cap}
  IN  n # Min(enough) \/ \E i \in 1 .. n : t.queue[i].tracked > 0 \/ t.removed + i - 1 > t.known

\* evict_drained, which panics when there are not so many.
evict_drained(t, n) ==
  IF n > Len(t.queue) \/ Underflows(t, n) THEN [t EXCEPT !.panic = TRUE]
  ELSE [t EXCEPT !.queue = SubSeq(@, n + 1, Len(@)), !.removed = @ + n,
                 !.used = @ - SumOf(SubSeq(t.queue, 1, n))]

update(t, h) == [t EXCEPT !.queue = Append(@, [h |-> h, tracked |-> 0]), !.used = @ + SizeOf(h)]

Track(t, i, n) == [t EXCEPT !.queue[i - t.removed + 1].tracked = @ + n]
track_field(t, i) == Track(t, i, 1)
\* untracked_field of an entry that is gone, or that nobody tracks, panics.
untracked_field(t, i) ==
  IF Within(t, i) /\ t.queue[i - t.removed + 1].tracked > 0 THEN Track(t, i, -1)
  ELSE [t EXCEPT !.panic = TRUE]
UntrackAll(t, refs) == FoldSet(LAMBDA i, u : untracked_field(u, i), t, refs)

\* TableSearcher: the newest entry with this name, full match or not, up to the
\* first that may not be used.
index(t, h, allow) ==
  LET usable == {i \in DOMAIN t.queue : allow \/ \A j \in 1 .. i : t.removed + j - 1 <= t.known}
      same == {i \in usable : t.queue[i].h[1] = h[1]}
  IN  IF same = {} THEN [at |-> "none"]
      ELSE [at |-> IF t.queue[Max(same)].h = h THEN "dynamic" ELSE "dynamicname",
            i |-> t.removed + Max(same) - 1]
\* StaticTable::index: a full match, or else the first entry with the name.
static_index(h) ==
  LET exact == {i \in DOMAIN Static : Static[i] = h}
      named == {i \in DOMAIN Static : Static[i][1] = h[1]}
  IN  IF exact # {} THEN [at |-> "static", i |-> Min(exact)]
      ELSE IF named # {} THEN [at |-> "staticname", i |-> Min(named)]
      ELSE [at |-> "none"]
search_filed_from_table(t, h, allow) ==
  LET found == static_index(h)
      dyn == index(t, h, allow)
  IN  IF found.at = "static" \/ (found.at = "staticname" /\ dyn.at # "dynamic") THEN found ELSE dyn

-----------------------------------------------------------------------------
(* encode, with update_max_dynamic_table_cap in front: a field at a time.    *)

\* The server's SETTINGS reach the encoder.
Settings(cap, n) ==
  /\ srv.max = -1 /\ cur = NoCall
  /\ enc' = [enc EXCEPT !.toUpdate = cap, !.maxBlocked = n]
  /\ srv' = [srv EXCEPT !.max = cap]
  /\ UNCHANGED <<cur, inst, sections, back, odd>>

IsBlocked(t, s) == s \in DOMAIN t.unacked /\ \E i \in t.unacked[s] : i > t.known
\* Bug: one stream more.
reach_max_blockedLate(t) == t.blocked > t.maxBlocked

reach_max_blocked(t) == t.blocked >= t.maxBlocked

EncodeCall(s) ==
  /\ cur = NoCall /\ ~enc.panic /\ ~enc.failed /\ s \notin enc.sent
  /\ enc' = [enc EXCEPT !.cap = IF enc.toUpdate >= 0 THEN enc.toUpdate ELSE @, !.toUpdate = -1,
                        !.sent = @ \cup {s}]
  /\ cur' = [s |-> s, base |-> insert_count(enc), rest |-> Requests[s], refs |-> {}, max |-> 0,
             lines |-> <<>>, allow |-> IsBlocked(enc, s) \/ ~reach_max_blocked(enc)]
  /\ inst' = IF enc.toUpdate >= 0 THEN Append(inst, [op |-> "setcap", cap |-> enc.toUpdate]) ELSE inst
  /\ UNCHANGED <<sections, back, srv, odd>>

Encoding == cur # NoCall /\ ~enc.panic /\ cur.rest # <<>>
Field == Head(cur.rest)
Relative(i) == IF i >= cur.base THEN [op |-> "post", i |-> i - cur.base]
               ELSE [op |-> "dynamic", i |-> cur.base - i - 1]

\* A line has been written, with or without a reference.
Wrote(line, refs) ==
  cur' = [cur EXCEPT !.rest = Tail(@), !.lines = Append(@, line), !.refs = @ \cup refs,
                     !.max = Max({@} \cup refs)]

EncodeStatic ==
  /\ Encoding
  /\ \E r \in {search_filed_from_table(enc, Field, cur.allow)} :
       /\ r.at \in {"static", "staticname"}
       /\ Wrote([op |-> r.at, i |-> r.i, value |-> Field[2]], {})
  /\ UNCHANGED <<enc, inst, sections, back, srv, odd>>

\* A name below the base is written as an insertion would be: no line.
EncodeDynamic ==
  /\ Encoding
  /\ \E r \in {search_filed_from_table(enc, Field, cur.allow)} :
       /\ r.at \in {"dynamic", "dynamicname"}
       /\ enc' = IF r.i \in cur.refs THEN enc ELSE track_field(enc, r.i)
       /\ Wrote(IF r.at = "dynamic" THEN Relative(r.i)
                ELSE [op |-> "postname", i |-> r.i - cur.base, value |-> Field[2]], {r.i})
       /\ odd' = IF r.at = "dynamicname" /\ r.i < cur.base THEN odd \cup {"name"} ELSE odd
  /\ UNCHANGED <<inst, sections, back, srv>>

LiteralLine == [op |-> "literal", h |-> Field]
OddLiteral == IF Field[1] \in Framed THEN {} ELSE {"frame"}

EncodeLiteral ==
  /\ Encoding /\ ~cur.allow
  /\ search_filed_from_table(enc, Field, cur.allow).at = "none"
  /\ Wrote(LiteralLine, {})
  /\ odd' = odd \cup OddLiteral
  /\ UNCHANGED <<enc, inst, sections, back, srv>>

\* add_field_to_dynamic.  Without room a literal line goes to the encoder
\* stream, and another into the section.
add_field_to_dynamic ==
  LET n == can_evict(enc, SizeOf(Field))
      i == insert_count(enc)
  IN  /\ Encoding /\ cur.allow
      /\ search_filed_from_table(enc, Field, cur.allow).at = "none"
      /\ IF n >= 0
         THEN \E t \in {evict_drained([enc EXCEPT !.miscounted = @ \/ Miscounts(enc, SizeOf(Field), n)], n)} :
                /\ enc' = IF t.panic THEN t ELSE track_field(update(t, Field), i)
                /\ inst' = Append(inst, [op |-> "insert", h |-> Field])
                /\ Wrote(Relative(i), {i})
                /\ odd' = odd \cup OddLiteral
         ELSE /\ Wrote(LiteralLine, {})
              /\ odd' = odd \cup OddLiteral \cup {"stray"}
              /\ UNCHANGED <<enc, inst>>
      /\ UNCHANGED <<sections, back, srv>>

\* get_prefix: entry 0 counts as no reference at all.
get_prefix ==
  IF cur.max = 0 THEN [ric |-> 0, sign |-> "plus", delta |-> 0]
  ELSE LET ric == cur.max + 1
           coded == (ric % (2 * max_entries(enc.cap))) + 1
       IN  IF cur.base >= ric THEN [ric |-> coded, sign |-> "plus", delta |-> cur.base - ric]
           ELSE [ric |-> coded, sign |-> "minus", delta |-> ric - cur.base - 1]

EncodeReturn ==
  /\ cur # NoCall /\ ~enc.panic /\ cur.rest = <<>>
  /\ sections' = [sections EXCEPT ![cur.s] = [prefix |-> get_prefix, lines |-> cur.lines]]
  /\ enc' = [enc EXCEPT !.blocked = IF cur.max > enc.known THEN @ + 1 ELSE @,
                        !.unacked = IF cur.refs # {} THEN With(@, cur.s, cur.refs) ELSE @]
  /\ odd' = IF cur.refs = {0} THEN odd \cup {"zero"} ELSE odd
  /\ cur' = NoCall
  /\ UNCHANGED <<inst, back, srv>>

-----------------------------------------------------------------------------
(* decode_ins: what the server says.                                         *)

\* increase_known_receive_count, whose assertion is KnownBelowInserted below,
\* and update_blocked_stream.
increase_insert_count(t, n) ==
  LET u == [t EXCEPT !.known = @ + n - 1]
  IN  [u EXCEPT !.blocked = Cardinality({s \in DOMAIN u.unacked : IsBlocked(u, s)})]

\* The indices of a section come in the order of a hash set; each above what is
\* known so far adds one.
Orders(S) == {f \in [1 .. Cardinality(S) -> S] : \A i, j \in DOMAIN f : i # j => f[i] # f[j]}
KnownAfter(order) ==
  LET k[i \in 0 .. Len(order)] ==
        IF i = 0 THEN enc.known ELSE IF order[i] > k[i - 1] THEN k[i - 1] + 1 ELSE k[i - 1]
  IN  k[Len(order)]

Answer(op) == ~enc.panic /\ ~enc.failed /\ cur = NoCall /\ back # <<>> /\ Head(back).op = op

ack ==
  /\ Answer("ack")
  /\ LET s == Head(back).s
     IN  IF s \notin DOMAIN enc.unacked THEN UNCHANGED enc
         ELSE \E order \in Orders(enc.unacked[s]) :
                LET t == [UntrackAll(enc, enc.unacked[s]) EXCEPT !.unacked = Without(@, s)]
                    n == KnownAfter(order) - enc.known
                IN  enc' = IF n > 0 THEN increase_insert_count(t, n) ELSE t
  /\ back' = Tail(back)
  /\ UNCHANGED <<cur, inst, sections, srv, odd>>

cancel_stream ==
  /\ Answer("cancel")
  /\ LET s == Head(back).s
     IN  enc' = IF s \notin DOMAIN enc.unacked THEN enc
                ELSE [UntrackAll(enc, enc.unacked[s]) EXCEPT
                        !.unacked = Without(@, s),
                        !.blocked = IF IsBlocked(enc, s) THEN @ - 1 ELSE @]
  /\ back' = Tail(back)
  /\ UNCHANGED <<cur, inst, sections, srv, odd>>

InsertCountIncrement ==
  /\ Answer("increment")
  /\ enc' = increase_insert_count(enc, Head(back).n)
  /\ back' = Tail(back)
  /\ UNCHANGED <<cur, inst, sections, srv, odd>>

\* finish_stream, when the response is complete: a section that has not been
\* acknowledged by then ends the connection.
finish_stream(s) ==
  /\ cur = NoCall /\ ~enc.failed /\ s \in DOMAIN srv.lists \cap DOMAIN enc.unacked
  /\ enc' = [enc EXCEPT !.failed = TRUE]
  /\ UNCHANGED <<cur, inst, sections, back, srv, odd>>

-----------------------------------------------------------------------------
(* The server's decoder, as RFC 9204 has it; it stops at what it cannot read. *)

ServerUp == ~srv.dead /\ odd = {} /\ ~enc.panic /\ cur = NoCall

ServerInstruction ==
  LET c == Head(inst)
      room == {n \in 0 .. Len(srv.queue) :
                 SumOf([i \in 1 .. Len(srv.queue) - n |-> [h |-> srv.queue[n + i]]]) + SizeOf(c.h) <= srv.cap}
  IN  /\ ServerUp /\ inst # <<>>
      /\ srv' = IF c.op = "setcap" THEN [srv EXCEPT !.cap = c.cap]
                ELSE [srv EXCEPT !.queue = Append(SubSeq(@, Min(room) + 1, Len(@)), c.h),
                                 !.removed = @ + Min(room)]
      /\ inst' = Tail(inst)
      /\ UNCHANGED <<enc, cur, sections, back, odd>>

ServerRic(coded) ==
  LET full == 2 * max_entries(srv.max)
      most == insert_count(srv) + max_entries(srv.max)
      ric == (most \div full) * full + coded - 1
  IN  IF coded = 0 THEN 0 ELSE IF ric > most THEN ric - full ELSE ric

\* An entry of the server's table, or nothing when it has gone.
At(i) == IF i - srv.removed + 1 \in DOMAIN srv.queue THEN srv.queue[i - srv.removed + 1] ELSE <<"gone", "gone">>
Read(line, base) ==
  CASE line.op = "static" -> Static[line.i]
    [] line.op = "staticname" -> <<Static[line.i][1], line.value>>
    [] line.op = "literal" -> line.h
    [] line.op = "dynamic" -> At(base - line.i - 1)
    [] line.op = "post" -> At(base + line.i)
    [] line.op = "postname" -> <<At(base + line.i)[1], line.value>>

\* A section is decoded when its insertions are there; otherwise it waits.
ServerSection(s) ==
  LET c == sections[s]
      ric == ServerRic(c.prefix.ric)
      base == IF c.prefix.sign = "plus" THEN ric + c.prefix.delta ELSE ric - c.prefix.delta - 1
  IN  /\ ServerUp /\ c # NotYet /\ s \notin DOMAIN srv.lists \cup srv.cancelled
      /\ ric <= insert_count(srv)
      /\ srv' = [srv EXCEPT !.lists = With(@, s, [i \in DOMAIN c.lines |-> Read(c.lines[i], base)]),
                            !.told = IF ric > @ THEN ric ELSE @]
      /\ back' = IF ric > 0 THEN Append(back, [op |-> "ack", s |-> s]) ELSE back
      /\ UNCHANGED <<enc, cur, inst, sections, odd>>

ServerCancel(s) ==
  /\ ServerUp /\ sections[s] # NotYet /\ s \notin DOMAIN srv.lists \cup srv.cancelled
  /\ srv' = [srv EXCEPT !.cancelled = @ \cup {s}]
  /\ back' = Append(back, [op |-> "cancel", s |-> s])
  /\ UNCHANGED <<enc, cur, inst, sections, odd>>

ServerIncrement ==
  /\ ServerUp /\ insert_count(srv) > srv.told
  /\ back' = Append(back, [op |-> "increment", n |-> insert_count(srv) - srv.told])
  /\ srv' = [srv EXCEPT !.told = insert_count(srv)]
  /\ UNCHANGED <<enc, cur, inst, sections, odd>>

ServerStops ==
  /\ ~srv.dead /\ odd # {} /\ cur = NoCall
  /\ srv' = [srv EXCEPT !.dead = TRUE]
  /\ UNCHANGED <<enc, cur, inst, sections, back, odd>>

Next ==
  \/ \E cap \in Capacities, n \in Blocked : Settings(cap, n)
  \/ \E s \in Streams : EncodeCall(s)
  \/ EncodeStatic \/ EncodeDynamic \/ EncodeLiteral \/ add_field_to_dynamic \/ EncodeReturn
  \/ ack \/ cancel_stream \/ InsertCountIncrement
  \/ \E s \in Streams : finish_stream(s)
  \/ ServerInstruction
  \/ \E s \in Streams : ServerSection(s) \/ ServerCancel(s)
  \/ ServerIncrement \/ ServerStops

-----------------------------------------------------------------------------
\* The server reads in every section the fields that were sent, however late
\* the instructions are: entries are never evicted from under a section.  Not
\* said of sections with a line or an instruction that has a coding error (odd),
\* nor after can_evict took the size of the front entry for that of others or
\* passed over a reference to one of them (miscounted).
SectionsRead == enc.miscounted \/ \A s \in DOMAIN srv.lists : srv.lists[s] = Requests[s]

\* An entry counts exactly the sections that refer to it and are not
\* acknowledged, so that none is evicted too early or kept for ever.
TrackedExact ==
  cur = NoCall /\ ~enc.panic =>
    \A i \in DOMAIN enc.queue :
      enc.queue[i].tracked =
        Cardinality({s \in DOMAIN enc.unacked : enc.removed + i - 1 \in enc.unacked[s]})

\* As long as can_evict counts right, the table runs into none of its panics: an
\* entry that an acknowledgement names is still there, and no more entries are
\* evicted than there are.
NoPanic == enc.panic => enc.miscounted

\* The assertion of increase_known_receive_count.
KnownBelowInserted == enc.known = 0 \/ enc.known < insert_count(enc)

\* No more streams than the server allows are at the risk of being blocked.
FewBlocked == Cardinality({s \in DOMAIN enc.unacked : IsBlocked(enc, s)}) <= enc.maxBlocked
=============================================================================
