---------------------------- MODULE MCFrameCodec ----------------------------
(* The coding of HTTP/2 and HTTP/3 frames and of the fields in them, and the *)
(* receive window that DATA frames spend, model checked together: a          *)
(* behaviour picks one of the components and takes only its steps.  They     *)
(* share variables, except for the window, which keeps its initial state     *)
(* when it is not picked.                                                    *)
EXTENDS H2RecvWindow, H2Frames, SequencesExt

VARIABLES which, s1, s2, s3, s4, s5, s6, s7, s8
codecVars == <<which, s1, s2, s3, s4, s5, s6, s7, s8>>

-----------------------------------------------------------------------------
(* HTTP/2 frames that are read: legal sequences with padding, priorities,    *)
(* continuations and a frame size that grows, and sequences to be refused.   *)

Part(f, pad, cont) == [f |-> f, pad |-> pad, cont |-> cont]
Simple(type, fl, id, val) == Part(Frame(type, fl, id, val), 0, 0)
Script(legal, acks, fs) ==
  [cells |-> FlattenSeq([i \in DOMAIN fs |-> Wire(fs[i].f, fs[i].pad, fs[i].cont)]),
   frames |-> [i \in DOMAIN fs |-> fs[i].f], legal |-> legal, acks |-> acks]
RawScript(legal, cells, frames) ==
  [cells |-> cells, frames |-> frames, legal |-> legal, acks |-> FALSE]

LegalScripts ==
  {Script(TRUE, TRUE, <<Simple("SETTINGS", 0, 0, <<4, 7, 5, 12>>), Simple("SETTINGS", 1, 0, <<>>),
                        Simple("DATA", 1, 3, <<1, 2, 3, 1, 2, 3, 1, 2, 3>>)>>),
   Script(TRUE, FALSE, <<Part(Frame("HEADERS", 41, 3, <<1, 2, 3, 1>>), 1, 3),
                         Part(Frame("DATA", 8, 3, <<1, 2>>), 2, 0), Simple("RST_STREAM", 0, 3, <<9>>)>>),
   Script(TRUE, FALSE, <<Simple("PING", 1, 0, <<1, 2, 3, 1>>), Simple("PRIORITY", 0, 3, <<1, 5, 2>>),
                         Simple("HEADERS", 4, 3, <<1, 2>>)>>),
   Script(TRUE, FALSE, <<Simple("WINDOW_UPDATE", 0, 0, <<3>>), Simple("GOAWAY", 0, 0, <<3, 11, 1>>),
                         Simple("DATA", 0, 3, <<>>)>>),
   Script(TRUE, FALSE, <<Simple("PUSH_PROMISE", 4, 1, <<2, 1, 2>>),
                         Part(Frame("PUSH_PROMISE", 0, 1, <<2, 1, 2>>), 0, 1),
                         Simple("DATA", 1, 1, <<1>>)>>),
   RawScript(TRUE, FrameCells(1, 0, 1, <<1>>) \o FrameCells(9, 0, 1, <<2>>)
                     \o FrameCells(9, 4, 1, <<3, 1>>), <<Frame("HEADERS", 0, 1, <<1, 2, 3, 1>>)>>)}

IllegalScripts ==
  {Script(FALSE, FALSE, fs) :
     fs \in {<<Simple("SETTINGS", 0, 0, <<2, 3>>)>>, <<Simple("PING", 0, 3, <<1, 2, 3, 1>>)>>,
             <<Simple("DATA", 0, 3, <<1>>), Simple("WINDOW_UPDATE", 0, 3, <<0>>)>>,
             <<Simple("SETTINGS", 1, 0, <<4, 1>>)>>}}
  \union {RawScript(FALSE, cells, <<>>) :
            cells \in {FrameCells(1, 0, 1, <<1, 2>>) \o FrameCells(0, 0, 1, <<1>>)}
              \union {FrameCells(x[1], x[2], x[3], x[4]) :
                        x \in {<<10, 0, 1, <<1>>>>, <<7, 0, 0, <<1>>>>, <<1, 4, 0, <<1, 2>>>>,
                               <<3, 0, 0, <<1, 1>>>>, <<5, 4, 0, <<0, 2>>>>, <<9, 4, 0, <<1, 2>>>>,
                               <<0, 8, 1, <<3, 1>>>>, <<2, 0, 0, <<1, 1, 1>>>>, <<8, 0, 0, <<1>>>>,
                               <<4, 0, 0, <<1>>>>, <<1, 12, 1, <<>>>>, <<5, 12, 1, <<>>>>}}}

R == INSTANCE H2Reader WITH
       DEFAULT_MAX_FRAME_SIZE <- 8, MAX_ALLOWED_MAX_FRAME_SIZE <- 12, MAX_INITIAL_WINDOW_SIZE <- 7,
       Configured <- 12, Capacity <- 1, Scripts <- LegalScripts \union IllegalScripts,
       script <- s1, wire <- s2, settings <- s3, dec <- s4, call <- s5, reader <- s6

\* HTTP/2 frames that are written.
FrameQueues ==
  {<<Frame("SETTINGS", 0, 0, <<4, 7, 5, 9>>), Frame("WINDOW_UPDATE", 0, 0, <<5>>),
     Frame("SETTINGS", 1, 0, <<3, 1, 5, 6>>), Frame("DATA", 1, 3, <<1, 2, 3, 4, 5, 6>>)>>,
   <<Frame("HEADERS", 5, 3, <<1, 2, 3, 4, 5, 6, 7, 8, 9, 10>>), Frame("DATA", 0, 3, <<>>),
     Frame("RST_STREAM", 0, 3, <<8>>)>>,
   <<Frame("HEADERS", 4, 3, <<1, 2, 3, 4>>), Frame("DATA", 1, 3, <<1, 2, 3, 4, 5>>),
     Frame("PING", 1, 0, <<1, 2, 3, 1>>)>>,
   <<Frame("GOAWAY", 0, 0, <<3, 2, 9, 9, 9, 9>>), Frame("PRIORITY", 0, 3, <<1, 3, 7>>)>>}

W == INSTANCE H2Writer WITH
       HPACK_BUFFER <- 4, BufferSizes <- {4, 6, 8, 13}, Queues <- FrameQueues,
       queue <- s1, asked <- s2, enc <- s3, buf <- s4, synced <- s5, out <- s6

-----------------------------------------------------------------------------
(* Fields.  Names and values are sequences of letters.                       *)

ax == <<<<"a">>, <<"x">>>>
az == <<<<"a">>, <<"z", "z", "z">>>>
b0 == <<<<"b">>, <<>>>>
bx == <<<<"b">>, <<"x">>>>
by == <<<<"b">>, <<"y">>>>
bz == <<<<"b">>, <<"z">>>>
cx == <<<<"c", "c">>, <<"x", "y">>>>
cy == <<<<"c", "c">>, <<"y">>>>

HpackStatic == <<ax, <<<<"a">>, <<"y">>>>, <<<<"b">>, <<"none">>>>>>
PrefixBits == [indexed |-> 3, indexing |-> 3, without |-> 1, never |-> 1, size |-> 1,
             plain |-> 1, huffman |-> 1, more |-> 9, last |-> 9, octet |-> 9]
HpackRooms == {2, 9}
TableSizes == {3}
FieldLists == [own |-> {<< <<ax, az>>, <<az, bx>> >>, << <<cx, bx>>, <<bx, cx>> >>,
                        << <<cx>>, <<cy>> >>, << <<ax, az, az>> >>},
               server |-> {<< <<az>>, <<az>> >>, << <<b0, cy>> >>, << <<ax>>, <<cy>> >>}]
H == INSTANCE Hpack WITH
       Static <- HpackStatic, TABLE_SIZE <- 8, LIST_SIZE <- 10, OVERHEAD <- 1, BASE <- 2,
       INT_MAX <- 40, Prefix <- PrefixBits, Rooms <- HpackRooms, Sizes <- TableSizes,
       Traffic <- FieldLists,
       peer <- s1, lists <- s2, enc <- s3, flight <- s4, dec <- s5, told <- s6

QpackStreams == {1, 2}
QpackStatic == <<ax>>
QpackCapacities == {10, 11}
QpackFields == {ax, by}
QpackPieces == {1}
QpackLists == <<{<<bz>>}, {<<ax, by>>}>>
Q == INSTANCE QpackDecoder WITH
       Streams <- QpackStreams, Static <- QpackStatic, MAX_CAPACITY <- 10,
       Capacities <- QpackCapacities, ENTRY <- 3, MAX_BLOCKED <- 1, SECTION_SIZE <- 9,
       Fields <- QpackFields, MAX_CUTS <- 1, Pieces <- QpackPieces, Lists <- QpackLists,
       MAX_INSERTS <- 2,
       server <- s1, instStream <- s2, wire <- s3, dec <- s4, call <- s5, seen <- s6

EntrySize(h) == CASE h[1] = "z" -> 8 [] h[1] = "w" -> 10 [] OTHER -> 4
RequestFields == << << <<"x", "1">>, <<"y", "1">> >>,
                    << <<"a", "1">>, <<"y", "1">>, <<"a", "2">> >>,
                    << <<"z", "1">>, <<"z", "2">> >>, << <<"w", "1">> >> >>
EncoderStatic == << <<"a", "1">> >>
FramedNames == {"x", "y", "z"}
EncoderCapacities == {9, 12}
BlockedLimits == {0, 1}
E == INSTANCE QpackEncoder WITH
       Requests <- RequestFields, Static <- EncoderStatic, SizeOf <- EntrySize,
       Framed <- FramedNames, ENTRY <- 3, Capacities <- EncoderCapacities,
       Blocked <- BlockedLimits,
       enc <- s1, cur <- s2, inst <- s3, sections <- s4, back <- s5, srv <- s6, odd <- s7

-----------------------------------------------------------------------------
(* HTTP/3 frames.                                                            *)

Item(type, wide, body) == [is |-> "frame", type |-> type, wide |-> wide, body |-> body]
StreamType(n) == [is |-> "type", n |-> n]
Insert == [is |-> "insert"]
b == <<"b", 0, 1>>
d == <<"d", 0, 1>>
N(n) == <<"int", n, 1>>
ControlStream(items) == [id \in {3} |-> <<StreamType(0), Item(4, FALSE, <<N(6), N(9)>>)>> \o items]

T == INSTANCE H3Reader WITH
       Bidirectional <- {0}, Pieces <- {1, 2},
       Traffic <-
         {[id \in {0, 7} |->
             IF id = 7 THEN <<StreamType(2), Insert, Insert>>
             ELSE <<Item(1, FALSE, <<N(1), b>>), Item(0, TRUE, <<b, d, b>>), Item(33, FALSE, <<b, b>>),
                    Item(0, FALSE, <<d>>), Item(1, FALSE, <<N(2)>>)>>],
          ControlStream(<<Item(33, FALSE, <<b, b>>), Item(7, FALSE, <<<<"int", 8, 2>>, <<"rest", 0, 0>>>>),
                    Item(3, FALSE, <<N(1)>>)>>),
          ControlStream(<<Item(4, FALSE, <<N(6), N(9)>>)>>), ControlStream(<<Item(0, FALSE, <<b>>)>>),
          [id \in {3} |-> <<StreamType(0), Item(4, FALSE, <<N(6), N(9), N(33), N(1)>>)>>],
          [id \in {3} |-> <<StreamType(0), Item(4, FALSE, <<N(1), N(9)>>), Item(7, FALSE, <<N(4)>>)>>],
          [id \in {0} |-> <<Item(5, FALSE, <<N(0), N(0), b>>)>>],
          [id \in {0} |-> <<Item(13, FALSE, <<N(0)>>)>>],
          [id \in {11} |-> <<StreamType(1), StreamType(9), Item(1, FALSE, <<N(0), b>>)>>],
          [id \in {11, 15} |-> IF id = 11 THEN <<StreamType(33), StreamType(33)>>
                               ELSE <<StreamType(3), Insert>>]},
       sent <- s1, wire <- s2, streams <- s3, section <- s4, inserts <- s5, call <- s6, out <- s7,
       reader <- s8

Sizes(fields, insts, body) == [fields |-> fields, insts |-> insts, body |-> body]
O == INSTANCE H3Writer WITH
       Requests <- [id \in {0, 4} |-> IF id = 0 THEN Sizes(2, 1, 3) ELSE Sizes(5, 5, 7)],
       Orders <- {<<0, 4>>, <<4, 0>>}, BUF <- 4, MAX_FRAME <- 6, Grants <- {1, 9}, MAX_GRANTS <- 3,
       Controls <- <<[type |-> "Settings", cells |-> <<<<"id", 1>>, <<"value", 2>>>>],
                     [type |-> "Goaway", cells |-> <<<<"id", 4>>>>]>>,
       pending_send <- s1, streams <- s2, field_iter <- s3, cur <- s4, quic <- s5, ctl <- s6, odd <- s7

-----------------------------------------------------------------------------
Pick ==
  \/ which = "H2Reader" /\ R!Init /\ s7 = 0 /\ s8 = 0
  \/ which = "H2Writer" /\ W!Init /\ s7 = 0 /\ s8 = 0
  \/ which = "Hpack" /\ H!Init /\ s7 = 0 /\ s8 = 0
  \/ which = "QpackDecoder" /\ Q!Init /\ s7 = 0 /\ s8 = 0
  \/ which = "QpackEncoder" /\ E!Init /\ s8 = 0
  \/ which = "H3Reader" /\ T!Init
  \/ which = "H3Writer" /\ O!Init /\ s8 = 0
  \/ which = "H2RecvWindow" /\ s1 = 0 /\ s2 = 0 /\ s3 = 0 /\ s4 = 0 /\ s5 = 0 /\ s6 = 0 /\ s7 = 0 /\ s8 = 0
CodecInit == Init /\ Pick

CodecStep ==
  \/ which = "H2Reader" /\ R!Next /\ UNCHANGED <<which, s7, s8>>
  \/ which = "H2Writer" /\ W!Next /\ UNCHANGED <<which, s7, s8>>
  \/ which = "Hpack" /\ H!Next /\ UNCHANGED <<which, s7, s8>>
  \/ which = "QpackDecoder" /\ Q!Next /\ UNCHANGED <<which, s7, s8>>
  \/ which = "QpackEncoder" /\ E!Next /\ UNCHANGED <<which, s8>>
  \/ which = "H3Reader" /\ T!Next /\ UNCHANGED which
  \/ which = "H3Writer" /\ O!Next /\ UNCHANGED <<which, s8>>
CodecNext == \/ CodecStep /\ UNCHANGED vars
             \/ which = "H2RecvWindow" /\ Next /\ UNCHANGED codecVars

CodecSpec == CodecInit /\ [][CodecNext]_<<codecVars, vars>>

-----------------------------------------------------------------------------
(* The properties are stated with each component and hold of the behaviours  *)
(* that pick it.  ServerView and WindowRestored are those of H2RecvWindow.   *)

\* Reading: however the input is cut into reads, what is handed on is what the
\* server sent, in order and whole - the frames of H2Reader and H3Reader, the
\* field blocks of Hpack, the sections of QpackDecoder.
InputRead ==
    /\ which = "H2Reader" => R!FramesInOrder
    /\ which = "Hpack" => H!SameBlocks
    /\ which = "QpackDecoder" => Q!SectionsRight
    /\ which = "H3Reader" => T!FramesInOrder

\* Judging: input that the protocol allows is not refused, input that it
\* forbids is not read as if it were legal, and QpackEncoder never asks the
\* server to block more streams than it offered.
JudgedRight ==
    /\ which = "H2Reader" => R!NoFalseRefusal /\ R!IllegalRefused
    /\ which = "Hpack" => H!NoFalseFailure
    /\ which = "QpackDecoder" => Q!NoFalseRefusal
    /\ which = "H3Reader" => T!NoFalseRefusal /\ T!RulesKept
    /\ which = "QpackEncoder" => E!FewBlocked

\* Writing: whatever room a buffer or QUIC gives at a time, the server receives
\* what was handed over, in order and whole - the frames of H2Writer, the
\* requests and control frames of H3Writer, the sections of QpackEncoder.  What
\* those three except they record where the code does it: a turn that ended
\* before its section was encoded, cells QUIC had no room for, no room at the
\* end of a turn (mixed, lost, cut), a frame of encode_whole (short), a line
\* with a coding error, an eviction counted by the front entry (odd,
\* miscounted).
OutputWritten ==
    /\ which = "H2Writer" => W!FramesWritten
    /\ which = "QpackEncoder" => E!SectionsRead
    /\ which = "H3Writer" => O!StreamsOwn /\ O!EndedWhole /\ O!ControlWhole

\* Tables: both sides of HPACK hold the same entries between two blocks, until
\* the server lowers the size of its table, and count their size exactly; an
\* entry of QpackEncoder counts exactly the unacknowledged sections that refer
\* to it, so that evicting neither panics nor breaks an assertion, unless
\* can_evict counted entries of other sizes, or that are referred to, by the
\* front one (miscounted); a stream waits in QpackDecoder only for an insertion
\* that is missing.
TablesInSync ==
    /\ which = "Hpack" => H!TablesInSync /\ H!SizeExact
    /\ which = "QpackEncoder" => E!TrackedExact /\ E!NoPanic /\ E!KnownBelowInserted
    /\ which = "QpackDecoder" => Q!WaitsForReason
=============================================================================
