------------------------------ MODULE MimeText ------------------------------
(***************************************************************************)
(* Multipart messages and what they look like on the wire, written down    *)
(* from the grammar that the comments of the encoder and the decoder quote *)
(* and not from their stages.  A byte is a model string, a header is       *)
(* <<name, value>>, two sequences of bytes.                                *)
(***************************************************************************)
EXTENDS Naturals, Sequences, SequencesExt

CRLF == <<"CR", "LF">>
DASH == <<"-", "-">>

\* MimePart and MimeMulti (XPart); `from` says what a part's body is read from:
\* "owned" bytes in memory, or a "sync" or "async" reader.
MimePart(h, b, from) == [k |-> "part", h |-> h, b |-> b, from |-> from]
MimeMulti(h, boundary, list) == [k |-> "multi", h |-> h, boundary |-> boundary, list |-> list]

\* Each element stands between two delimiters; a part is its headers and, after
\* an empty line, its body.  `pad` is the blank space a sender may leave after a
\* boundary, `how` the flavour of the encoder that reads the bodies.
HeaderLines(h) == FlattenSeq([i \in 1 .. Len(h) |-> h[i][1] \o <<":">> \o h[i][2] \o CRLF])

Readable(p, m) == p.from \in {"owned", m}

PartText(p, m) ==
    HeaderLines(p.h) \o (IF p.from = "owned" /\ p.b = <<>> THEN <<>>
                         ELSE CRLF \o (IF Readable(p, m) THEN p.b ELSE <<>>))

RECURSIVE MultiText(_, _, _)
MultiText(m, how, pad) ==
    LET ElementText(x) == IF x.k = "multi" THEN HeaderLines(x.h) \o CRLF \o MultiText(x, how, pad)
                          ELSE PartText(x, how)
        line == DASH \o m.boundary
        each == FlattenSeq([i \in 1 .. Len(m.list) |->
                    line \o pad \o CRLF \o ElementText(m.list[i]) \o CRLF])
    IN  (IF m.list = <<>> THEN line \o pad \o CRLF \o CRLF ELSE each) \o line \o DASH \o pad \o CRLF

----------------------------------------------------------------------------
\* What a reader of that text should be given: the headers as a map in which the
\* last line of a name counts, without blanks, and one empty part for a message
\* without parts.
NoBlanks(b) == SelectSeq(b, LAMBDA x : x # " ")
HeaderMap(h) == {<<NoBlanks(h[i][1]), NoBlanks(h[i][2])>> : i \in {j \in 1 .. Len(h) : \A l \in j + 1 .. Len(h) : h[l][1] # h[j][1]}}

ReadPart(h, b) == [k |-> "part", h |-> h, b |-> b]
ReadMulti(h, boundary, list) == [k |-> "multi", h |-> h, boundary |-> boundary, list |-> list]

RECURSIVE Meaning(_)
Meaning(x) ==
    IF x.k = "part" THEN ReadPart(HeaderMap(x.h), x.b)
    ELSE ReadMulti(HeaderMap(x.h), x.boundary,
             IF x.list = <<>> THEN <<ReadPart({}, <<>>)>>
             ELSE [i \in 1 .. Len(x.list) |-> Meaning(x.list[i])])
=============================================================================
