------------------------------ MODULE MultiPart ------------------------------
(***************************************************************************)
(* MultiPart (body/mime/simple.rs): a form whose parts are bytes or        *)
(* streams, read by the client as a request body.  The first read turns    *)
(* the parts into a list of states, a read continues at the current state, *)
(* `reuse` rewinds all of them so that a redirect or a retry can send the  *)
(* form again, and total_bytes is the Content-Length announced for it.     *)
(*                                                                         *)
(* A fixed text is one cell long where the code counts it with a constant, *)
(* in what is written and in what is announced alike.                      *)
(***************************************************************************)
EXTENDS Naturals, Sequences, SequencesExt

CONSTANTS
    Forms,      \* sequences of parts [name, file, mime, kind, body, length]; <<>> is None
    BufSizes,   \* room a reader brings
    MaxPends,   \* how often a stream may be not ready
    MaxReuses   \* how often the form is sent again

VARIABLES
    form, status, states, index,
    taken,      \* the bodies were moved out of the parts
    call,       \* the running poll_read: open, room, got
    out,        \* bytes read since the last successful reuse
    pends, reuses,
    spoiled     \* a reuse failed: what a later read gives is not the form

vars == <<form, status, states, index, taken, call, out, pends, reuses, spoiled>>

Boundary == <<"B">>
CRLF == <<"CR", "LF">>

bytes(b) == [kind |-> "bytes", b |-> b, pos |-> 0]

Labelled(label, x) == IF x = <<>> THEN <<>> ELSE <<bytes(<<label>> \o x)>>

PartStates(p, hasBody) ==
    <<bytes(<<"-", "-">> \o Boundary \o CRLF), bytes(<<"disposition">>)>>
        \o Labelled("; name=", p.name) \o Labelled("; filename=", p.file) \o <<bytes(CRLF)>>
        \o (IF p.mime = <<>> THEN <<>> ELSE <<bytes(<<"content-type: ">> \o p.mime \o CRLF)>>)
        \o <<bytes(CRLF)>>
        \o (IF hasBody /\ p.kind # "none" THEN <<[kind |-> p.kind, b |-> p.body, pos |-> 0]>> ELSE <<>>)
        \o <<bytes(CRLF)>>

StatesOf(f, hasBody) ==
    FlattenSeq([i \in 1 .. Len(f) |-> PartStates(f[i], hasBody)])
        \o <<bytes(<<"-", "-">> \o Boundary \o <<"-", "-">> \o CRLF)>>

\* total_bytes; a part without a length (a stream that was given none, no body at
\* all) makes it None, 0 here.
total_bytes(f) ==
    LET Opt(label, x) == IF x = <<>> THEN 0 ELSE label + Len(x)
        size[i \in 0 .. Len(f)] ==
            IF i = 0 THEN 0
            ELSE size[i - 1] + Len(f[i].body) + (2 + Len(Boundary) + 2) + 1
                 + Opt(1, f[i].name) + Opt(1, f[i].file) + 2 + Opt(3, f[i].mime) + 2 + 2
    IN  IF \E i \in 1 .. Len(f) : ~f[i].length THEN 0 ELSE size[Len(f)] + 2 + Len(Boundary) + 4

Idle == [open |-> FALSE, room |-> 0, got |-> <<>>]

Init ==
    /\ form \in Forms
    /\ status = "never" /\ states = <<>> /\ index = 1 /\ taken = FALSE
    /\ call = Idle /\ out = <<>> /\ pends = 0 /\ reuses = 0 /\ spoiled = FALSE

\* poll_read: the first one builds the states, one after the end gives nothing.
\* The caller reads until it is given nothing.
poll_read ==
    /\ ~call.open /\ status # "finish"
    /\ \E n \in BufSizes : call' = [open |-> TRUE, room |-> n, got |-> <<>>]
    /\ IF status = "never"
       THEN /\ states' = StatesOf(form, ~taken) /\ taken' = TRUE
            /\ status' = "reading" /\ index' = 1
       ELSE UNCHANGED <<states, taken, status, index>>
    /\ UNCHANGED <<form, out, pends, reuses, spoiled>>

Cur == states[index]
Left == Len(Cur.b) - Cur.pos
InLoop == call.open /\ Len(call.got) < call.room /\ index <= Len(states)
Unfilled == call.room - Len(call.got)

Take(n) ==
    /\ states' = [states EXCEPT ![index].pos = @ + n]
    /\ call' = [call EXCEPT !.got = @ \o SubSeq(Cur.b, Cur.pos + 1, Cur.pos + n)]
    /\ UNCHANGED <<form, status, taken, out, pends, reuses, spoiled>>

\* poll_read_curr on bytes: finished when the buffer was not filled.
poll_read_curr_bytes ==
    /\ InLoop /\ Cur.kind = "bytes"
    /\ \E n \in {IF Left < Unfilled THEN Left ELSE Unfilled} :
         /\ Take(n)
         /\ index' = IF n < Unfilled THEN index + 1 ELSE index

\* On a stream: finished when it gives nothing.
poll_read_curr_stream ==
    /\ InLoop /\ Cur.kind = "stream"
    /\ \E n \in IF Left = 0 THEN {0} ELSE 1 .. (IF Left < Unfilled THEN Left ELSE Unfilled) :
         /\ Take(n)
         /\ index' = IF n = 0 THEN index + 1 ELSE index

\* The buffer is returned; a read that gave nothing is the end of the form.
Return ==
    /\ call.open /\ ~InLoop
    /\ status' = IF call.got = <<>> THEN "finish" ELSE status
    /\ out' = out \o call.got
    /\ call' = Idle
    /\ UNCHANGED <<form, states, index, taken, pends, reuses, spoiled>>

\* The stream is not ready: bytes read before it are returned, the task waits
\* only when there were none.
Pending ==
    /\ InLoop /\ Cur.kind = "stream" /\ pends < MaxPends
    /\ pends' = pends + 1
    /\ out' = out \o call.got
    /\ call' = Idle
    /\ UNCHANGED <<form, status, states, index, taken, reuses, spoiled>>

Rewound(upTo) == [i \in 1 .. Len(states) |-> IF i <= upTo THEN [states[i] EXCEPT !.pos = 0] ELSE states[i]]

Reusing == ~call.open /\ reuses < MaxReuses /\ status # "never"

\* reuse, reuse_inner and MultiPartStates::reuse: every state is rewound.
reuse ==
    /\ Reusing
    /\ states' = Rewound(Len(states))
    /\ index' = 1 /\ status' = "reading" /\ out' = <<>> /\ reuses' = reuses + 1
    /\ UNCHANGED <<form, taken, call, pends, spoiled>>

\* The stream at k cannot be rewound: a form that was being read keeps its
\* states, one that was finished has lost them, and its bodies with them.
reuse_fails ==
    /\ Reusing
    /\ \E k \in 1 .. Len(states) :
         /\ states[k].kind = "stream"
         /\ states' = IF status = "reading" THEN Rewound(k - 1) ELSE <<>>
    /\ status' = IF status = "reading" THEN "reading" ELSE "never"
    /\ index' = 1 /\ out' = <<>> /\ reuses' = reuses + 1 /\ spoiled' = TRUE
    /\ UNCHANGED <<form, taken, call, pends>>

Next ==
    \/ poll_read \/ poll_read_curr_bytes \/ poll_read_curr_stream \/ Return \/ Pending
    \/ reuse \/ reuse_fails

Spec == Init /\ [][Next]_vars

----------------------------------------------------------------------------
FormText == FlattenSeq([i \in 1 .. Len(StatesOf(form, TRUE)) |-> StatesOf(form, TRUE)[i].b])

(* Whatever the buffers, the readiness of the streams and the moment at which  *)
(* it was rewound, each time the form is read it gives the same bytes, from    *)
(* the first to the last (poll_read, reuse).  A reuse that failed is where     *)
(* this ends: spoiled.                                                         *)
FormWhole ==
    ~spoiled => /\ IsPrefix(out \o call.got, FormText)
                /\ status = "finish" => out = FormText

(* A form that announces a length is exactly that long, however it was read    *)
(* and re-read: the Content-Length of the request is the number of bytes that  *)
(* follow (total_bytes against build_status).                                  *)
AnnouncedLength ==
    status = "finish" /\ ~spoiled /\ total_bytes(form) # 0 => Len(out) = total_bytes(form)
=============================================================================
