------------------------------ MODULE Transfers ------------------------------
(***************************************************************************)
(* Uploader, Downloader and the synchronous BodyReader: a body passes from *)
(* its source to a user's operator (or, for an upload, to the connection)  *)
(* while the operator is told how far it has come.  The operator may take  *)
(* less than it is offered, may not be ready, may fail; a download may run *)
(* into its timeout, and a call that ended early may be made again.        *)
(***************************************************************************)
EXTENDS Naturals, Sequences, SequencesExt

CONSTANTS
    Body,       \* the bytes to transfer
    BufSize,    \* the most one read gives
    MaxCalls,   \* how often a failed or cancelled transfer is tried again
    MaxReuses   \* how often an upload is sent again

VARIABLES
    kind,       \* "up", "down" or "sync"
    pc,         \* where the transfer is
    src,        \* bytes read from the source
    data,       \* what is left of the piece that was read
    piece,      \* the length of that piece
    got,        \* what the receiving side was given
    info,       \* downloaded_bytes, uploaded_bytes, written; -1 is None
    told,       \* what the last progress call said
    calls, reuses,
    partial,    \* the operator took less than it was offered
    aborted     \* a call ended with a piece read and not taken

vars == <<kind, pc, src, data, piece, got, info, told, calls, reuses, partial, aborted>>

None == [some |-> FALSE, n |-> 0]
Some(n) == [some |-> TRUE, n |-> n]

Init ==
    /\ kind \in {"up", "down", "sync"}
    /\ pc = "idle" /\ src = 0 /\ data = <<>> /\ piece = 0 /\ got = <<>> /\ info = None /\ told = 0
    /\ calls = 0 /\ reuses = 0 /\ partial = FALSE /\ aborted = FALSE

Remaining == Len(Body) - src

----------------------------------------------------------------------------
\* Downloader::download: the info of an earlier call is kept.  BodyReader counts
\* from zero in every call.
Start ==
    /\ pc = "idle" /\ kind # "up" /\ calls <= MaxCalls
    /\ info' = IF info.some /\ kind = "down" THEN info ELSE Some(0)
    /\ pc' = IF kind = "down" THEN "progress0" ELSE "read"
    /\ UNCHANGED <<kind, src, data, piece, got, told, calls, reuses, partial, aborted>>

\* show_progress and check_timeout before the first read.
Announce ==
    /\ pc = "progress0"
    /\ told' = info.n
    /\ pc' = "read"
    /\ UNCHANGED <<kind, src, data, piece, got, info, calls, reuses, partial, aborted>>

ReadBody ==
    /\ pc = "read" /\ kind # "up"
    /\ IF Remaining = 0 THEN data' = <<>> /\ UNCHANGED <<src, piece>> /\ pc' = "last"
       ELSE \E n \in 1 .. (IF BufSize < Remaining THEN BufSize ELSE Remaining) :
              /\ data' = SubSeq(Body, src + 1, src + n)
              /\ src' = src + n /\ piece' = n
              /\ pc' = "give"
    /\ UNCHANGED <<kind, got, info, told, calls, reuses, partial, aborted>>

\* One turn of the inner loop: the operator takes some of the piece, and
\* downloaded_bytes grows by the length of the piece `data`, whatever it took.
\* BodyProcessor::write takes everything.
Give ==
    /\ pc = "give"
    /\ \E n \in IF kind = "sync" THEN {Len(data)} ELSE 1 .. Len(data) :
         /\ got' = got \o SubSeq(data, 1, n)
         /\ data' = SubSeq(data, n + 1, Len(data))
         /\ partial' = (partial \/ n < Len(data))
    /\ info' = Some(info.n + piece)
    /\ pc' = "told"
    /\ UNCHANGED <<kind, src, piece, told, calls, reuses, aborted>>

\* BodyReader calls progress only when the last read is a second ago.
Tell ==
    /\ pc = "told"
    /\ told' \in IF kind = "sync" THEN {told, info.n} ELSE {info.n}
    /\ pc' = IF data = <<>> THEN "read" ELSE "give"
    /\ UNCHANGED <<kind, src, data, piece, got, info, calls, reuses, partial, aborted>>

Finish ==
    /\ pc = "last"
    /\ told' = info.n
    /\ pc' = "done"
    /\ UNCHANGED <<kind, src, data, piece, got, info, calls, reuses, partial, aborted>>

\* The operator or the body fails, the timeout of the download is over, or the
\* caller drops the future: the piece in the buffer is gone, and the call may be
\* made again.
Abort ==
    /\ pc \in {"progress0", "read", "give", "told", "last"} /\ kind # "up"
    /\ pc' = "idle" /\ calls' = calls + 1
    /\ aborted' = (aborted \/ data # <<>>)
    /\ data' = <<>>
    /\ UNCHANGED <<kind, src, piece, got, info, told, reuses, partial>>

----------------------------------------------------------------------------
\* Uploader::poll_read: progress first; not ready or an error, and nothing is
\* read by this poll.
UploadProgress ==
    /\ pc = "idle" /\ kind = "up"
    /\ info' = IF info.some THEN info ELSE Some(0)
    /\ told' = info'.n
    /\ pc' \in {"idle", "upread"}
    /\ UNCHANGED <<kind, src, data, piece, got, calls, reuses, partial, aborted>>

UploadRead ==
    /\ pc = "upread"
    /\ \E n \in 0 .. (IF BufSize < Remaining THEN BufSize ELSE Remaining) :
         /\ got' = got \o SubSeq(Body, src + 1, src + n)
         /\ src' = src + n
         /\ info' = Some(info.n + n)
         /\ pc' = IF n = 0 /\ Remaining = 0 THEN "done" ELSE "idle"
    /\ UNCHANGED <<kind, data, piece, told, calls, reuses, partial, aborted>>

\* Uploader::reuse: the request is sent again from its beginning.
reuse ==
    /\ kind = "up" /\ pc \in {"idle", "done"} /\ reuses < MaxReuses
    /\ reuses' = reuses + 1
    /\ info' = None
    /\ src' = 0 /\ got' = <<>> /\ told' = 0 /\ pc' = "idle"
    /\ UNCHANGED <<kind, data, piece, calls, partial, aborted>>

Next ==
    \/ Start \/ Announce \/ ReadBody \/ Give \/ Tell \/ Finish \/ Abort
    \/ UploadProgress \/ UploadRead \/ reuse

Spec == Init /\ [][Next]_vars

----------------------------------------------------------------------------
(* Whatever an operator takes at a time and however often a call was made      *)
(* again, every byte of the body reaches the other side once and in order, and *)
(* a transfer that reports success has delivered all of it.  A call that ended *)
(* with a piece in its buffer is where this ends: aborted.                     *)
DeliveredOnce ==
    ~aborted => /\ IsPrefix(got, Body)
                /\ pc = "done" => got = Body

(* An operator that takes all it is offered is told what has been transferred  *)
(* by then, across repeated calls of a download and repeated attempts of an    *)
(* upload (poll_progress: "how many bytes have been written to the specified   *)
(* location at this time").  BodyReader counts the bytes of one call.          *)
ProgressIsTrue ==
    ~partial /\ ~aborted /\ (kind = "sync" => calls = 0) =>
        /\ told <= Len(got)
        /\ pc = "done" => told = Len(got)
=============================================================================
