------------------------------ MODULE TlsStream ------------------------------
(***************************************************************************)
(* A TLS session over an asynchronous socket: AsyncSslStream and Wrapper   *)
(* (async_impl/ssl_stream), SslStream (util/c_openssl/ssl/stream.rs) and   *)
(* the BIO callbacks (util/c_openssl/bio.rs).  OpenSSL calls the socket    *)
(* back through the BIO, which turns Pending into an error with a retry    *)
(* flag; get_error and the two check functions turn it back.  OpenSSL is   *)
(* external: it reads and writes records of two pieces, and keeps a record *)
(* it could not write.  Every BIO call is one step, and what becomes of an *)
(* error of it another.                                                    *)
(***************************************************************************)
EXTENDS Naturals, Sequences

CONSTANTS Incoming,    \* sequences of records the peer sends after the handshake
          Outgoing,    \* cells the caller writes
          BufSizes,    \* sizes of the caller's buffers
          MaxNotConn   \* bound: calls the system answers with NotConnected

VARIABLES build,       \* "1.1" or "3.0": how OpenSSL reports a missing close_notify
          pin,         \* "none", "same" or "other": the pinned key
          op,          \* the poll in progress: [name, size, wrote] or none
          stage,       \* "hello", "answer", "verify", "open", "failed", "shut"
          coming, wire, \* pieces from the peer: under way, and at the socket
          sock,        \* "open", "eof", "reset": the socket for reading
          half, plain, \* OpenSSL: pieces of the current record, cells decrypted
          wpend,       \* OpenSSL: pieces of the record being written
          notified,    \* close_notify: received, sent
          polled,      \* the socket: its wakers, if it is full, and if the task was woken
          res,         \* what the last poll returned
          got, sent, accepted, \* cells read; cells on the wire; cells poll_write took
          bio          \* the error of the last callback, until get_error takes it

vars == <<build, pin, op, stage, coming, wire, sock, half, plain, wpend, notified, polled, res, got, sent, accepted, bio>>
session == <<build, pin>>

Idle == [name |-> "none", size |-> 0]

\* A record is two pieces on the wire; the second one carries the content.
Pieces(r) == <<[end |-> FALSE, rec |-> r], [end |-> TRUE, rec |-> r]>>
RECURSIVE OnWire(_)
OnWire(rs) == IF rs = <<>> THEN <<>> ELSE Pieces(Head(rs)) \o OnWire(Tail(rs))

Init == /\ build \in {"1.1", "3.0"}
        /\ pin \in {"none", "same", "other"}
        /\ op = [name |-> "connect", size |-> 0]
        /\ stage = "hello"
        /\ \E rs \in Incoming : coming = OnWire(<<[kind |-> "answer", cells |-> <<>>]>> \o rs)
        /\ wire = <<>> /\ sock = "open"
        /\ half = FALSE /\ plain = <<>>
        /\ wpend = Pieces([kind |-> "hello", cells |-> <<>>])
        /\ notified = [received |-> FALSE, sent |-> FALSE]
        /\ polled = [waker |-> {}, full |-> FALSE, woken |-> FALSE]
        /\ res = "none"
        /\ got = <<>> /\ sent = <<>> /\ accepted = <<>>
        /\ bio = [failed |-> FALSE, retry |-> "none", error |-> "none", dir |-> "none", bare |-> FALSE,
                  notconn |-> 0]

Working == op.name # "none"
Return(r) == op' = Idle /\ res' = r

----------------------------------------------------------------------------
\* catch_unwind_bio: the callback fails, with the retry flag for some errors.
retry_error(e) == e \in {"WouldBlock", "NotConnected"}
CallbackFails(e, dir) ==
  bio' = [bio EXCEPT !.failed = TRUE, !.error = e, !.dir = dir, !.retry = IF retry_error(e) THEN dir ELSE "none",
                     !.notconn = IF e = "NotConnected" THEN @ + 1 ELSE @]
\* The socket keeps the waker of the poll.
Waits(dir) == [polled EXCEPT !.waker = @ \cup {dir}]

\* bwrite hands one piece to the socket: a piece that ends a record puts its
\* cells on the wire.
Writing == Working /\ ~bio.failed /\ wpend # <<>> /\ op.name # "read"
BioWrite == /\ Writing /\ sock # "reset" /\ ~polled.full
            /\ wpend' = Tail(wpend)
            /\ sent' = IF Head(wpend).end THEN sent \o Head(wpend).rec.cells ELSE sent
            /\ notified' = [notified EXCEPT !.sent = @ \/ (Head(wpend).end /\ Head(wpend).rec.kind = "notify")]
            /\ UNCHANGED <<session, op, stage, coming, wire, sock, half, plain, polled, res, got, accepted, bio>>

\* Bug: a full socket counts as written.
FullIsWritten == /\ Writing /\ sock # "reset"
                 /\ wpend' = <<>>
                 /\ polled' = [Waits("write") EXCEPT !.full = TRUE]
                 /\ UNCHANGED <<session, op, stage, coming, wire, sock, half, plain, notified, res, got, sent, accepted, bio>>
\* The socket is full.
BioWritePending == /\ Writing /\ sock # "reset"
                   /\ polled' = [Waits("write") EXCEPT !.full = TRUE]
                   /\ CallbackFails("WouldBlock", "write")
                   /\ UNCHANGED <<session, op, stage, coming, wire, sock, half, plain, wpend, notified, res, got, sent, accepted>>

\* The system refuses: the connection was reset, or is not connected yet.
BioWriteErr == /\ Writing
               /\ \E e \in {"Other", "NotConnected"} :
                    /\ IF e = "Other" THEN sock = "reset" ELSE sock = "open" /\ bio.notconn < MaxNotConn
                    /\ CallbackFails(e, "write")
               /\ UNCHANGED <<session, op, stage, coming, wire, sock, half, plain, wpend, notified, polled, res, got, sent, accepted>>

----------------------------------------------------------------------------
\* OpenSSL needs a piece: in the handshake, or to decrypt for SSL_read.
Reading == /\ Working /\ ~bio.failed
           /\ \/ op.name = "connect" /\ stage = "answer"
              \/ op.name = "read" /\ plain = <<>> /\ ~notified.received

\* A record is complete: the handshake goes on; cells are decrypted;
\* close_notify is remembered; a session ticket makes SSL_read come back
\* with WANT_READ and no error of the BIO.
Complete(r) ==
  /\ half' = FALSE
  /\ stage' = IF r.kind = "answer" THEN "verify" ELSE stage
  /\ plain' = IF r.kind = "data" THEN r.cells ELSE plain
  /\ notified' = [notified EXCEPT !.received = @ \/ r.kind = "notify"]
  /\ bio' = IF r.kind = "ticket" THEN [bio EXCEPT !.failed = TRUE, !.retry = "read", !.dir = "read"] ELSE bio
Bread == /\ Reading /\ wire # <<>>
         /\ wire' = Tail(wire)
         /\ IF Head(wire).end THEN Complete(Head(wire).rec)
            ELSE half' = TRUE /\ UNCHANGED <<stage, plain, notified, bio>>
         /\ UNCHANGED <<session, op, res, coming, sock, wpend, polled, got, sent, accepted>>

\* The socket has nothing: Wrapper::read registers the waker and returns
\* WouldBlock.
BreadPending == /\ Reading /\ wire = <<>> /\ sock = "open"
                /\ polled' = Waits("read")
                /\ CallbackFails("WouldBlock", "read")
                /\ UNCHANGED <<session, op, stage, coming, wire, sock, half, plain, wpend, notified, res, got, sent, accepted>>

\* The connection ends without close_notify: bread reads nothing, with no error.
BreadEof == /\ Reading /\ wire = <<>> /\ sock = "eof"
            /\ bio' = [bio EXCEPT !.failed = TRUE, !.dir = "read"]
            /\ UNCHANGED <<session, op, stage, coming, wire, sock, half, plain, wpend, notified, polled, res, got, sent, accepted>>

BreadErr == /\ Reading
            /\ \E e \in {"Other", "NotConnected"} :
                 /\ IF e = "Other" THEN sock = "reset"
                    ELSE wire = <<>> /\ sock = "open" /\ bio.notconn < MaxNotConn
                 /\ CallbackFails(e, "read")
            /\ UNCHANGED <<session, op, stage, coming, wire, sock, half, plain, wpend, notified, polled, res, got, sent, accepted>>

----------------------------------------------------------------------------
\* SslStream::get_error: OpenSSL tells what it wants by the retry flag, and an
\* end without close_notify by an empty SYSCALL or an SSL error; the error of the
\* BIO goes with it.
get_error ==
  LET code == CASE bio.retry = "read" -> "WANT_READ"
                [] bio.retry = "write" -> "WANT_WRITE"
                [] bio.retry = "none" /\ (bio.error # "none" \/ build = "1.1") -> "SYSCALL"
                [] OTHER -> "SSL"
  IN  [code |-> code, io |-> bio.error]

\* SslStream::read and write: the loop goes on when OpenSSL wants to read and the
\* socket has not said why; a read takes an empty SYSCALL error for the end.
IoResult(e) ==
  CASE e.code = "WANT_READ" /\ e.io = "none" -> "again"
    [] e.code = "SYSCALL" /\ e.io = "none" /\ op.name = "read" -> "eof"
    [] OTHER -> e.io

\* Bug: what OpenSSL wants is Pending, whether the socket was asked or not.
WantIsPending(r) == CASE r \in {"WouldBlock", "again"} -> "pending" [] r = "eof" -> r [] OTHER -> "err"

check_io_to_poll(r) == CASE r = "WouldBlock" -> "pending" [] r \in {"again", "eof"} -> r [] OTHER -> "err"

\* check_result_to_poll of poll_connect, and the same cases in poll_shutdown.
check_result_to_poll(e) == IF e.code \in {"WANT_READ", "WANT_WRITE"} THEN "pending" ELSE "err"

\* The OpenSSL function has failed with the error of its callback.
CallFails ==
  /\ bio.failed
  /\ \E r \in {IF op.name \in {"connect", "shutdown"} THEN check_result_to_poll(get_error)
               ELSE check_io_to_poll(IoResult(get_error))} :
       /\ IF r = "again" THEN UNCHANGED <<op, res>> ELSE Return(r)
       /\ stage' = IF r = "err" THEN "failed" ELSE stage
       /\ bio' = [bio EXCEPT !.failed = FALSE, !.error = "none", !.retry = "none",
                             !.bare = r = "pending" /\ bio.error = "NotConnected"]
  /\ UNCHANGED <<session, coming, wire, sock, half, plain, wpend, notified, polled, got, sent, accepted>>

----------------------------------------------------------------------------
\* SSL_connect: the hello is written, then the answer is read.
ConnectTurn == /\ op.name = "connect" /\ stage = "hello" /\ wpend = <<>>
               /\ stage' = "answer"
               /\ UNCHANGED <<session, op, coming, wire, sock, half, plain, wpend, notified, polled, res, got, sent, accepted, bio>>

\* SslStream::connect compares the pinned key, if there is one, with that of the
\* server's certificates once SSL_connect is done.
verify_pinned_pubkey == pin # "other"
ConnectDone == /\ op.name = "connect" /\ stage = "verify"
               /\ IF verify_pinned_pubkey THEN stage' = "open" /\ Return("ok") ELSE stage' = "failed" /\ Return("err")
               /\ UNCHANGED <<session, coming, wire, sock, half, plain, wpend, notified, polled, got, sent, accepted, bio>>

\* SSL_read gives what is decrypted, up to the size of the buffer, and
\* ZERO_RETURN once close_notify came.
Least(a, b) == IF a <= b THEN a ELSE b
ReadDone == /\ op.name = "read" /\ plain # <<>>
            /\ \E n \in {Least(op.size, Len(plain))} :
                 got' = got \o SubSeq(plain, 1, n) /\ plain' = SubSeq(plain, n + 1, Len(plain))
            /\ Return("ok")
            /\ UNCHANGED <<session, stage, coming, wire, sock, half, wpend, notified, polled, sent, accepted, bio>>
ReadEnd == /\ op.name = "read" /\ plain = <<>> /\ notified.received
           /\ Return("eof")
           /\ UNCHANGED <<session, stage, coming, wire, sock, half, plain, wpend, notified, polled, got, sent, accepted, bio>>

\* SSL_write returns when its record is written.
WriteDone == /\ op.name = "write" /\ wpend = <<>>
             /\ accepted' = accepted \o SubSeq(Outgoing, Len(accepted) + 1, Len(accepted) + op.size)
             /\ Return("ok")
             /\ UNCHANGED <<session, stage, coming, wire, sock, half, plain, wpend, notified, polled, got, sent, bio>>

\* poll_shutdown: once close_notify is out (SSL_shutdown returns Sent or
\* Received) the socket is shut down.
ShutdownDone == /\ op.name = "shutdown" /\ wpend = <<>>
                /\ stage' = "shut"
                /\ Return("ok")
                /\ UNCHANGED <<session, coming, wire, sock, half, plain, wpend, notified, polled, got, sent, accepted, bio>>

----------------------------------------------------------------------------
\* The caller polls: again what is pending, or something new.
\* A record OpenSSL has begun is finished by the next call that writes; it
\* wants the same bytes again.
NewRecord(cells) == Pieces([kind |-> "data", cells |-> cells])
WriteRecord(n) == IF wpend # <<>> THEN wpend ELSE NewRecord(SubSeq(Outgoing, Len(accepted) + 1, Len(accepted) + n))

CanPoll == op = Idle /\ stage \notin {"failed", "shut"} /\ res \notin {"eof"}
PollConnect == /\ CanPoll /\ stage \in {"hello", "answer"}
               /\ op' = [name |-> "connect", size |-> 0] /\ polled' = [polled EXCEPT !.woken = FALSE] /\ res' = "none"
               /\ UNCHANGED <<session, stage, coming, wire, sock, half, plain, wpend, notified, got, sent, accepted, bio>>
PollRead == /\ CanPoll /\ stage = "open"
            /\ \E n \in BufSizes : op' = [name |-> "read", size |-> n]
            /\ polled' = [polled EXCEPT !.woken = FALSE] /\ res' = "none"
            /\ UNCHANGED <<session, stage, coming, wire, sock, half, plain, wpend, notified, got, sent, accepted, bio>>
PollWrite == /\ CanPoll /\ stage = "open" /\ Len(accepted) < Len(Outgoing)
             /\ \E n \in {m \in BufSizes : Len(accepted) + m <= Len(Outgoing)} :
                  /\ wpend # <<>> => Head(wpend).rec.kind = "data" /\ n = Len(Head(wpend).rec.cells)
                  /\ op' = [name |-> "write", size |-> n]
                  /\ wpend' = WriteRecord(n)
             /\ polled' = [polled EXCEPT !.woken = FALSE] /\ res' = "none"
             /\ UNCHANGED <<session, stage, coming, wire, sock, half, plain, notified, got, sent, accepted, bio>>
PollShutdown == /\ CanPoll /\ stage = "open"
                /\ wpend # <<>> => Head(wpend).rec.kind = "notify"
                /\ op' = [name |-> "shutdown", size |-> 0]
                /\ wpend' = IF wpend # <<>> THEN wpend ELSE Pieces([kind |-> "notify", cells |-> <<>>])
                /\ polled' = [polled EXCEPT !.woken = FALSE] /\ res' = "none"
                /\ UNCHANGED <<session, stage, coming, wire, sock, half, plain, notified, got, sent, accepted, bio>>

\* The socket wakes whoever waits for it to become ready.
Wake(dirs) == [polled EXCEPT !.waker = @ \ dirs, !.woken = @ \/ dirs \cap polled.waker # {},
                             !.full = @ /\ "write" \notin dirs]

Arrive == /\ coming # <<>> /\ sock = "open"
          /\ wire' = Append(wire, Head(coming)) /\ coming' = Tail(coming)
          /\ polled' = Wake({"read"})
          /\ UNCHANGED <<session, op, stage, sock, half, plain, wpend, notified, res, got, sent, accepted, bio>>
Drain == /\ polled.full /\ sock # "reset"
         /\ polled' = Wake({"write"})
         /\ UNCHANGED <<session, op, stage, coming, wire, sock, half, plain, wpend, notified, res, got, sent, accepted, bio>>

\* The peer closes its side or resets the connection.
PeerEnds == /\ sock = "open" /\ sock' \in {"eof", "reset"}
            /\ wire' = (IF sock' = "reset" THEN <<>> ELSE wire)
            /\ polled' = Wake(IF sock' = "reset" THEN {"read", "write"} ELSE {"read"})
            /\ UNCHANGED <<session, coming, op, stage, half, plain, wpend, notified, res, got, sent, accepted, bio>>

Next == \/ BioWrite \/ BioWritePending \/ BioWriteErr
        \/ Bread \/ BreadPending \/ BreadEof \/ BreadErr \/ CallFails
        \/ ConnectTurn \/ ConnectDone \/ ReadDone \/ ReadEnd \/ WriteDone \/ ShutdownDone
        \/ PollConnect \/ PollRead \/ PollWrite \/ PollShutdown \/ Arrive \/ Drain \/ PeerEnds

Spec == Init /\ [][Next]_vars

----------------------------------------------------------------------------
\* No wakeup is lost: a task that was told Pending and has not been woken since
\* is right to sleep, whatever arrived while the fact went up through four layers
\* as an error code - what it waits for is not there.  The one way out is
\* NotConnected in the handshake and in poll_shutdown, which is made Pending
\* although no waker was set (bare).
PendingIsWoken ==
  res = "pending" /\ ~polled.woken /\ ~bio.bare =>
    IF bio.dir = "write" THEN polled.full /\ sock # "reset" ELSE wire = <<>> /\ sock = "open"

\* What the peer gets is what poll_write accepted, in order and once, and at
\* most the one record that is still on its way when Pending was returned.
WrittenOnce == /\ Len(sent) <= Len(Outgoing) /\ sent = SubSeq(Outgoing, 1, Len(sent))
               /\ op.name # "write" /\ wpend = <<>> => sent = accepted

\* The end of the data is reported only for close_notify or for a connection
\* the peer closed; a connection that was reset is an error.
EndIsReal == res = "eof" => notified.received \/ sock = "eof"

\* The socket is shut down only after close_notify went out.
NotifyFirst == stage = "shut" => notified.sent

\* No cell of the application is on the wire before the pinned key matched.
PinnedFirst == pin = "other" => sent = <<>> /\ accepted = <<>> /\ got = <<>>
=============================================================================
