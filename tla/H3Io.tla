-------------------------------- MODULE H3Io --------------------------------
(***************************************************************************)
(* The io task of an HTTP/3 connection (util/h3/io_manager.rs) between the *)
(* socket, the QUIC state it shares with the stream manager under a lock,  *)
(* and the signals of the two tasks.  A datagram is sent in two writes at  *)
(* most; the stream manager adds packets under the lock and signals after. *)
(***************************************************************************)
EXTENDS Naturals, Sequences

CONSTANTS
    MaxPackets,     \* packets the stream manager gives to QUIC
    MaxDatagrams,   \* datagrams the peer sends
    MaxTimeouts     \* how often the QUIC timer fires

VARIABLES
    st,      \* IOManagerState, "asleep" between polls, or "end"
    quic,    \* QUIC: packets made, packets handed out, closed?
    buf,     \* send_data: the packet being written and what is left of it
    sock,    \* the socket: datagrams to read, written pieces, writable?
    sig,     \* signals to this task, and not yet sent ones
    timer,   \* recv_timeout: "none", "armed" or "due"; firings so far
    wake,    \* is the task scheduled, and which events have its waker
    raced    \* ghost: signals were taken after QUIC had said Done

vars == <<st, quic, buf, sock, sig, timer, wake, raced>>

Init ==
    /\ st = "asleep"
    /\ quic = [made |-> 0, out |-> 0, signalled |-> 0]
    /\ buf = [n |-> 0, left |-> 0]
    /\ sock = [in |-> 0, came |-> 0, written |-> <<>>, writable |-> TRUE]
    /\ sig = [unsent |-> 0, queued |-> 0]
    /\ timer = [at |-> "none", fired |-> 0]
    /\ wake = [on |-> TRUE, by |-> {}]
    /\ raced = FALSE

(* What polls as pending leaves a waker; its event uses the waker up. *)
Registers(events) == wake' = [wake EXCEPT !.by = @ \cup events]
Wakes(event) == wake' = [on |-> wake.on \/ event \in wake.by,
                         by |-> wake.by \ {event}]

(* poll starts with IORecving whatever state the last one left. *)
poll ==
    /\ st = "asleep"
    /\ wake.on
    /\ st' = "IORecving"
    /\ wake' = [wake EXCEPT !.on = FALSE]
    /\ UNCHANGED <<quic, buf, sock, sig, timer, raced>>

(* poll_io_recv: arms the timer if none is, then looks at it, then reads. *)
poll_io_recv_timeout ==
    /\ st = "IORecving"
    /\ timer.at = "due"
    /\ timer' = [timer EXCEPT !.at = "none"]
    /\ st' = "Timeout"
    /\ UNCHANGED <<quic, buf, sock, sig, wake, raced>>

(* Bug: one datagram is read and the socket is not polled again. *)
ReadOnce ==
    /\ st = "IORecving"
    /\ timer.at # "due"
    /\ sock.in > 0
    /\ timer' = [timer EXCEPT !.at = "none"]
    /\ sock' = [sock EXCEPT !.in = @ - 1]
    /\ st' = "IOSending"
    /\ quic' = [quic EXCEPT !.signalled = @ + 1]
    /\ UNCHANGED <<buf, sig, wake, raced>>

poll_io_recv_ready ==
    /\ st = "IORecving"
    /\ timer.at # "due"
    /\ sock.in > 0
    /\ timer' = [timer EXCEPT !.at = "none"]
    /\ sock' = [sock EXCEPT !.in = @ - 1]
    /\ \E ok \in BOOLEAN :
          /\ st' = IF ok THEN "IORecving" ELSE "end"
          /\ quic' = IF ok THEN [quic EXCEPT !.signalled = @ + 1] ELSE quic
    /\ UNCHANGED <<buf, sig, wake, raced>>

poll_io_recv_pending ==
    /\ st = "IORecving"
    /\ timer.at # "due"
    /\ sock.in = 0
    /\ timer' = [timer EXCEPT !.at = "armed"]
    /\ st' = "IOSending"
    /\ Registers({"timer", "read"})
    /\ UNCHANGED <<quic, buf, sock, sig, raced>>

(* Where poll_io_send leaves the loop: a timeout goes back to reading. *)
AfterSend == IF st = "Timeout" THEN "IORecving" ELSE "ChannelRecving"

Sending == st \in {"IOSending", "Timeout"}

(* Bug: the loop ends after a packet although QUIC has more. *)
SendOnlyOne ==
    /\ Sending
    /\ buf.left = 0
    /\ quic.out = quic.made \/ quic.out > 0
    /\ st' = AfterSend
    /\ raced' = FALSE
    /\ UNCHANGED <<quic, buf, sock, sig, timer, wake>>

(* One turn of poll_io_send: the rest of a datagram first, else the next   *)
(* packet of QUIC; a write takes some of it, all of it, or pends.          *)
poll_io_send_done ==
    /\ Sending
    /\ buf.left = 0
    /\ quic.out = quic.made
    /\ st' = AfterSend
    /\ raced' = FALSE
    /\ UNCHANGED <<quic, buf, sock, sig, timer, wake>>

NextPacket ==
    IF buf.left > 0 THEN buf ELSE [n |-> quic.out + 1, left |-> 2]

poll_io_send_write ==
    /\ Sending
    /\ buf.left > 0 \/ quic.out < quic.made
    /\ quic' = IF buf.left > 0 THEN quic ELSE [quic EXCEPT !.out = @ + 1]
    /\ \/ /\ sock.writable
          /\ \E size \in 1..NextPacket.left :
                /\ buf' = [NextPacket EXCEPT !.left = @ - size]
                /\ sock' = [sock EXCEPT !.written = @ \o
                              [k \in 1..size |-> NextPacket.n]]
          /\ UNCHANGED <<st, wake>>
       \/ /\ ~sock.writable
          /\ buf' = NextPacket
          /\ st' = AfterSend
          /\ Registers({"write"})
          /\ UNCHANGED sock
    /\ UNCHANGED <<sig, timer, raced>>

(* poll_recv_signal: takes every signal there is, then sleeps. *)
poll_recv_signal ==
    /\ st = "ChannelRecving"
    /\ IF sig.queued > 0
       THEN /\ sig' = [sig EXCEPT !.queued = @ - 1]
            /\ raced' = TRUE
            /\ UNCHANGED <<st, wake>>
       ELSE /\ st' = "asleep"
            /\ Registers({"sig"})
            /\ UNCHANGED <<sig, raced>>
    /\ UNCHANGED <<quic, buf, sock, timer>>

-----------------------------------------------------------------------------
(* The stream manager, the peer, the socket and the clock. *)

SmSends ==
    /\ quic.made < MaxPackets
    /\ quic' = [quic EXCEPT !.made = @ + 1]
    /\ sig' = [sig EXCEPT !.unsent = @ + 1]
    /\ UNCHANGED <<st, buf, sock, timer, wake, raced>>

SmSignals ==
    /\ sig.unsent > 0
    /\ sig' = [unsent |-> sig.unsent - 1, queued |-> sig.queued + 1]
    /\ Wakes("sig")
    /\ UNCHANGED <<st, quic, buf, sock, timer, raced>>

Datagram ==
    /\ sock.came < MaxDatagrams
    /\ sock' = [sock EXCEPT !.in = @ + 1, !.came = @ + 1]
    /\ Wakes("read")
    /\ UNCHANGED <<st, quic, buf, sig, timer, raced>>

SocketFull ==
    /\ sock.writable
    /\ sock' = [sock EXCEPT !.writable = FALSE]
    /\ UNCHANGED <<st, quic, buf, sig, timer, wake, raced>>

SocketWritable ==
    /\ ~sock.writable
    /\ sock' = [sock EXCEPT !.writable = TRUE]
    /\ Wakes("write")
    /\ UNCHANGED <<st, quic, buf, sig, timer, raced>>

TimerFires ==
    /\ timer.at = "armed"
    /\ timer.fired < MaxTimeouts
    /\ timer' = [at |-> "due", fired |-> timer.fired + 1]
    /\ Wakes("timer")
    /\ UNCHANGED <<st, quic, buf, sock, sig, raced>>

IOManager ==
    \/ poll
    \/ poll_io_recv_timeout
    \/ poll_io_recv_ready
    \/ poll_io_recv_pending
    \/ poll_io_send_done
    \/ poll_io_send_write
    \/ poll_recv_signal

Next ==
    \/ IOManager
    \/ SmSends
    \/ SmSignals
    \/ Datagram
    \/ SocketFull
    \/ SocketWritable
    \/ TimerFires

(* The runtime keeps running a task that is not asleep or has been woken,  *)
(* and the stream manager's next statement after its write is the signal.  *)
Spec == Init /\ [][Next]_vars /\ WF_vars(IOManager) /\ WF_vars(SmSignals)

-----------------------------------------------------------------------------
(* The socket gets the packets in the order QUIC made them, each one once  *)
(* and whole, however often a write is partial or has to wait.             *)
DatagramsInOrder ==
    \A k \in DOMAIN sock.written : sock.written[k] = (k + 1) \div 2

(* The task sleeps on packets it could send only if it took their signals  *)
(* after QUIC had nothing to send (io_manager.rs, ChannelRecving): those   *)
(* wait for the next signal, datagram or timeout.                          *)
SleepsOnlyWhenSent ==
    (st = "asleep" /\ ~wake.on) =>
        \/ quic.out = quic.made /\ buf.left = 0
        \/ buf.left > 0 /\ ~sock.writable
        \/ sig.unsent > 0
        \/ raced

Arrived(n) == sock.came >= n
Signalled(n) == quic.signalled >= n \/ st = "end"

(* Every datagram that arrives is read while the task lives, and QUIC's    *)
(* acceptance of it is signalled to the stream manager.                    *)
DatagramsSignalled == \A n \in 1..MaxDatagrams : Arrived(n) ~> Signalled(n)
=============================================================================
