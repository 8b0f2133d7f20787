--------------------------- MODULE H2RecvWindow ---------------------------
(***************************************************************************)
(* A receive window: RecvWindow (util/h2/buffer/window.rs) as the manager  *)
(* uses it for the connection (FlowControl, release_conn_recv_window) and, *)
(* with Default = Configured, for a stream that is still receiving         *)
(* (release_stream_recv_window).  The server spends its own copy of the    *)
(* window; DATA and WINDOW_UPDATE frames are under way in between, counted *)
(* in octets, and arrive in pieces of any size.                            *)
(*                                                                         *)
(* The code computes in i32, which wraps around in a release build: Half   *)
(* stands for 2^31.  No single operation here leaves -2 Half .. 2 Half - 1.*)
(***************************************************************************)
EXTENDS Integers

CONSTANTS
    Half,        \* 2^31
    Default,     \* DEFAULT_WINDOW_SIZE, what the server starts with
    Configured,  \* conn_window_size of the user
    Padding      \* most padding octets (with their length) in one DATA frame

ASSUME WindowAssumption ==
    /\ Half \in Nat /\ Default \in 0 .. Half - 1
    /\ Configured \in 0 .. Half - 1
    /\ Padding \in Nat

VARIABLES
    notification, \* RecvWindow.notification
    actual,       \* RecvWindow.actual
    credit,       \* octets the server may still send
    data,         \* octets of data under way to the client
    padding,      \* octets of padding under way to the client
    grants,       \* octets of WINDOW_UPDATE under way to the server
    phase         \* "new", "open", or "error" after FLOW_CONTROL_ERROR

vars == <<notification, actual, credit, data, padding, grants, phase>>

i32 == -Half .. Half - 1

TypeOK ==
    /\ notification \in i32 /\ actual \in i32
    /\ credit \in Int /\ data \in Nat /\ padding \in Nat /\ grants \in Int
    /\ phase \in {"new", "open", "error"}

Init ==
    /\ notification = Default /\ actual = Default
    /\ credit = Default /\ data = 0 /\ padding = 0 /\ grants = 0
    /\ phase = "new"

Wrap(x) == IF x >= Half THEN x - 2 * Half
           ELSE IF x < -Half THEN x + 2 * Half ELSE x

\* Mutation of Unreleased: a window that is spent exactly is not given back.
UnreleasedLate(n, a) ==
    LET unreleased == Wrap(a - n)
    IN  IF unreleased > 0 /\ n < 0 THEN unreleased ELSE 0

\* unreleased_size: what to give back, or 0 for None.
Unreleased(n, a) ==
    LET unreleased == Wrap(a - n)
    IN  IF unreleased > 0 /\ Wrap(unreleased * 2) > n THEN unreleased ELSE 0

\* notification_available
Available(n) == IF n < 0 THEN 0 ELSE n

\* check_window_update with notification n and actual a.
Release(n, a) ==
    /\ notification' = Wrap(n + Unreleased(n, a))
    /\ grants' = grants + Unreleased(n, a)

\* Mutation of Setup: the configured window is recorded and not sent.
SetupSilently ==
    /\ phase = "new"
    /\ actual' = Configured /\ notification' = Configured
    /\ phase' = "open"
    /\ UNCHANGED <<credit, data, padding, grants>>

\* Http2Dispatcher::new: setup_recv_window, then release_conn_recv_window(0).
Setup ==
    /\ phase = "new"
    /\ actual' = Configured
    /\ Release(notification, Configured)
    /\ phase' = "open"
    /\ UNCHANGED <<credit, data, padding>>

\* The server sends d octets with p octets of padding within its window.
ServerSends(d, p) ==
    /\ phase = "open" /\ d + p <= credit
    /\ credit' = credit - (d + p)
    /\ data' = data + d /\ padding' = padding + p
    /\ UNCHANGED <<notification, actual, grants, phase>>

\* The client receives d octets of data with p octets of padding.  The decoder
\* has cut the padding off, so release_*_recv_window is told d.
Receive(d, p) ==
    /\ phase = "open" /\ d <= data /\ p <= padding
    /\ data' = data - d /\ padding' = padding - p
    /\ IF Available(notification) < d
         THEN phase' = "error" /\ UNCHANGED <<notification, grants>>
         ELSE Release(Wrap(notification - d), actual) /\ UNCHANGED phase
    /\ UNCHANGED <<actual, credit>>

\* The server takes up n octets of the updates.
ServerGranted(n) ==
    /\ n <= grants
    /\ grants' = grants - n
    /\ credit' = credit + n
    /\ UNCHANGED <<notification, actual, data, padding, phase>>

Next ==
    \/ Setup
    \/ \E d \in 0 .. credit : \E p \in 0 .. Padding : d + p > 0 /\ ServerSends(d, p)
    \/ \E d \in 0 .. data : \E p \in 0 .. padding : d + p > 0 /\ Receive(d, p)
    \/ \E n \in 1 .. grants : ServerGranted(n)

Spec == Init /\ [][Next]_vars

---------------------------------------------------------------------------
\* notification is "the window size visible to the server", as the comment in
\* window.rs says, once what is under way has arrived.
ServerView == phase = "open" => notification = credit + data + padding + grants

\* A server that stays within its window is never answered FLOW_CONTROL_ERROR
\* by release_conn_recv_window or release_stream_recv_window.
NeverAccused == phase # "error"

\* Once nothing is under way the server holds at least two thirds of the
\* configured window: unreleased_size never leaves it, let alone a window of
\* zero, without an update.
WindowRestored ==
    phase = "open" /\ data = 0 /\ padding = 0 /\ grants = 0 => 3 * credit >= 2 * Configured

\* The updates never take the window of the server above the larger of its
\* default and the configured size, hence never above 2^31 - 1.
WindowBounded ==
    credit + data + padding + grants <= IF Configured > Default THEN Configured ELSE Default

===========================================================================
