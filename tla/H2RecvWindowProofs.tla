------------------------ MODULE H2RecvWindowProofs ------------------------
(***************************************************************************)
(* The receive window for every default and every configured size whose    *)
(* double fits an i32, against a server that does not pad.                 *)
(***************************************************************************)
EXTENDS H2RecvWindow, TLAPS

\* Time for the leaves that cite no prover.
USE SMTT(30)

Benign == Padding = 0 /\ 2 * Configured < Half

Larger == IF Configured > Default THEN Configured ELSE Default

\* Between two steps an open window needs no update: it is above the configured
\* size (a smaller size was configured) or at least two thirds of it.
Settled == notification >= Configured \/ 3 * notification >= 2 * Configured

IInv ==
    /\ notification \in 0 .. Larger /\ actual \in 0 .. Half - 1
    /\ credit \in Nat /\ data \in Nat /\ grants \in Nat /\ padding = 0
    /\ phase \in {"new", "open"}
    /\ notification = credit + data + grants
    /\ phase = "new" => notification = Default /\ grants = 0 /\ data = 0
    /\ phase = "open" => actual = Configured /\ Settled

\* check_window_update leaves a settled window: what it gives back closes the
\* gap exactly, and what it does not give back is at most half of the rest.
LEMMA ReleaseSettles ==
    ASSUME Benign, NEW n \in 0 .. Larger
    PROVE  LET u == Unreleased(n, Configured)
           IN  /\ u \in Nat
               /\ n + u \in 0 .. Larger
               /\ Wrap(n + u) = n + u
               /\ n + u >= Configured \/ 3 * (n + u) >= 2 * Configured
<1> DEFINE gap == Configured - n
<1>1. /\ Half \in Nat /\ Configured \in Nat /\ Larger \in 0 .. Half - 1
      /\ 2 * Configured < Half /\ Configured <= Larger /\ n \in 0 .. Larger
  BY WindowAssumption DEF Benign, Larger
<1>2. /\ \A x \in 0 .. Larger : Wrap(x) = x
      /\ Wrap(gap) = gap /\ (gap > 0 => Wrap(gap * 2) = gap * 2)
  BY ONLY <1>1, SMTT(30) DEF Wrap
<1>3. CASE gap > 0 /\ gap * 2 > n
  <2>1. Unreleased(n, Configured) = gap
    BY <1>2, <1>3 DEF Unreleased
  <2>2. gap \in Nat /\ n + gap = Configured /\ Configured \in 0 .. Larger
    BY ONLY <1>1, <1>3, SMTT(30)
  <2> QED BY ONLY <1>1, <1>2, <2>1, <2>2, SMTT(30)
<1>4. CASE ~(gap > 0 /\ gap * 2 > n)
  <2>1. Unreleased(n, Configured) = 0
    BY <1>2, <1>4 DEF Unreleased
  <2>2. n >= Configured \/ 3 * n >= 2 * Configured
    BY ONLY <1>1, <1>4, SMTT(30)
  <2> QED BY ONLY <1>1, <1>2, <2>1, <2>2, SMTT(30)
<1> QED BY ONLY <1>3, <1>4, ZenonT(30)

\* The window before Http2Dispatcher::new has set it up.
LEMMA InitIInv == Init => IInv
  BY WindowAssumption DEF Init, IInv, Larger

\* Setup, each received DATA frame and each WINDOW_UPDATE that arrives
\* preserve the invariant.
LEMMA NextIInv ==
    ASSUME Benign, IInv, [Next]_vars
    PROVE  IInv'
<1> USE WindowAssumption
<1> USE DEF Benign, IInv
<1>1. CASE Setup
  BY <1>1, ReleaseSettles DEF Setup, Release, Settled
<1>2. ASSUME NEW d \in 0 .. credit, NEW p \in 0 .. Padding, ServerSends(d, p)
      PROVE  IInv'
  BY <1>2 DEF ServerSends, Settled, Larger
<1>3. ASSUME NEW d \in 0 .. data, NEW p \in 0 .. padding, Receive(d, p)
      PROVE  IInv'
  <2>1. Available(notification) >= d
    BY DEF Available, Larger
  <2>2. notification - d \in 0 .. Larger /\ Wrap(notification - d) = notification - d
    BY DEF Wrap, Larger
  <2>3. Release(notification - d, Configured) /\ phase' = phase /\ phase = "open"
    BY <1>3, <2>1, <2>2 DEF Receive, Larger, Available
  <2>4. data' = data - d /\ padding' = padding - p /\ UNCHANGED <<actual, credit>>
    BY <1>3 DEF Receive
  <2> DEFINE u == Unreleased(notification - d, Configured)
  <2>5. notification' = notification - d + u /\ grants' = grants + u /\ u \in Nat
        /\ notification' \in 0 .. Larger /\ Settled'
    BY <2>2, <2>3, ReleaseSettles DEF Release, Settled
  <2> HIDE DEF u
  <2>6. notification' = credit' + data' + grants' /\ data' \in Nat /\ grants' \in Nat
    BY <2>4, <2>5 DEF Larger
  <2>7. phase = "open" /\ phase' = "open"
    BY <2>3
  <2>8. p = 0
    OBVIOUS
  <2>9. padding' = 0 /\ actual' = Configured /\ credit' \in Nat
    BY <2>4, <2>7, <2>8
  <2> QED
    BY <2>5, <2>6, <2>7, <2>9, ZenonT(30)
<1>4. ASSUME NEW n \in 1 .. grants, ServerGranted(n)
      PROVE  IInv'
  BY <1>4 DEF ServerGranted, Settled, Larger
<1>5. CASE UNCHANGED vars
  BY <1>5 DEF vars, Settled
<1> QED
  BY <1>1, <1>2, <1>3, <1>4, <1>5 DEF Next

\* The inductive invariant holds of every reachable state.
THEOREM WindowInvariant == Benign => (Spec => []IInv)
<1> SUFFICES ASSUME Benign PROVE Spec => []IInv
  OBVIOUS
<1>1. IInv /\ [Next]_vars => IInv'
  BY NextIInv
<1> QED
  BY <1>1, InitIInv, PTL DEF Spec

\* Client and server agree on the window once what is under way has arrived:
\* notification is what the comment in window.rs says it is.
THEOREM WindowView == Benign => (Spec => []ServerView)
<1>1. IInv => ServerView
  BY DEF IInv, ServerView
<1> QED
  BY <1>1, WindowInvariant, PTL

\* No server that stays within its window is answered FLOW_CONTROL_ERROR.
THEOREM WindowNeverAccused == Benign => (Spec => []NeverAccused)
<1>1. IInv => NeverAccused
  BY DEF IInv, NeverAccused
<1> QED
  BY <1>1, WindowInvariant, PTL

\* At least two thirds of the configured window come back to the server.
THEOREM WindowComesBack == Benign => (Spec => []WindowRestored)
<1>1. IInv => WindowRestored
  BY WindowAssumption DEF IInv, WindowRestored, Settled
<1> QED
  BY <1>1, WindowInvariant, PTL

\* The window of the server never exceeds the larger of default and configured.
THEOREM WindowStaysBounded == Benign => (Spec => []WindowBounded)
<1>1. IInv => WindowBounded
  BY WindowAssumption DEF IInv, WindowBounded, Larger
<1> QED
  BY <1>1, WindowInvariant, PTL

===========================================================================
