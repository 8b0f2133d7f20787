------------------------ MODULE ClientRequestProofs ------------------------
(***************************************************************************)
(* Theorems about ClientRequest, for every limit, number of retries,       *)
(* timeout, body and set of authorities.                                   *)
(***************************************************************************)
EXTENDS ClientRequest, SequenceTheorems, TLAPS

\* Time for the leaves that cite no prover.
USE SMTT(30)

\* The request goes to another authority only without its sensitive headers.
SecretInv == secret => host = Home

\* On HTTP/1.1 the body is at its start before an attempt, is read by the
\* current attempt only, and by nobody once the attempt has failed.
BodyInv == version = "http1" =>
    /\ old = 0
    /\ step = "begin" => pos = 0
    /\ step \in {"begin", "error"} => up = "none"
    /\ up = "going" => read = [i \in 1 .. pos |-> i]
    /\ up = "all" => read = [i \in 1 .. Units |-> i]

\* The attempts of the tries that are over.
Spent == (Retries - retries) * PerTry

\* The attempts of the current try are counted by its redirects.
CountInv ==
    /\ step = "begin" => sent <= Spent + hops /\ hops < PerTry
    /\ step \in {"await", "head", "body", "done"} =>
           sent <= Spent + hops + 1 /\ hops < PerTry
    /\ step \in {"error", "failed"} => sent <= Spent + PerTry

\* The time the tries so far may have taken together.
Passed == (Retries - retries + 1) * Total

\* The clock does not pass the total timeout of the current try, and each try
\* starts its timeout before that of the try before it is over.
TimeInv ==
    /\ total <= Passed
    /\ step \in {"begin", "await", "head", "error"} => now <= total
    /\ step = "done" => now < total /\ now < due

---------------------------------------------------------------------------
\* Every reachable state of the call is well typed.
THEOREM RequestTypes == Spec => []TypeOK
<1> USE RequestAssumption
<1>1. Init => TypeOK
  BY DEF Init, TypeOK, Steps
<1>2. TypeOK /\ [Next]_vars => TypeOK'
  <2> SUFFICES ASSUME TypeOK, [Next]_vars PROVE TypeOK'
    OBVIOUS
  <2> USE DEF TypeOK, Steps, vars, retrying, request, upload, clock
  <2>1. CASE SendAttempt
    <3>1. due' \in Nat
      BY <2>1 DEF SendAttempt
    <3>2. sent' \in Nat /\ read' \in Seq(1 .. Units)
      BY <2>1 DEF SendAttempt
    <3>3. QED
      BY <2>1, <3>1, <3>2 DEF SendAttempt
  <2>2. CASE ReadBody
    <3>1. CASE pos < Units
      <4>1. pos + 1 \in 1 .. Units /\ pos + 1 \in 0 .. Units /\ read \in Seq(1 .. Units)
        BY <3>1
      <4>a. pos' = pos + 1 /\ read' = Append(read, pos + 1)
        BY <2>2, <3>1 DEF ReadBody
      <4>b. Append(read, pos + 1) \in Seq(1 .. Units)
        BY <4>1, AppendProperties, ZenonT(30)
      <4>2. pos' \in 0 .. Units /\ read' \in Seq(1 .. Units)
        BY <4>1, <4>a, <4>b, ZenonT(30)
      <4>3. QED
        BY <2>2, <3>1, <4>2 DEF ReadBody
    <3>2. CASE ~(pos < Units)
      BY <2>2, <3>2 DEF ReadBody
    <3>3. QED
      BY <3>1, <3>2
  <2>3. CASE OldReads
    BY <2>3 DEF OldReads
  <2>4. CASE OldStops
    BY <2>4 DEF OldStops
  <2>5. CASE Answer
    BY <2>5 DEF Answer
  <2>6. CASE TimerFires
    BY <2>6 DEF TimerFires, Failed, Leave
  <2>7. CASE \E open \in BOOLEAN : AttemptFails(open)
    BY <2>7 DEF AttemptFails, Failed, Leave
  <2>8. CASE \E to \in Hosts : Follow(to)
    BY <2>8 DEF Follow, Redirected, Leave
  <2>9. CASE \E to \in Hosts : FollowFails(to)
    BY <2>9 DEF FollowFails, Redirected, Failed, Leave
  <2>10. CASE \E why \in {"location", "limit"} : NotFollowed(why)
    BY <2>10 DEF NotFollowed, Failed, Leave
  <2>11. CASE Final
    BY <2>11 DEF Final
  <2>12. CASE ReadResponse
    BY <2>12 DEF ReadResponse
  <2>13. CASE Retry
    BY <2>13 DEF Retry
  <2>14. CASE GiveUp
    BY <2>14 DEF GiveUp
  <2>15. CASE Tick
    BY <2>15 DEF Tick
  <2>16. CASE UNCHANGED vars
    BY <2>16
  <2>17. QED
    BY ONLY [Next]_vars, <2>1, <2>2, <2>3, <2>4, <2>5, <2>6, <2>7, <2>8, <2>9, <2>10, <2>11,
       <2>12, <2>13, <2>14, <2>15, <2>16, ZenonT(30) DEF Next
<1>3. QED
  BY <1>1, <1>2, PTL DEF Spec

---------------------------------------------------------------------------
\* Sensitive headers are only ever sent to the authority they were set for.
THEOREM RequestSecret == Spec => []SecretStays
<1>1. Init => SecretInv
  BY DEF Init, SecretInv
<1>2. SecretInv /\ [Next]_vars => SecretInv'
  <2> SUFFICES ASSUME SecretInv, [Next]_vars PROVE SecretInv'
    OBVIOUS
  <2> USE DEF SecretInv
  <2>1. CASE \E to \in Hosts : Redirected(to)
    BY <2>1, ZenonT(30) DEF Redirected
  <2>2. CASE UNCHANGED request
    BY <2>2 DEF request
  <2>3. QED
    BY <2>1, <2>2, ZenonT(30) DEF Next, vars, SendAttempt, ReadBody, OldReads, OldStops,
       Answer, TimerFires, AttemptFails, Follow, FollowFails, NotFollowed,
       Final, ReadResponse, Retry, GiveUp, Tick
<1>3. SecretInv => SecretStays
  BY DEF SecretInv, SecretStays
<1>4. QED
  BY <1>1, <1>2, <1>3, PTL DEF Spec

---------------------------------------------------------------------------
\* On HTTP/1.1 every complete upload is the whole body, whatever went before.
THEOREM RequestBody == Spec => []BodyWhole
<1> USE RequestAssumption
<1>1. Init => BodyInv
  BY DEF Init, BodyInv
<1>2. TypeOK /\ BodyInv /\ [Next]_vars => BodyInv'
  <2> SUFFICES ASSUME TypeOK, BodyInv, [Next]_vars, version' = "http1" PROVE BodyInv'
    BY DEF BodyInv
  <2>a. version = "http1"
    BY ZenonT(30) DEF Next, vars, request, SendAttempt, ReadBody, OldReads, OldStops,
       Answer, TimerFires, AttemptFails, Follow, FollowFails, NotFollowed,
       Redirected, Final, ReadResponse, Retry, GiveUp, Tick
  <2> USE <2>a
  <2> USE DEF BodyInv, vars, retrying, request, upload, clock
  <2>1. CASE SendAttempt
    BY <2>1 DEF SendAttempt
  <2>2. CASE ReadBody
    <3>1. CASE pos < Units
      <4>1. /\ read = [i \in 1 .. pos |-> i] /\ pos \in Nat
            /\ read' = Append(read, pos + 1) /\ pos' = pos + 1
        BY <2>2, <3>1 DEF ReadBody, TypeOK
      <4>2. Len(read) = pos /\ read \in Seq(Nat)
        BY <4>1, 1 .. Units \subseteq Nat DEF TypeOK
      <4>3. read' \in Seq(Nat) /\ Len(read') = pos + 1
        BY <4>1, <4>2
      <4>4. \A i \in 1 .. pos + 1 : read'[i] = i
        BY <4>1, <4>2
      <4>5. read' = [i \in 1 .. pos' |-> i]
        BY <4>1, <4>3, <4>4
      <4>6. QED
        BY <2>2, <3>1, <4>1, <4>5 DEF ReadBody
    <3>2. CASE ~(pos < Units)
      <4>1. pos = Units
        BY <3>2 DEF TypeOK
      <4>2. QED
        BY <2>2, <3>2, <4>1 DEF ReadBody
    <3>3. QED
      BY <3>1, <3>2
  <2>3. CASE OldReads \/ OldStops
    BY <2>3 DEF OldReads, OldStops
  <2>4. CASE Answer
    BY <2>4 DEF Answer
  <2>5. CASE TimerFires
    BY <2>5 DEF TimerFires, Failed, Leave
  <2>6. CASE \E open \in BOOLEAN : AttemptFails(open)
    BY <2>6 DEF AttemptFails, Failed, Leave
  <2>7. CASE \E to \in Hosts : Follow(to)
    BY <2>7 DEF Follow, Redirected, Leave
  <2>8. CASE \E to \in Hosts : FollowFails(to)
    BY <2>8 DEF FollowFails, Redirected, Failed, Leave
  <2>9. CASE \E why \in {"location", "limit"} : NotFollowed(why)
    BY <2>9 DEF NotFollowed, Failed, Leave
  <2>10. CASE Final
    BY <2>10 DEF Final
  <2>11. CASE ReadResponse
    BY <2>11 DEF ReadResponse
  <2>12. CASE Retry
    BY <2>12 DEF Retry
  <2>13. CASE GiveUp
    BY <2>13 DEF GiveUp
  <2>14. CASE Tick
    BY <2>14 DEF Tick
  <2>15. CASE UNCHANGED vars
    BY <2>15
  <2>16. QED
    BY ONLY [Next]_vars, <2>1, <2>2, <2>3, <2>4, <2>5, <2>6, <2>7, <2>8, <2>9, <2>10, <2>11,
       <2>12, <2>13, <2>14, <2>15, ZenonT(30) DEF Next
<1>3. BodyInv => BodyWhole
  BY DEF BodyInv, BodyWhole
<1>4. QED
  BY <1>1, <1>2, <1>3, RequestTypes, PTL DEF Spec

---------------------------------------------------------------------------
\* A try more is PerTry attempts more.
LEMMA SpentStep ==
    ASSUME NEW r \in Nat, r > 0, r <= Retries
    PROVE  /\ (Retries - (r - 1)) * PerTry = (Retries - r) * PerTry + PerTry
           /\ (Retries - r) * PerTry + PerTry <= Tries * PerTry
<1>1. PerTry \in Nat /\ Retries \in Nat
  BY RequestAssumption DEF PerTry
<1>2. \A a, b, c \in Nat : a <= b => a * c <= b * c
  OBVIOUS
<1>3. (Retries - r) + 1 \in Nat /\ (Retries - r) + 1 <= Tries
  BY <1>1 DEF Tries
<1>4. ((Retries - r) + 1) * PerTry = (Retries - r) * PerTry + PerTry
  BY <1>1
<1>5. ((Retries - r) + 1) * PerTry <= Tries * PerTry
  BY <1>1, <1>2, <1>3 DEF Tries
<1>6. Retries - (r - 1) = (Retries - r) + 1
  BY <1>1
<1>7. QED
  BY <1>4, <1>5, <1>6

\* A call never sends more than PerTry attempts for each of its Tries, however
\* redirects, timeouts and failures follow each other.
THEOREM RequestAttempts == Spec => []AttemptsBounded
<1> USE RequestAssumption
<1>1. Init => CountInv
  BY DEF Init, CountInv, Spent, PerTry
<1>2. TypeOK /\ CountInv /\ [Next]_vars => CountInv'
  <2> SUFFICES ASSUME TypeOK, CountInv, [Next]_vars PROVE CountInv'
    OBVIOUS
  <2>a. /\ PerTry \in Nat /\ Spent \in Nat /\ hops \in Nat /\ sent \in Nat
        /\ retries \in Nat /\ retries <= Retries
    BY DEF TypeOK, PerTry, Spent
  <2>b. Trigger => hops + 1 < PerTry
    BY <2>a DEF Trigger, PerTry
  <2>c. retries' = retries => Spent' = Spent
    BY DEF Spent, PerTry
  <2>d. PerTry' = PerTry
    BY DEF PerTry
  <2> HIDE DEF PerTry, Spent
  <2> USE <2>a, <2>b, <2>c, <2>d
  <2> USE DEF CountInv, retrying
  <2>1. CASE SendAttempt
    BY <2>1 DEF SendAttempt
  <2>2. CASE ReadBody \/ OldReads \/ OldStops \/ Tick
    BY <2>2 DEF ReadBody, OldReads, OldStops, Tick
  <2>3. CASE Answer
    BY <2>3 DEF Answer
  <2>4. CASE TimerFires
    BY <2>4 DEF TimerFires, InFlight, Failed
  <2>5. CASE \E open \in BOOLEAN : AttemptFails(open)
    BY <2>5 DEF AttemptFails, Failed
  <2>6. CASE \E to \in Hosts : Follow(to)
    BY <2>6 DEF Follow, Redirected
  <2>7. CASE \E to \in Hosts : FollowFails(to)
    BY <2>7 DEF FollowFails, Redirected, Failed
  <2>8. CASE \E why \in {"location", "limit"} : NotFollowed(why)
    BY <2>8 DEF NotFollowed, Failed
  <2>9. CASE Final
    BY <2>9 DEF Final
  <2>10. CASE ReadResponse
    BY <2>10 DEF ReadResponse
  <2>11. CASE Retry
    <3>1. Spent' = Spent + PerTry
      BY <2>11, SpentStep DEF Retry, Spent
    <3>2. PerTry > 0
      BY DEF PerTry
    <3>3. QED
      BY <2>11, <3>1, <3>2 DEF Retry
  <2>12. CASE GiveUp
    BY <2>12 DEF GiveUp
  <2>13. CASE UNCHANGED vars
    BY <2>13 DEF vars
  <2>14. QED
    BY <2>1, <2>2, <2>3, <2>4, <2>5, <2>6, <2>7, <2>8, <2>9, <2>10, <2>11,
       <2>12, <2>13 DEF Next
<1>3. TypeOK /\ CountInv => AttemptsBounded
  <2> SUFFICES ASSUME TypeOK, CountInv PROVE AttemptsBounded
    OBVIOUS
  <2>1. PerTry \in Nat /\ Spent \in Nat /\ hops \in Nat /\ sent \in Nat
    BY DEF TypeOK, PerTry, Spent
  <2>2. Spent + PerTry <= Tries * PerTry
    <3>1. retries \in Nat /\ retries <= Retries
      BY DEF TypeOK
    <3>2. CASE retries > 0
      BY <3>1, <3>2, SpentStep DEF Spent
    <3>3. CASE retries = 0
      <4>1. Tries * PerTry = Retries * PerTry + PerTry
        BY <2>1 DEF Tries
      <4>2. QED
        BY <3>3, <4>1, <2>1 DEF Spent
    <3>4. QED
      BY <3>1, <3>2, <3>3
  <2>3. sent <= Spent + PerTry
    BY <2>1 DEF CountInv, TypeOK, Steps
  <2>4. QED
    <3>1. Tries * PerTry \in Nat
      BY <2>1 DEF Tries
    <3>2. QED
      BY <2>1, <2>2, <2>3, <3>1 DEF AttemptsBounded
<1>4. QED
  BY <1>1, <1>2, <1>3, RequestTypes, PTL DEF Spec

---------------------------------------------------------------------------
\* A retry adds one total timeout to the time a call may take.
LEMMA PassedStep ==
    ASSUME NEW r \in Nat, r <= Retries
    PROVE  /\ (Retries - r + 1) * Total \in Nat
           /\ (Retries - r + 1) * Total <= Tries * Total
           /\ r > 0 => (Retries - (r - 1) + 1) * Total = (Retries - r + 1) * Total + Total
<1>1. Total \in Nat /\ Retries \in Nat
  BY RequestAssumption
<1>2. \A a, b, c \in Nat : a <= b => a * c \in Nat /\ a * c <= b * c
  OBVIOUS
<1>3. \A a, c \in Nat : (a + 1) * c = a * c + c
  OBVIOUS
<1>4. Retries - r + 1 \in Nat /\ Tries \in Nat /\ Retries - r + 1 <= Tries
  BY <1>1 DEF Tries
<1>5. r > 0 => Retries - (r - 1) + 1 = (Retries - r + 1) + 1
  BY <1>1
<1> QED BY <1>1, <1>2, <1>3, <1>4, <1>5, ZenonT(30)

\* A body that was read to its end was read before both of its sleeps were over,
\* and the caller waits for a head no longer than one total timeout per try:
\* TimeoutFuture is renewed by a retry and by nothing else.
THEOREM RequestInTime == Spec => []DoneInTime
<1> USE RequestAssumption
<1>1. Init => TimeInv
  <2> SUFFICES ASSUME Init PROVE TimeInv
    OBVIOUS
  <2>1. Passed = Total
    BY DEF Init, Passed
  <2> QED BY <2>1 DEF Init, TimeInv
<1>2. TypeOK /\ TimeInv /\ [Next]_vars => TimeInv'
  <2> SUFFICES ASSUME TypeOK, TimeInv, [Next]_vars PROVE TimeInv'
    OBVIOUS
  <2>a. now \in Nat /\ total \in Nat /\ due \in Nat /\ retries \in Nat /\ retries <= Retries
    BY DEF TypeOK
  <2>b. retries' = retries => Passed' = Passed
    BY DEF Passed
  <2>c. Passed \in Nat
    BY <2>a, PassedStep DEF Passed
  <2> USE <2>a, <2>b, <2>c
  <2> USE DEF TimeInv, retrying, clock
  <2>1. CASE SendAttempt
    BY <2>1 DEF SendAttempt
  <2>2. CASE ReadBody \/ OldReads \/ OldStops
    BY <2>2 DEF ReadBody, OldReads, OldStops
  <2>3. CASE Answer
    BY <2>3 DEF Answer
  <2>4. CASE TimerFires
    BY <2>4 DEF TimerFires, InFlight, Failed
  <2>5. CASE \E open \in BOOLEAN : AttemptFails(open)
    BY <2>5 DEF AttemptFails, Failed
  <2>6. CASE \E to \in Hosts : Follow(to)
    BY <2>6 DEF Follow
  <2>7. CASE \E to \in Hosts : FollowFails(to)
    BY <2>7 DEF FollowFails, Failed
  <2>8. CASE \E why \in {"location", "limit"} : NotFollowed(why)
    BY <2>8 DEF NotFollowed, Failed
  <2>9. CASE Final
    BY <2>9 DEF Final
  <2>10. CASE ReadResponse
    BY <2>10 DEF ReadResponse
  <2>11. CASE Retry
    <3>1. /\ step = "error" /\ retries > 0 /\ retries' = retries - 1 /\ step' = "begin"
          /\ total' = now + Total /\ now' = now
      BY <2>11 DEF Retry
    <3>2. Passed' = Passed + Total
      BY <3>1, PassedStep DEF Passed
    <3> QED BY <3>1, <3>2
  <2>12. CASE GiveUp
    BY <2>12 DEF GiveUp
  <2>13. CASE Tick
    BY <2>13 DEF Tick, InFlight
  <2>14. CASE UNCHANGED vars
    BY <2>14 DEF vars
  <2> QED
    BY <2>1, <2>2, <2>3, <2>4, <2>5, <2>6, <2>7, <2>8, <2>9, <2>10, <2>11,
       <2>12, <2>13, <2>14 DEF Next
<1>3. TypeOK /\ TimeInv => DoneInTime
  <2> SUFFICES ASSUME TypeOK, TimeInv PROVE DoneInTime
    OBVIOUS
  <2>1. now \in Nat /\ total \in Nat /\ retries \in Nat /\ retries <= Retries
    BY DEF TypeOK
  <2>2. Passed \in Nat /\ Passed <= Tries * Total
    BY <2>1, PassedStep DEF Passed
  <2>3. Tries * Total \in Nat
    BY DEF Tries
  <2> QED BY <2>1, <2>2, <2>3 DEF DoneInTime, TimeInv, InFlight
<1>4. QED
  BY <1>1, <1>2, <1>3, RequestTypes, PTL DEF Spec
=============================================================================
