---------------------------- MODULE HappyEyeballs ----------------------------
(***************************************************************************)
(* Opening a TCP connection to one of the addresses of a host:             *)
(* async_impl/dns/happy_eyeballs.rs under the connect timeout of           *)
(* Client::connect_to.  The family of the first address is preferred; the  *)
(* other one joins after a delay.  Time is counted in ticks; what is due   *)
(* at the same tick happens in any order, and before the next tick.        *)
(***************************************************************************)
EXTENDS Naturals, Sequences

CONSTANTS Hosts,      \* address lists; an address: [v6, answer, after]
          Timeouts,   \* connect timeouts in ticks, 0 is Timeout::none()
          Delay       \* HAPPY_EYEBALLS_PREFERRED_TIMEOUT_MS

VARIABLES addrs, timeout, now,
          stage,      \* "first", "both", "last" or "done"
          preferred, second,   \* the attempts that run: [i, since], i = 0 when off
          res,        \* the address connected to, or none, and why
          again       \* the preferred family was begun anew

vars == <<addrs, timeout, now, stage, preferred, second, res, again>>

\* split_preferred_addrs: the family of the first address, then the other.
Family(p) == SelectSeq(addrs, LAMBDA a : (a.v6 = addrs[1].v6) = p)
Preferred == Family(TRUE)
Second == Family(FALSE)

Off == [i |-> 0, since |-> 0]
Begin == [i |-> 1, since |-> now]

\* HappyEyeballs::new gives each address its share of the timeout; a family
\* of none has none to give.
Share(fam) == IF fam = <<>> THEN 0 ELSE timeout \div Len(fam)

\* Without a connect timeout it is the system that gives an address up.
Init == /\ addrs \in Hosts
        /\ timeout \in Timeouts
        /\ timeout = 0 => \A i \in DOMAIN addrs : addrs[i].answer # "never"
        /\ now = 0
        /\ stage = "first"
        /\ preferred = [i |-> 1, since |-> 0]
        /\ second = Off
        /\ res = [addr |-> <<>>, why |-> "none"]
        /\ again = FALSE

\* connect of one address: what is due for the attempt, if anything.
Answered(fam, a) == LET d == fam[a.i] IN d.answer # "never" /\ now >= a.since + d.after
TimedOut(fam, a) == timeout # 0 /\ now >= a.since + Share(fam)
Due(fam, a) == a.i # 0 /\ (a.i <= Len(fam) => Answered(fam, a) \/ TimedOut(fam, a))

\* The outcomes of an attempt that is due: a stream, or the next address.
\* RemoteAddrs::connect fails when there is none left ("Invalid domain" if
\* there never was one).
Outcome(fam, a) == (IF Answered(fam, a) THEN {IF fam[a.i].answer = "ok" THEN "ok" ELSE "next"} ELSE {})
                     \cup (IF TimedOut(fam, a) THEN {"next"} ELSE {})
Outcomes(fam, a) == IF a.i > Len(fam) THEN {"err"} ELSE Outcome(fam, a)
FirstErrorEnds(fam, a) == [i |-> Len(fam) + 1, since |-> now]
NextAddr(fam, a) == [i |-> a.i + 1, since |-> now]

Done(a, why) == stage' = "done" /\ res' = [addr |-> a, why |-> why] /\ preferred' = Off /\ second' = Off

\* The preferred family's attempt.  When it fails, the other family is all
\* that remains: begun now in the first stage, begun anew in the second.
\* A host of one family has nothing else.
PreferredStep ==
  /\ Due(Preferred, preferred)
  /\ \E o \in Outcomes(Preferred, preferred) :
       \/ o = "ok" /\ Done(<<Preferred[preferred.i]>>, "ok")
       \/ o = "next" /\ preferred' = NextAddr(Preferred, preferred) /\ UNCHANGED <<stage, res, second>>
       \/ o = "err" /\ stage # "last" /\ Second # <<>>
            /\ stage' = "last" /\ preferred' = Off /\ second' = Begin /\ res' = res
       \/ o = "err" /\ (stage = "last" \/ Second = <<>>) /\ Done(<<>>, "err")
  /\ UNCHANGED <<addrs, timeout, now, again>>

\* The other family's attempt; when it fails while the preferred one runs,
\* the preferred one is begun anew.
SecondStep ==
  /\ Due(Second, second)
  /\ \E o \in Outcomes(Second, second) :
       \/ o = "ok" /\ Done(<<Second[second.i]>>, "ok") /\ again' = again
       \/ o = "next" /\ second' = NextAddr(Second, second) /\ UNCHANGED <<stage, res, preferred, again>>
       \/ o = "err" /\ stage = "both"
            /\ stage' = "last" /\ second' = Off /\ preferred' = Begin /\ res' = res /\ again' = TRUE
       \/ o = "err" /\ stage = "last" /\ Done(<<>>, "err") /\ again' = again
  /\ UNCHANGED <<addrs, timeout, now>>

\* The delay is over: the preferred future was consumed by the select, so a
\* new one races with the other family.
DelayDue == stage = "first" /\ Second # <<>> /\ now >= Delay
DelayOver == /\ DelayDue
             /\ stage' = "both" /\ preferred' = Begin /\ second' = Begin /\ again' = TRUE
             /\ UNCHANGED <<addrs, timeout, now, res>>

\* Client::connect_to drops the whole future when the timeout is over.
Deadline == timeout # 0 /\ now >= timeout
ConnectTimeout == /\ stage # "done" /\ Deadline
                  /\ Done(<<>>, "timeout")
                  /\ UNCHANGED <<addrs, timeout, now, again>>

Tick == /\ stage # "done"
        /\ ~Due(Preferred, preferred) /\ ~Due(Second, second) /\ ~DelayDue /\ ~Deadline
        /\ now' = now + 1
        /\ UNCHANGED <<addrs, timeout, stage, preferred, second, res, again>>

Step == PreferredStep \/ SecondStep \/ DelayOver \/ ConnectTimeout \/ Tick
Next == Step \/ (stage = "done" /\ UNCHANGED vars)

Spec == Init /\ [][Next]_vars /\ WF_vars(Step)

----------------------------------------------------------------------------
\* An address that accepts in less than the time it is given.
Reachable(fam) == \E i \in DOMAIN fam : fam[i].answer = "ok" /\ (timeout = 0 \/ fam[i].after < Share(fam))

\* No reachable address is missed: connect fails only if no address of
\* either family accepts within its share, whichever order the failures, the
\* delay and the answers come in.  The connect timeout alone can prevent it,
\* and only when the preferred family was begun anew or had to fail first.
ReachedIfReachable ==
  stage = "done" /\ res.addr = <<>> =>
    \/ ~Reachable(Preferred) /\ ~Reachable(Second)
    \/ res.why = "timeout" /\ (again \/ (~Reachable(Preferred) /\ Second # <<>>))

\* The other family is tried only after the delay or after every preferred
\* address failed: a preferred address that accepts within the delay wins.
PreferredWins ==
  stage = "done" /\ res.addr # <<>> =>
    \/ res.addr[1].v6 = addrs[1].v6
    \/ now >= Delay
    \/ \A i \in DOMAIN Preferred : Preferred[i].answer # "ok" \/ (timeout # 0 /\ Preferred[i].after >= Share(Preferred))

Ended == stage = "done"

\* connect always comes back: with a connect timeout at the latest then, and
\* without one when the network has given every address up.
ConnectEnds == <>Ended
=============================================================================
