--------------------------- MODULE ClientRequest ---------------------------
(***************************************************************************)
(* One call of Client::request (async_impl/client.rs): the retry loop      *)
(* around send_request, the redirect loop inside it (util/redirect.rs),    *)
(* the total and the request timeout (async_impl/timeout.rs and the sleeps *)
(* that HttpBody takes over), and the one request object that every        *)
(* attempt shares (util/request.rs, util/data_ref.rs).                     *)
(*                                                                         *)
(* An attempt is one request on the wire.  On HTTP/1.1 the task writes the *)
(* body itself, before it reads the response; on HTTP/2 the manager of the *)
(* connection reads it for the stream, also after the task has given up.   *)
(* Time is counted in ticks.  While the task waits, a timer that is due    *)
(* stops the clock until it has fired or the task has gone on: the runtime *)
(* polls a waiting task in time.  The caller polls the response body when  *)
(* it likes.                                                               *)
(***************************************************************************)
EXTENDS Integers, Sequences

CONSTANTS
    Limit,      \* Redirect::limited(Limit)
    Retries,    \* Retry::times, 0 for none
    Total,      \* the total timeout in ticks
    PerRequest, \* the request timeout in ticks
    Units,      \* length of the request body
    Hosts,      \* the authorities a Location may name
    Home,       \* the authority of the request
    Versions,   \* the versions the client may be configured for
    LastTick    \* bound of the clock

ASSUME RequestAssumption ==
    /\ Limit \in Nat /\ Retries \in Nat /\ Units \in Nat /\ LastTick \in Nat
    /\ Total \in Nat \ {0} /\ PerRequest \in Nat \ {0}
    /\ Home \in Hosts /\ Versions \subseteq {"http1", "http2"}

\* The bound of the clock lets every try time out.
ASSUME ClockAssumption == LastTick > (Retries + 1) * Total

VARIABLES
    step,       \* where the call is
    error,      \* why the last attempt failed
    retries,    \* retries left
    hops,       \* length of RedirectInfo::previous
    sent,       \* attempts made
    host,       \* authority of the request's URI
    secret,     \* the request still has its SENSITIVE_HEADERS
    version,    \* the version of HTTP of all attempts
    pos,        \* position of the request body
    read,       \* the units the current attempt has read from it
    up,         \* the upload of the current attempt: "none", "going", "all"
    old,        \* uploads of earlier attempts that go on
    now,        \* the clock
    total,      \* when the total timeout is due
    due         \* when the request timeout is due

retrying == <<error, retries>>
request == <<host, secret, version>>
upload == <<pos, read, up, old>>
clock == <<now, total, due>>
vars == <<step, retrying, hops, sent, request, upload, clock>>

Steps == {"begin", "await", "head", "error", "body", "done", "failed"}

TypeOK ==
    /\ step \in Steps
    /\ error \in {"none", "io", "time", "location", "limit", "reuse"}
    /\ retries \in 0 .. Retries /\ hops \in Nat /\ sent \in Nat
    /\ host \in Hosts /\ secret \in BOOLEAN /\ version \in Versions
    /\ pos \in 0 .. Units /\ read \in Seq(1 .. Units)
    /\ up \in {"none", "going", "all"} /\ old \in Nat
    /\ now \in 0 .. LastTick /\ total \in Nat /\ due \in Nat

Init ==
    /\ step = "begin" /\ error = "none" /\ retries = Retries
    /\ hops = 0 /\ sent = 0
    /\ host = Home /\ secret = TRUE /\ version \in Versions
    /\ pos = 0 /\ read = <<>> /\ up = "none" /\ old = 0
    /\ now = 0 /\ total = Total /\ due = PerRequest

InFlight == step \in {"begin", "await", "head"}

---------------------------------------------------------------------------
(* One attempt: send_unformatted_request. *)

\* send_request_on_conn starts the request timeout with the attempt.
SendAttempt ==
    /\ step = "begin"
    /\ step' = "await"
    /\ sent' = sent + 1
    /\ read' = <<>> /\ up' = "going"
    /\ due' = now + PerRequest
    /\ UNCHANGED <<retrying, hops, request, pos, old, now, total>>

\* poll_read of the body: the next unit, or its end.
ReadBody ==
    /\ up = "going"
    /\ IF pos < Units
         THEN pos' = pos + 1 /\ read' = Append(read, pos + 1) /\ UNCHANGED up
         ELSE up' = "all" /\ UNCHANGED <<pos, read>>
    /\ UNCHANGED <<step, retrying, hops, sent, request, old, clock>>

\* The same by the stream of an attempt that was given up.
OldReads ==
    /\ old > 0
    /\ IF pos < Units
         THEN pos' = pos + 1 /\ UNCHANGED old
         ELSE old' = old - 1 /\ UNCHANGED pos
    /\ UNCHANGED <<step, retrying, hops, sent, request, read, up, clock>>

\* The manager drops the body when it closes the stream.
OldStops ==
    /\ old > 0
    /\ old' = old - 1
    /\ UNCHANGED <<step, retrying, hops, sent, request, pos, read, up, clock>>

\* The task turns away from the attempt: an HTTP/2 stream that is still open
\* (open) keeps the body.
Leave(open) ==
    /\ old' = IF version = "http2" /\ open /\ up = "going" THEN old + 1 ELSE old
    /\ up' = "none"

\* The head of the response; HTTP/1.1 reads it only after the body is written.
Answer ==
    /\ step = "await" /\ (version = "http2" \/ up = "all")
    /\ step' = "head"
    /\ UNCHANGED <<retrying, hops, sent, request, upload, clock>>

Failed(why, open) ==
    /\ step' = "error" /\ error' = why
    /\ Leave(open)
    /\ UNCHANGED <<retries, sent, pos, read, clock>>

\* Connecting (its timeout included) or the exchange fails, on a stream the
\* connection has closed or, for a response that makes no sense, not (open).
AttemptFails(open) ==
    /\ step \in {"begin", "await"}
    /\ Failed("io", open)
    /\ UNCHANGED <<hops, request>>

\* Mutation of TimerFires: there is only the timer of the attempt.
TimerFiresOnce ==
    /\ step = "await" /\ now = due
    /\ Failed("time", TRUE)
    /\ UNCHANGED <<hops, request>>

\* TimeoutFuture: the future it wraps is dropped.
TimerFires ==
    /\ \/ step = "await" /\ now = due
       \/ InFlight /\ now = total
    /\ Failed("time", TRUE)
    /\ UNCHANGED <<hops, request>>

---------------------------------------------------------------------------
(* Redirects: Client::redirect and Redirect::redirect. *)

\* Strategy::trigger, after previous was extended.
Trigger == hops + 1 < Limit

\* Mutation of Redirected: the URI is replaced before the authorities are
\* compared.
RedirectedEarly(to) ==
    /\ hops' = hops + 1
    /\ host' = to
    /\ secret' = (secret /\ to = host')
    /\ UNCHANGED version

\* The request is pointed at the Location: the headers meant for one authority
\* are removed when it changes.
Redirected(to) ==
    /\ hops' = hops + 1
    /\ host' = to
    /\ secret' = (secret /\ to = host)
    /\ UNCHANGED version

\* A redirect is followed: body().reuse() rewinds the body.
Follow(to) ==
    /\ step = "head" /\ Trigger
    /\ Redirected(to)
    /\ step' = "begin" /\ pos' = 0 /\ read' = <<>>
    /\ Leave(TRUE)
    /\ UNCHANGED <<retrying, sent, clock>>

\* The body cannot be rewound, or an interceptor objects to the new request.
FollowFails(to) ==
    /\ step = "head" /\ Trigger
    /\ Redirected(to)
    /\ Failed("reuse", TRUE)

\* The Location is missing or illegal, or the limit is exceeded.
NotFollowed(why) ==
    /\ step = "head"
    /\ (why = "limit") => ~Trigger
    /\ hops' = hops + 1
    /\ Failed(why, TRUE)
    /\ UNCHANGED request

\* Any other response, with which both sleeps move to its body.
Final ==
    /\ step = "head"
    /\ step' = "body"
    /\ UNCHANGED <<retrying, hops, sent, request, upload, clock>>

---------------------------------------------------------------------------
(* The caller. *)

\* Mutation of ReadResponse: the response has no total sleep.
ReadUntimed ==
    /\ step = "body"
    /\ step' \in {"done", "failed"} /\ (now >= due => step' = "failed")
    /\ UNCHANGED <<retrying, hops, sent, request, upload, clock>>

\* poll_data until the body has ended, reading fails or a sleep is over.
ReadResponse ==
    /\ step = "body"
    /\ step' \in {"done", "failed"}
    /\ (now >= due \/ now >= total) => step' = "failed"
    /\ UNCHANGED <<retrying, hops, sent, request, upload, clock>>

\* Mutation of Retry: the body is not rewound.
RetryUnread ==
    /\ step = "error" /\ retries > 0
    /\ retries' = retries - 1
    /\ step' = "begin" /\ hops' = 0 /\ error' = "none"
    /\ read' = <<>>
    /\ total' = now + Total
    /\ UNCHANGED <<sent, request, pos, up, old, now, due>>

\* The error is retried: a new TimeoutFuture around a new send_request, with
\* the request as the last redirect has left it.
Retry ==
    /\ step = "error" /\ retries > 0
    /\ retries' = retries - 1
    /\ step' = "begin" /\ hops' = 0 /\ error' = "none"
    /\ pos' = 0 /\ read' = <<>>
    /\ total' = now + Total
    /\ UNCHANGED <<sent, request, up, old, now, due>>

\* No retry is left, the body cannot be rewound or an interceptor objects.
GiveUp ==
    /\ step = "error"
    /\ step' = "failed"
    /\ UNCHANGED <<retrying, hops, sent, request, upload, clock>>

Tick ==
    /\ now < LastTick
    /\ step = "body" \/ (InFlight /\ now < total)
    /\ step = "await" => now < due
    /\ now' = now + 1
    /\ UNCHANGED <<step, retrying, hops, sent, request, upload, total, due>>

Next ==
    \/ SendAttempt \/ ReadBody \/ OldReads \/ OldStops
    \/ Answer \/ TimerFires
    \/ \E open \in BOOLEAN : AttemptFails(open)
    \/ \E to \in Hosts : Follow(to) \/ FollowFails(to)
    \/ \E why \in {"location", "limit"} : NotFollowed(why)
    \/ Final \/ ReadResponse \/ Retry \/ GiveUp \/ Tick

Spec == Init /\ [][Next]_vars

\* Time passes and the runtime polls the task when a timer is due or when it
\* has something to do.  Nothing is assumed of the server or of the caller.
Fairness ==
    /\ WF_vars(Tick) /\ WF_vars(TimerFires)
    /\ WF_vars(Retry \/ GiveUp)

FairSpec == Spec /\ Fairness

---------------------------------------------------------------------------
(* Properties. *)

Tries == Retries + 1
PerTry == IF Limit = 0 THEN 1 ELSE Limit

\* On HTTP/1.1 every attempt whose upload is complete has sent the body from its
\* first unit to its last, however the attempts before it ended: reuse() rewinds
\* the body before each redirect and each retry.
BodyWhole == version = "http1" /\ up = "all" => read = [i \in 1 .. Units |-> i]

\* Authorization, Cookie and the like are only sent to the authority the caller
\* set them for, through any chain of redirects and retries: a retry starts from
\* the redirected request, and coming back to the first authority does not bring
\* the headers back.
SecretStays == step = "await" /\ secret => host = Home

\* A response body that was read to its end was so within the total timeout of
\* its try and within the request timeout of its attempt: both sleeps move from
\* the futures to the body.  The caller waits for the head at most Retries + 1
\* times the total timeout: redirects do not start it again, retries do.
DoneInTime == /\ step = "done" => now < total /\ now < due
              /\ InFlight => now <= Tries * Total

\* One call sends at most one attempt per try when nothing is followed, and
\* otherwise at most Limit attempts per try, a try being the first one or a
\* retry: the redirect count starts again with every try.
AttemptsBounded == sent <= Tries * PerTry

\* The call returns although neither a connect nor a server ever answers.
Returns == <>(step \in {"body", "done", "failed"})

\* util/request.rs, RequestArc::ref_mut: "only one coroutine gets the handle at
\* the same time".  Two uploads never read one body at the same time.
OneReader == ~(up = "going" /\ old > 0)
=============================================================================
