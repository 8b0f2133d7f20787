------------------------------- MODULE H2Conn -------------------------------
(***************************************************************************)
(* One HTTP/2 connection from the requests to the server: the tasks that   *)
(* send requests and read responses (async_impl/conn/http2.rs, the HTTP/2  *)
(* side of http_body.rs), the pool that hands the connection out           *)
(* (async_impl/pool.rs), StreamController with its bounded channel per     *)
(* stream (util/dispatcher.rs), ConnManager and its Send state             *)
(* (util/h2/manager.rs), and the reader and writer tasks (util/h2/output.rs*)
(* and input.rs).  The streams are those of H2Streams: an action here that *)
(* changes them conjoins the action of H2Streams with what happens to the  *)
(* channels.                                                               *)
(*                                                                         *)
(* The request channel is FIFO and ids are given in its order, so the n-th *)
(* request sent is stream n: the channel holds the requests nextId..sent.  *)
(* Frames of the server keep their order and are not lost, so a frame is   *)
(* modelled when ConnManager takes it.  Request bodies are ready when they *)
(* are read, and the windows large enough; H2Streams has the other cases.  *)
(***************************************************************************)
EXTENDS H2Streams

CONSTANTS
    Tasks,      \* the tasks that use the client
    Cache,      \* allowed_cache_frame_size
    MaxReply,   \* most frames in a response
    Nobody,     \* no message
    GoAways,    \* the server may send GOAWAY
    Resets,     \* the server may reset a stream in the middle of its response
    Failures,   \* the server may disconnect, reading may fail, a frame be wrong
    WriteFails, \* writing to the socket may fail
    Redirects,  \* a response may be a redirect
    Silent,     \* a response without a body does not say so in Content-Length
    Cancels     \* a task may drop its request or its response

ASSUME ConnAssumption ==
    /\ Cache \in Nat \ {0} /\ MaxReply \in Nat \ {0}
    /\ LastId * MaxBody < FirstWindow
    /\ {GoAways, Resets, Failures, WriteFails, Redirects, Silent, Cancels} \subseteq BOOLEAN

VARIABLES
    pc,         \* where each task is
    sid,        \* the stream of its request, 0 before it is sent
    prev,       \* the stream of the redirect response it still holds, or 0
    sent,       \* requests put into the request channel
    chan,       \* the channel of each stream
    held,       \* curr_message: the message that did not fit into the channel
    senders,    \* StreamController.senders
    sending,    \* ManagerState::Send, by its next_state, or "no"
    awake,      \* ConnManager was woken since its last turn
    shut,       \* io_shutdown
    pooled,     \* the dispatcher is the one the pool looks at
    aborted,    \* the dispatcher was dropped, which ends its three tasks
    reader,     \* RecvData: "run", "eof" seen, or "gone" with an error
    writer,     \* SendData: "run" or "dead"
    srv,        \* frames of each response the server has sent
    got         \* frames of each response the task has read

users == <<pc, sid, prev, got>>
channels == <<chan, held, senders, sending>>
io == <<aborted, reader, writer>>
connVars == <<vars, users, sent, channels, awake, shut, pooled, io, srv>>

\* A response frame: the n-th of its stream, end: with END_STREAM.
Reply(n, e) == [kind |-> "frame", n |-> n, end |-> e]
Rst == [kind |-> "rst", n |-> 0, end |-> TRUE]
Exit == [kind |-> "exit", n |-> 0, end |-> TRUE]

Messages == {Reply(n, e) : n \in 1 .. MaxReply, e \in BOOLEAN} \cup {Rst, Exit}

TaskPlaces == {"idle", "dispatched", "waiting", "reading", "done", "failed", "elsewhere", "quit"}

ConnTypeOK ==
    /\ pc \in [Tasks -> TaskPlaces]
    /\ sid \in [Tasks -> 0 .. LastId] /\ prev \in [Tasks -> 0 .. LastId]
    /\ sent \in 0 .. LastId
    /\ chan \in [Ids -> Seq(Messages)] /\ \A i \in Ids : Len(chan[i]) <= Cache
    /\ held \in [Ids -> Messages \cup {Nobody}]
    /\ senders \subseteq Ids /\ sending \in {"no", "receive", "exit"}
    /\ {awake, shut, pooled, aborted} \subseteq BOOLEAN
    /\ reader \in {"run", "eof", "gone"} /\ writer \in {"run", "dead"}
    /\ srv \in [Ids -> 0 .. MaxReply] /\ got \in [Ids -> 0 .. MaxReply]

ConnInit ==
    /\ Init
    /\ pc = [t \in Tasks |-> "idle"]
    /\ sid = [t \in Tasks |-> 0] /\ prev = [t \in Tasks |-> 0]
    /\ sent = 0
    /\ chan = [i \in Ids |-> <<>>] /\ held = [i \in Ids |-> Nobody]
    /\ senders = {} /\ sending = "no"
    /\ awake = FALSE /\ shut = FALSE /\ pooled = TRUE /\ aborted = FALSE
    /\ reader = "run" /\ writer = "run"
    /\ srv = [i \in Ids |-> 0] /\ got = [i \in Ids |-> 0]

Waits(t) == pc[t] \in {"waiting", "reading"}

\* The receiving end of the channel of stream i exists.
Listening(i) == \E t \in Tasks : prev[t] = i \/ (Waits(t) /\ sid[t] = i)

\* ConnManager has returned, so that all its channels are dropped.
ManagerGone == aborted \/ phase = "dead" \/ (phase = "exit" /\ sending = "no")

\* req_rx accepts requests: it is closed with a GOAWAY or an error.
ReqOpen == ~goaway /\ Running /\ ~aborted

\* ConnManager looks at what the reader has sent.
Receiving == phase = "receive" /\ sending = "no" /\ ~aborted

---------------------------------------------------------------------------
(* The tasks. *)

\* conn_h2 and exist_h2_conn: a connection that is shut is dropped and its
\* tasks aborted, one that is going away stays below a new one.
Dispatch(t) ==
    /\ pc[t] = "idle"
    /\ IF pooled /\ ~shut /\ ~goaway
         THEN pc' = [pc EXCEPT ![t] = "dispatched"] /\ UNCHANGED <<pooled, prev, aborted>>
         ELSE /\ pc' = [pc EXCEPT ![t] = "elsewhere"]
              /\ prev' = [prev EXCEPT ![t] = 0]
              /\ pooled' = FALSE
              /\ aborted' = (aborted \/ (pooled /\ shut))
    /\ UNCHANGED <<vars, sid, got, sent, channels, awake, shut, reader, writer, srv>>

\* send_frame_to_controller; a redirected request leaves its old stream in prev.
Send(t) ==
    /\ pc[t] = "dispatched" /\ sent < LastId
    /\ IF ReqOpen
         THEN /\ pc' = [pc EXCEPT ![t] = "waiting"]
              /\ sent' = sent + 1
              /\ sid' = [sid EXCEPT ![t] = sent + 1]
              /\ awake' = TRUE
              /\ UNCHANGED prev
         ELSE /\ pc' = [pc EXCEPT ![t] = "failed"]
              /\ prev' = [prev EXCEPT ![t] = 0]
              /\ UNCHANGED <<sent, sid, awake>>
    /\ UNCHANGED <<vars, got, channels, shut, pooled, io, srv>>

\* An error or the end of the response; reading a body that fails shuts the
\* connection (TextIo::shutdown), waiting for the head does not.
Over(t, how) ==
    /\ pc' = [pc EXCEPT ![t] = how]
    /\ prev' = [prev EXCEPT ![t] = 0]
    /\ shut' = (shut \/ (how = "failed" /\ pc[t] = "reading"))
    /\ UNCHANGED sid

\* recv of the head and frame_2_response.  END_STREAM on the head is not
\* looked at: only BodyLength tells that there is no body to read.
TakeHead(t, m) ==
    \/ /\ m.kind = "frame" /\ m.end /\ ~Silent
       /\ Over(t, "done")
    \/ /\ m.kind = "frame" /\ (~m.end \/ Silent)
       /\ pc' = [pc EXCEPT ![t] = "reading"]
       /\ prev' = [prev EXCEPT ![t] = 0]
       /\ UNCHANGED <<sid, shut>>
    \/ /\ m.kind # "frame"
       /\ Over(t, "failed")
    \* redirect: the response is kept, unread, until the next one has arrived.
    \/ /\ m.kind = "frame" /\ Redirects
       /\ pc' = [pc EXCEPT ![t] = "idle"]
       /\ prev' = [prev EXCEPT ![t] = IF m.end /\ ~Silent THEN 0 ELSE sid[t]]
       /\ sid' = [sid EXCEPT ![t] = 0]
       /\ UNCHANGED shut

\* poll_read of TextIo, for a task that reads its body to the end.
TakeBody(t, m) ==
    \/ /\ m.kind = "frame" /\ m.end /\ Over(t, "done")
    \/ /\ m.kind = "frame" /\ ~m.end /\ UNCHANGED <<pc, sid, prev, shut>>
    \/ /\ m.kind # "frame" /\ Over(t, "failed")

Read(t) ==
    /\ Waits(t) /\ chan[sid[t]] # <<>>
    /\ LET i == sid[t]
           m == Head(chan[i])
       IN  /\ IF pc[t] = "waiting" THEN TakeHead(t, m) ELSE TakeBody(t, m)
           /\ chan' = [chan EXCEPT ![i] = Tail(@)]
           /\ got' = [got EXCEPT ![i] = IF m.kind = "frame" THEN @ + 1 ELSE @]
    /\ UNCHANGED <<vars, sent, held, senders, sending, awake, pooled, io, srv>>

\* The channel is empty and nobody can send into it: "Response Sender Closed !".
ReadClosed(t) ==
    /\ Waits(t) /\ chan[sid[t]] = <<>> /\ ManagerGone
    /\ Over(t, "failed")
    /\ UNCHANGED <<vars, got, sent, channels, awake, pooled, io, srv>>

\* The future of the request, or the response, is dropped.
Cancel(t) ==
    /\ Cancels /\ Waits(t)
    /\ pc' = [pc EXCEPT ![t] = "quit"]
    /\ prev' = [prev EXCEPT ![t] = 0]
    /\ UNCHANGED <<vars, sid, got, sent, channels, awake, shut, pooled, io, srv>>

---------------------------------------------------------------------------
(* ConnManager taking requests and sending them. *)

\* send_message_to_stream for the streams of S: a message that finds the
\* channel full is held, and ConnManager sends nothing else before it (next).
Deliver(S, m, next) ==
    LET to == {i \in S \cap senders : Listening(i)}
        fits == {i \in to : held[i] = Nobody /\ Len(chan[i]) < Cache}
    IN  /\ chan' = [i \in Ids |-> IF i \in fits THEN Append(chan[i], m) ELSE chan[i]]
        /\ held' = [i \in Ids |-> IF i \in to \ fits THEN m ELSE held[i]]
        /\ senders' = senders \ {i \in S : ~Listening(i)}
        /\ sending' = IF to # fits THEN next ELSE sending

\* poll_recv_request and poll_input_request after a wake.
StartTurn ==
    /\ Receiving /\ awake
    /\ StartPending
    /\ awake' = FALSE
    /\ UNCHANGED <<users, sent, channels, shut, pooled, io, srv>>

TakeRequest ==
    /\ ~aborted /\ nextId <= sent
    /\ NewStream("last", 0) \/ \E b \in 0 .. MaxBody : NewStream("more", b)
    /\ senders' = senders \cup {nextId}
    /\ UNCHANGED <<users, sent, chan, held, sending, awake, shut, pooled, io, srv>>

Consume ==
    /\ ~aborted /\ nextId > sent
    /\ TryConsume
    /\ UNCHANGED <<users, sent, channels, awake, shut, pooled, io, srv>>

\* The steps of the batch that send nothing, or that find the writer alive.
Upload ==
    /\ ~aborted
    /\ \/ NextPending \/ EndBatch \/ SkipClosed
       \/ writer = "run" /\ (SendHeaders \/ Finish \/ \E n \in 1 .. MaxBody : SendData(n))
    /\ UNCHANGED <<users, sent, channels, awake, shut, pooled, io, srv>>

\* input_tx.send fails in poll_send_frame: the error leaves poll, so the manager
\* ends without a word to any stream and without setting io_shutdown.
UploadFails ==
    /\ ~aborted /\ writer = "dead"
    /\ cursor # None /\ Unclosed(cursor)
    /\ phase' = "dead" /\ cursor' = None
    /\ UNCHANGED <<streams, limits, queues, ids, batch>>
    /\ UNCHANGED <<users, sent, channels, awake, shut, pooled, io, srv>>

\* Mutation of PollBlocked: the manager sleeps when it has delivered the last.
PollBlockedAsleep ==
    LET ready == {i \in Ids : held[i] # Nobody /\ (~Listening(i) \/ Len(chan[i]) < Cache)}
        lost == {i \in ready : ~Listening(i)}
        reset == {i \in lost : Unclosed(i)}
        rest == {i \in Ids : held[i] # Nobody} \ ready
    IN  /\ sending # "no" /\ phase \in {"receive", "exit"} /\ ~aborted
        /\ ready # {}
        /\ chan' = [i \in Ids |-> IF i \in ready \ lost THEN Append(chan[i], held[i]) ELSE chan[i]]
        /\ held' = [i \in Ids |-> IF i \in ready THEN Nobody ELSE held[i]]
        /\ senders' = senders \ lost
        /\ sending' = IF rest = {} THEN "no" ELSE sending
        /\ UNCHANGED awake
        /\ state' = [i \in Ids |-> IF i \in reset THEN "LocalRst" ELSE state[i]]
        /\ header' = [i \in Ids |-> IF i \in reset THEN "none" ELSE header[i]]
        /\ left' = [i \in Ids |-> IF i \in reset THEN 0 ELSE left[i]]
        /\ cur' = cur - Cardinality(reset)
        /\ UNCHANGED <<win, connWin, initWin, max, queues, ids, loop>>
        /\ UNCHANGED <<users, sent, shut, pooled, io, srv>>

\* poll_blocked_message: what fits now is delivered, a stream whose task has gone
\* is reset; when nothing is held any more the manager goes on.
PollBlocked ==
    LET ready == {i \in Ids : held[i] # Nobody /\ (~Listening(i) \/ Len(chan[i]) < Cache)}
        lost == {i \in ready : ~Listening(i)}
        reset == {i \in lost : Unclosed(i)}
        rest == {i \in Ids : held[i] # Nobody} \ ready
    IN  /\ sending # "no" /\ phase \in {"receive", "exit"} /\ ~aborted
        /\ ready # {}
        /\ chan' = [i \in Ids |-> IF i \in ready \ lost THEN Append(chan[i], held[i]) ELSE chan[i]]
        /\ held' = [i \in Ids |-> IF i \in ready THEN Nobody ELSE held[i]]
        /\ senders' = senders \ lost
        /\ sending' = IF rest = {} THEN "no" ELSE sending
        /\ awake' = (awake \/ rest = {})
        /\ state' = [i \in Ids |-> IF i \in reset THEN "LocalRst" ELSE state[i]]
        /\ header' = [i \in Ids |-> IF i \in reset THEN "none" ELSE header[i]]
        /\ left' = [i \in Ids |-> IF i \in reset THEN 0 ELSE left[i]]
        /\ cur' = cur - Cardinality(reset)
        /\ UNCHANGED <<win, connWin, initWin, max, queues, ids, loop>>
        /\ UNCHANGED <<users, sent, shut, pooled, io, srv>>

---------------------------------------------------------------------------
(* What the reader brings.  A frame that is handed over is followed by *)
(* manage_pending_state, one that is held back ends the turn: awake.   *)

\* Mutation of ExitWithError: the result of exit_with_error is not looked at.
ExitAtOnce ==
    /\ CloseAll(state) /\ UNCHANGED <<max, maxSendId, goaway>>
    /\ Deliver({i \in Ids : Unclosed(i)}, Exit, "no")
    /\ shut' = TRUE

\* Mutation of ExitWithError: the flag is not set.
ExitUnflagged ==
    /\ CloseAll(state) /\ UNCHANGED <<max, maxSendId, goaway>>
    /\ Deliver({i \in Ids : Unclosed(i)}, Exit, "exit")
    /\ UNCHANGED shut

\* exit_with_error: the flag is set, the streams closed and told.
ExitWithError ==
    /\ CloseAll(state) /\ UNCHANGED <<max, maxSendId, goaway>>
    /\ Deliver({i \in Ids : Unclosed(i)}, Exit, "exit")
    /\ shut' = TRUE

\* An error leaves poll before exit_with_error: RST_STREAM or GOAWAY cannot be
\* handed to the writer.
Untold ==
    /\ phase' = "dead"
    /\ UNCHANGED <<streams, limits, queues, ids, batch, cursor, channels, shut>>

\* The server has the whole request.
WholeRequest(i) == state[i] \in {"LocalH", "LocalD"}

\* recv_header_frame and recv_data_frame: the next frame of a response.  When
\* the task has gone the stream is reset (unless this frame ended it); what the
\* server sends after a reset is ignored and left out.
ServerReplies(i, e) ==
    LET n == srv[i] + 1
        gone == ~(i \in senders /\ Listening(i))
    IN  /\ Receiving /\ reader = "run"
        /\ WholeRequest(i) /\ n <= MaxReply /\ (n = MaxReply => e)
        /\ srv' = [srv EXCEPT ![i] = n]
        /\ IF gone /\ ~e /\ writer = "dead"
             THEN Untold
             ELSE /\ IF n = 1 THEN RecvHeaders(i, e, gone) ELSE RecvData(i, e, gone)
                  /\ Deliver({i}, Reply(n, e), "receive")
                  /\ UNCHANGED shut
        /\ awake' = (awake \/ sending' = "no")
        /\ UNCHANGED <<users, sent, pooled, io>>

\* recv_reset_frame, with an error code.
ServerResets(i) ==
    /\ Resets /\ Receiving /\ reader = "run"
    /\ srv[i] > 0
    /\ RecvReset(i)
    /\ Deliver({i}, Rst, "receive")
    /\ awake' = (awake \/ sending' = "no")
    /\ UNCHANGED <<users, sent, shut, pooled, io, srv>>

\* recv_go_away_frame: the server has not begun the streams above last.
ServerGoesAway(last) ==
    /\ GoAways /\ Receiving /\ reader = "run" /\ ~goaway
    /\ \A i \in Ids : srv[i] > 0 => i <= last
    /\ RecvGoAway(last, TRUE)
    /\ Deliver({i \in Ids : i > last /\ state[i] # "none"}, Exit, "receive")
    /\ awake' = (awake \/ sending' = "no")
    /\ UNCHANGED <<users, sent, shut, pooled, io, srv>>

\* manage_pending_state after a GOAWAY, when every stream is closed.
LastStreamDone ==
    /\ Receiving
    /\ DealWithGoAway
    /\ shut' = (shut \/ writer = "run")
    /\ UNCHANGED <<users, sent, channels, awake, pooled, io, srv>>

\* poll_read_frame: the server closes the connection (OutputExit(Disconnect), and
\* the channel stays open) or reading fails (the channel is closed after it).
\* After a GOAWAY the manager skips OutputExit.
ReaderEnds(how) ==
    /\ Failures /\ Receiving /\ reader = "run"
    /\ reader' = how
    /\ IF goaway /\ how = "eof"
         THEN UNCHANGED <<vars, channels, shut>>
         ELSE ExitWithError
    /\ UNCHANGED <<users, sent, awake, pooled, aborted, writer, srv>>

\* manage_conn_error for a frame that breaks the protocol.
ProtocolError ==
    /\ Failures /\ Receiving /\ reader = "run"
    /\ IF writer = "dead" THEN Untold ELSE ExitWithError
    /\ UNCHANGED <<users, sent, awake, pooled, io, srv>>

\* Writing to the socket fails, the writer returns.
WriterFails ==
    /\ WriteFails /\ writer = "run" /\ ~ManagerGone
    /\ writer' = "dead"
    /\ UNCHANGED <<vars, users, sent, channels, awake, shut, pooled, aborted, reader, srv>>

---------------------------------------------------------------------------
User(t) == Send(t) \/ Read(t) \/ ReadClosed(t)

Manager ==
    \/ StartTurn \/ TakeRequest \/ Consume \/ Upload \/ UploadFails
    \/ PollBlocked \/ LastStreamDone

ReaderFails == \E how \in {"eof", "gone"} : ReaderEnds(how)

ConnNext ==
    \/ \E t \in Tasks : Dispatch(t) \/ User(t) \/ Cancel(t)
    \/ Manager
    \/ \E i \in Ids, e \in BOOLEAN : ServerReplies(i, e)
    \/ \E i \in Ids : ServerResets(i)
    \/ \E last \in 0 .. LastId : ServerGoesAway(last)
    \/ ReaderFails \/ ProtocolError \/ WriterFails

ConnSpec == ConnInit /\ [][ConnNext]_connVars

\* The runtime runs a task that was woken; a task that uses the client goes on
\* with its request, follows a redirect and reads its response; the server
\* answers a request it has; after a failed write, reading ends too.
Fairness ==
    /\ WF_connVars(Manager)
    /\ \A t \in Tasks : WF_connVars(User(t)) /\ WF_connVars(prev[t] # 0 /\ Dispatch(t))
    /\ \A i \in Ids : WF_connVars(writer = "run" /\ \E e \in BOOLEAN : ServerReplies(i, e))
    /\ WF_connVars(writer = "dead" /\ ReaderFails)

FairSpec == ConnSpec /\ Fairness

---------------------------------------------------------------------------
(* What the code must not get wrong. *)

Pending(i) == IF held[i] = Nobody THEN chan[i] ELSE Append(chan[i], held[i])

\* A task reads the frames of its response in the order of the server, none
\* lost and none twice, and the word that ends it last: a full channel delays a
\* frame (curr_message) and never drops or overtakes one.
DeliveredInOrder ==
    ~aborted => \A i \in Ids : Listening(i) =>
        LET q == Pending(i)
            frames == {k \in DOMAIN q : q[k].kind = "frame"}
        IN  /\ got[i] + Cardinality(frames) = srv[i]
            /\ \A k \in frames : q[k].n = got[i] + k
            /\ \A k \in DOMAIN q \ frames : k = Len(q)

\* When ConnManager returns by itself, every task whose request it had taken
\* finds the end of its response or the error in its channel: exit_with_error
\* waits until the full channels have room for it.
ToldBeforeExit ==
    phase = "exit" /\ sending = "no" /\ ~aborted =>
        \A t \in Tasks : Waits(t) /\ sid[t] < nextId =>
            \E k \in DOMAIN chan[sid[t]] : chan[sid[t]][k].end

\* "The connection close flag organizes new stream commits to the current
\* connection when closed" (StreamController): no connection whose manager has
\* returned is handed out as usable.
FlaggedWhenGone == ManagerGone => shut

\* "stream error will not cause manager exit" (manage_stream_error): while one
\* task still waits for its response, the manager is not ended by the failure
\* of another stream.
StreamErrorStaysLocal ==
    aborted /\ Running => \A t \in Tasks : ~(Waits(t) /\ Unclosed(sid[t]))

\* After a GOAWAY the manager takes nothing from pending_concurrency any more and
\* skips the end of the connection: a stream that waits for a slot is neither
\* sent nor closed, one that waits for the server is not told.
Stranded == goaway /\ (reader = "eof" \/ \E k \in DOMAIN pendConc : Unclosed(pendConc[k]))

\* Every request that was sent is answered, or fails: no task waits for ever on
\* a channel that is neither filled nor closed, unless a GOAWAY strands a stream.
Answered == \A t \in Tasks : Waits(t) ~> ~Waits(t) \/ Stranded

\* "Exit after the allowed stream is complete" (recv_go_away_frame): after a
\* GOAWAY the allowed streams finish and the manager returns.
GoAwayEnds == goaway ~> ManagerGone

=============================================================================
