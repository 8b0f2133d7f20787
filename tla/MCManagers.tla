---------------------------- MODULE MCManagers ----------------------------
(* The managers of an HTTP/2 and of an HTTP/3 connection with the tasks that *)
(* use them, for TLC: a behaviour is one of H2Conn or one of H3Conn; the     *)
(* other connection keeps its initial state.                                 *)
EXTENDS H3Conn, Integers, TLC

CONSTANTS LastId, MaxBody, MaxWindow, MaxFrame, Windows, Increments, Limits, FirstWindow, FirstLimit,
          None, Tasks, Cache, MaxReply, Nobody, GoAways, Resets, Failures, WriteFails, Redirects,
          Silent, Cancels

VARIABLES which, state, header, left, win, connWin, initWin, cur, max, pendConc, pendSend,
          pendConn, pendStream, nextId, maxSendId, goaway, phase, batch, cursor,
          place, sid, prev, sent, chan, held, senders, sending, awake, shut, pooled, aborted,
          receiver, writer, srv, got

h2Vars == <<state, header, left, win, connWin, initWin, cur, max, pendConc, pendSend,
            pendConn, pendStream, nextId, maxSendId, goaway, phase, batch, cursor,
            place, sid, prev, sent, chan, held, senders, sending, awake, shut, pooled, aborted,
            receiver, writer, srv, got>>

M == INSTANCE H2Conn WITH pc <- place, reader <- receiver

\* What the peer answers to the two requests on the HTTP/3 connection.
Responses == <<<<"B", "D", "F">>, <<"H", "F">>>>

Init == which \in {"H2", "H3"} /\ M!ConnInit /\ H3Init
Next == \/ which = "H2" /\ M!ConnNext /\ UNCHANGED <<which, h3Vars>>
        \/ which = "H3" /\ H3Next /\ UNCHANGED <<which, h2Vars>>
Spec == Init /\ [][Next]_<<which, h2Vars, h3Vars>>

---------------------------------------------------------------------------
\* On both connections a task reads the beginning of the answer to its own
\* request, nothing lost and nothing twice, a response that is over was whole,
\* and when the HTTP/3 manager sleeps nothing it could deliver is left in QUIC.
DeliveredWhole == /\ which = "H2" => M!DeliveredInOrder
                  /\ which = "H3" => ResponseWhole /\ LeftUnread

\* A manager that is gone has told every task that still waits for it.
AllTold == /\ which = "H2" => M!ToldBeforeExit
           /\ which = "H3" => EveryoneTold

\* H2Conn: no connection whose manager has returned is handed out as usable.
FlaggedWhenGone == which = "H2" => M!FlaggedWhenGone

\* H3Conn: the server never has more unanswered requests than it allows, and no
\* request waits for a slot that is free.
SlotsExact == which = "H3" => ConcurrencyKept /\ NoIdleSlot
===========================================================================
