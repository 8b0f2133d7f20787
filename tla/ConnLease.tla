----------------------------- MODULE ConnLease -----------------------------
(***************************************************************************)
(* What a pool of HTTP/1 connections promises its users, whatever the      *)
(* flags, lists and locks it is built from: a connection is lent to one    *)
(* user at a time, and no more than Limit connections are lent at once.    *)
(***************************************************************************)
EXTENDS Naturals, FiniteSets

CONSTANT Limit   \* most connections in use

VARIABLE held    \* pairs of a user and a connection lent to it

Lent == {p[2] : p \in held}

Init == held = {}

Take(p) ==
    /\ p[2] \notin Lent
    /\ Cardinality(Lent) < Limit
    /\ held' = held \cup {p}

GiveBack(p) == held' = held \ {p}

Next ==
    \/ \E p \in held' \ held : Take(p)
    \/ \E p \in held : GiveBack(p)

Spec == Init /\ [][Next]_held

=============================================================================
