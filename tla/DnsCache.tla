------------------------------- MODULE DnsCache ------------------------------
(***************************************************************************)
(* The resolvers of the asynchronous client with their cache:              *)
(* async_impl/dns/resolver.rs (DnsManager, DnsResult), default.rs and      *)
(* doh.rs.  resolve tidies the map on the caller's thread and hands the    *)
(* question to a blocking thread, which keeps the map locked while it asks *)
(* the system or one DoH server after the other.  A thread that panics     *)
(* poisons the lock, and every later lock().unwrap() panics in its turn.   *)
(***************************************************************************)
EXTENDS Naturals, Sequences, FiniteSets

CONSTANTS Tasks, Authorities,
          Ttl,           \* DnsManager::ttl of the default resolver
          Servers,       \* length of doh_servers
          Replies,       \* DoH replies: sequences of [addr, ttl]
          MaxEntries,    \* DEFAULT_MAX_LEN
          Horizon,       \* bound: the last tick
          MaxRounds      \* bound: lookups of a task

NoTtl == 99              \* an answer whose TTL is not found; u64::MAX
Unheld == 0              \* the map is not locked

VARIABLES kind,          \* "default" or "doh"
          now, task,     \* each: pc, authority, server, answer, round
          map, lock, poisoned

vars == <<kind, now, task, map, lock, poisoned>>

None == [ttls |-> {}, stored |-> 0, expires |-> 0]

Init == /\ kind \in {"default", "doh"}
        /\ now = 0
        /\ task = [t \in Tasks |-> [pc |-> "idle", authority |-> "none", server |-> 1, answer |-> None, round |-> 1]]
        /\ map = [a \in Authorities |-> None]
        /\ lock = Unheld
        /\ poisoned = FALSE

\* is_valid; an entry that was never made is never valid.
is_valid(e) == e.expires > now

Entries == {a \in Authorities : map[a] # None}

\* clean_expired_entries waits for the map and drops what has expired once
\* there are too many entries.
clean_expired_entries == IF Cardinality(Entries) > MaxEntries
                         THEN [a \in Authorities |-> IF is_valid(map[a]) THEN map[a] ELSE None]
                         ELSE map

\* resolve on the caller's thread.
resolve(t) == /\ task[t].pc = "idle" /\ lock = Unheld
              /\ \E a \in Authorities :
                   IF poisoned THEN task' = [task EXCEPT ![t].pc = "panicked", ![t].authority = a] /\ map' = map
                   ELSE /\ map' = clean_expired_entries
                        /\ task' = [task EXCEPT ![t].pc = "queued", ![t].authority = a]
              /\ UNCHANGED <<kind, now, lock, poisoned>>

\* The blocking thread locks the map: a valid entry answers, otherwise it
\* asks and keeps the lock.  A panic of the thread is an error of its handle.
Ask(t) == /\ task[t].pc = "queued" /\ lock = Unheld
          /\ \E e \in {map[task[t].authority]} :
               CASE poisoned -> task' = [task EXCEPT ![t].pc = "err"] /\ lock' = lock
                 [] ~poisoned /\ is_valid(e) -> task' = [task EXCEPT ![t].pc = "hit", ![t].answer = e] /\ lock' = lock
                 [] OTHER -> task' = [task EXCEPT ![t].pc = "asking"] /\ lock' = t
          /\ UNCHANGED <<kind, now, map, poisoned>>

Unlock(t) == IF lock = t THEN Unheld ELSE lock

\* The answer is stored with its expiration time and returned.
Store(t, ttls, ttl) == /\ \E e \in {[ttls |-> ttls, stored |-> now, expires |-> now + ttl]} :
                            /\ map' = [map EXCEPT ![task[t].authority] = e]
                            /\ task' = [task EXCEPT ![t].pc = "asked", ![t].answer = e]
                       /\ lock' = Unlock(t)
                       /\ UNCHANGED <<kind, now, poisoned>>

\* get_socket_addrs of the default resolver.
SystemAnswers(t) == kind = "default" /\ task[t].pc = "asking" /\ Store(t, {Ttl}, Ttl)

\* get_info: the addresses whose TTL is found, and the least of those TTLs;
\* 0 if there is none.
Found(reply) == {i \in DOMAIN reply : reply[i].addr /\ reply[i].ttl # NoTtl}
LastTtl(reply) == IF Found(reply) = {} THEN 0
                  ELSE reply[CHOOSE i \in Found(reply) : \A j \in Found(reply) : i >= j].ttl
LeastTtl(reply) == IF Found(reply) = {} THEN 0
                   ELSE reply[CHOOSE i \in Found(reply) : \A j \in Found(reply) : reply[i].ttl <= reply[j].ttl].ttl

\* doh_connect of the server whose turn it is.
DohAnswers(t) == /\ kind = "doh" /\ task[t].pc = "asking"
                 /\ \E r \in Replies : Store(t, {r[i].ttl : i \in Found(r)}, LeastTtl(r))

\* retry: after the last server the error is the answer.
AskFails(t) == /\ task[t].pc = "asking"
               /\ IF kind = "doh" /\ task[t].server < Servers
                  THEN task' = [task EXCEPT ![t].server = @ + 1] /\ lock' = lock
                  ELSE task' = [task EXCEPT ![t].pc = "err"] /\ lock' = Unlock(t)
               /\ UNCHANGED <<kind, now, map, poisoned>>

\* The parsers of doh.rs unwrap: a reply cut short, a TTL that is no number,
\* an authority without a port.
DohPanics(t) == /\ kind = "doh" /\ task[t].pc = "asking"
                /\ task' = [task EXCEPT ![t].pc = "err"]
                /\ lock' = Unlock(t)
                /\ poisoned' = TRUE
                /\ UNCHANGED <<kind, now, map>>

Tick == now < Horizon /\ now' = now + 1 /\ UNCHANGED <<kind, task, map, lock, poisoned>>

\* A task that has its answer asks for another name.
Again(t) == /\ task[t].pc \in {"hit", "asked", "err"} /\ task[t].round < MaxRounds
            /\ task' = [task EXCEPT ![t] = [@ EXCEPT !.pc = "idle", !.server = 1, !.answer = None, !.round = @ + 1]]
            /\ UNCHANGED <<kind, now, map, lock, poisoned>>

Answer(t) == SystemAnswers(t) \/ DohAnswers(t) \/ AskFails(t) \/ DohPanics(t)
Next == Tick \/ \E t \in Tasks : resolve(t) \/ Ask(t) \/ Answer(t) \/ Again(t)

\* Blocking threads run, and every question is answered or fails in time.
Spec == Init /\ [][Next]_vars /\ \A t \in Tasks : WF_vars(Ask(t) \/ Answer(t))

----------------------------------------------------------------------------
HitsAreFresh == \A t \in Tasks : task[t].pc = "queued" /\ task'[t].pc = "hit" =>
                  \A ttl \in task'[t].answer.ttls : now < task'[t].answer.stored + ttl

\* No answer from the cache outlives a TTL it came with: at the moment of a
\* hit its age is below the TTL of every address in it.
AnswerFresh == [][HitsAreFresh]_vars

\* A question goes out only while the cache has no valid answer to it, also
\* when several requests look the same name up at once: the later ones wait
\* for the map and find the first one's answer.
AskedOnce == \A t \in Tasks : task[t].pc = "asking" =>
               ~is_valid(map[task[t].authority]) /\ \A u \in Tasks \ {t} : task[u].pc # "asking"

Begun(t) == task[t].pc = "queued"
Resolved(t) == task[t].pc \in {"hit", "asked", "err"}

\* The lock held across the question delays the others but nobody waits for
\* ever: every lookup that was begun has an answer or an error.
LookupEnds == \A t \in Tasks : Begun(t) ~> Resolved(t)
=============================================================================
