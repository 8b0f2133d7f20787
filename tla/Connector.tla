------------------------------ MODULE Connector ------------------------------
(***************************************************************************)
(* HttpConnector::connect (async_impl/connector/mod.rs): which proxy takes *)
(* the request (util/proxy.rs), the DNS query, the TCP connection, the TLS *)
(* session with a secure proxy, the CONNECT tunnel, the TLS session with   *)
(* the origin, and for HTTP/3 the QUIC handshake with each address         *)
(* (async_impl/quic/mod.rs).  Names are sequences of cells, so that the    *)
(* suffix tests of NoProxy are the ones of the code; a read of the tunnel  *)
(* brings any number of cells.  DNS, TCP, TLS and QUIC are external here.  *)
(***************************************************************************)
EXTENDS Naturals, Sequences

CONSTANTS ProxyLists,  \* sequences of [intercept, secure, auth, no]
          Uris,        \* [scheme, host]
          Ips,         \* the names that are IP addresses
          Replies,     \* what a proxy answers to CONNECT: sequences of cells
          MaxResponse, \* MAX_TUNNEL_RESPONSE_SIZE, in cells
          NumAddrs,    \* addresses the name of the origin resolves to
          MaxRounds    \* bound: datagrams of one QUIC handshake

VARIABLES proxies, uri, version, \* inputs
          pin,         \* the pinned key: "none", "same" or "other"
          pc, via,     \* where connect is; the matching proxy, << >> if none
          layers,      \* the TLS sessions below the stream, outermost last
          wrote,       \* what was written, with the layers below it
          reply, buf,  \* the answer of the proxy: still to come, and read
          addrs,       \* addresses left for QUIC
          quic,        \* the QUIC connection: [state, rounds]
          tg, now,     \* TimeGroup and the clock
          res          \* "none", "ok" or the error

vars == <<proxies, uri, version, pin, pc, via, layers, wrote, reply, buf, addrs, quic, tg, now, res>>
inputs == <<proxies, uri, version, pin>>
tunnel_vars == <<reply, buf>>
quic_vars == <<addrs, quic>>

----------------------------------------------------------------------------
\* NoProxy (util/proxy.rs).
EndsWith(s, t) == Len(t) <= Len(s) /\ SubSeq(s, Len(s) - Len(t) + 1, Len(s)) = t
Trim(s, c) == LET kept == {i \in 1..Len(s) : s[i] # c} IN
              IF kept = {} THEN <<>>
              ELSE SubSeq(s, CHOOSE i \in kept : \A j \in kept : i <= j, CHOOSE i \in kept : \A j \in kept : j <= i)
StartsWith(s, c) == s # <<>> /\ s[1] = c

\* from_str drops the entries that are no URI, and sorts the others into
\* addresses and names.
from_str(list) == {list[i] : i \in {j \in 1..Len(list) : list[j] # <<"bad">>}}

contains_ip(no, ip) == ip \in from_str(no) \cap Ips
DottedSuffix(b, domain) == EndsWith(domain, b) /\ (StartsWith(b, ".") \/ domain[Len(domain) - Len(b)] = ".")
Blocked(block, domain) ==
  LET b == IF StartsWith(block, "*") /\ Len(block) > 1 THEN Trim(block, "*") ELSE block
  IN b = <<"*">> \/ EndsWith(b, domain) \/ Trim(b, ".") = domain \/ DottedSuffix(b, domain)
contains_domain(no, domain) == \E block \in from_str(no) \ Ips : Blocked(block, domain)
contain(no, host) == IF host \in Ips THEN contains_ip(no, host) ELSE contains_domain(no, host)

\* Proxy::is_intercepted and Proxies::match_proxy: the first that takes it.
is_intercepted(p) == ~contain(p.no, uri.host) /\ p.intercept \in {"all", uri.scheme}
match_proxy == LET taking == {i \in 1..Len(proxies) : is_intercepted(proxies[i])} IN
               IF taking = {} THEN <<>> ELSE <<proxies[CHOOSE i \in taking : \A j \in taking : i <= j]>>

----------------------------------------------------------------------------
\* parse_tunnel_response.  A status line is a version cell and a code cell.
\* response_boundaries finds the first line end and the first blank line.
LineEnds(b) == {i \in 1..Len(b) - 1 : b[i] = "CR" /\ b[i + 1] = "LF"}
HeaderEnds(b) == {i \in LineEnds(b) : i + 2 \in LineEnds(b)}
status_code(line) == IF Len(line) = 2 /\ line[1] = "HTTP" THEN line[2] ELSE "none"
TooLong(b) == IF Len(b) >= MaxResponse THEN "too long" ELSE "incomplete"
parse_tunnel_response(b) ==
  IF LineEnds(b) = {} THEN TooLong(b)
  ELSE \* the first line of the answer decides
       LET first == CHOOSE i \in LineEnds(b) : \A j \in LineEnds(b) : i <= j
           code == status_code(SubSeq(b, 1, first - 1))
       IN CASE code = "2xx" -> IF HeaderEnds(b) # {} THEN "complete" ELSE TooLong(b)
            [] code = "407" -> "authentication"
            [] OTHER -> "unsuccessful"

----------------------------------------------------------------------------
\* TimeGroup (util/monitor/time_group.rs): starts are set, ends set the duration.
NoTime == [start |-> <<>>, end |-> <<>>, duration |-> <<>>]
SetStart(g, p) == [g EXCEPT ![p].start = <<now>>]
SetEnd(g, p) == [g EXCEPT ![p].end = <<now>>,
                          ![p].duration = IF g[p].start = <<>> THEN @ ELSE <<now - g[p].start[1]>>]
Tick == now' = now + 1

Init == /\ proxies \in ProxyLists /\ uri \in Uris /\ version \in {"tcp", "Http3"}
        /\ pin \in {"none", "same", "other"}
        /\ pc = "start" /\ via = <<>> /\ layers = <<>> /\ wrote = <<>>
        /\ reply \in Replies /\ buf = <<>>
        /\ addrs = NumAddrs /\ quic = [state |-> "none", rounds |-> 0]
        /\ tg = [p \in {"dns", "tcp", "tls", "quic"} |-> NoTime]
        /\ now = 0 /\ res = "none"

Go(label) == pc' = label /\ res' = res
End(r) == pc' = "done" /\ res' = r

\* connect chooses the proxy and the branch; HTTP/3 over a proxy is refused.
Start ==
  /\ pc = "start"
  /\ via' = match_proxy
  /\ IF uri.scheme = "https" /\ version = "Http3" /\ via' # <<>> THEN End("refused") ELSE Go("dns")
  /\ tg' = SetStart(tg, "dns")
  /\ Tick
  /\ UNCHANGED <<inputs, layers, wrote, tunnel_vars, quic_vars>>

\* dns_query, or the resolver itself for HTTP/3.
Quic == uri.scheme = "https" /\ version = "Http3"
dns_query ==
  /\ pc = "dns"
  /\ \E found \in BOOLEAN :
       /\ IF ~found THEN End("dns") ELSE Go(IF Quic THEN "quic" ELSE "tcp")
       /\ tg' = IF ~found THEN tg ELSE SetStart(SetEnd(tg, "dns"), IF Quic THEN "quic" ELSE "tcp")
  /\ Tick
  /\ UNCHANGED <<inputs, via, layers, wrote, tunnel_vars, quic_vars>>

Secure == via # <<>> /\ via[1].secure
\* eyeballs_connect, and the branch of https_connect on the proxy.
eyeballs_connect ==
  /\ pc = "tcp"
  /\ \E open \in BOOLEAN :
       /\ IF ~open THEN End("tcp")
          ELSE IF Secure THEN Go("proxy tls")
          ELSE IF uri.scheme = "http" THEN End("ok")
          ELSE Go(IF via # <<>> THEN "tunnel" ELSE "tls")
       /\ tg' = IF ~open THEN tg
                ELSE IF Secure \/ (uri.scheme = "https" /\ via = <<>>) THEN SetStart(SetEnd(tg, "tcp"), "tls")
                ELSE SetEnd(tg, "tcp")
  /\ Tick
  /\ UNCHANGED <<inputs, via, layers, wrote, tunnel_vars, quic_vars>>

\* proxy_connect_stream: the TLS session with a secure proxy.
proxy_connect_stream ==
  /\ pc = "proxy tls"
  /\ \E shaken \in BOOLEAN :
       /\ IF ~shaken THEN End("tls") ELSE IF uri.scheme = "http" THEN End("ok") ELSE Go("tunnel")
       /\ layers' = IF shaken THEN Append(layers, "proxy") ELSE layers
       /\ tg' = IF shaken THEN SetEnd(tg, "tls") ELSE tg
  /\ Tick
  /\ UNCHANGED <<inputs, via, wrote, tunnel_vars, quic_vars>>

----------------------------------------------------------------------------
\* tunnel: CONNECT with the credentials of the proxy, then its answer.
connect_request ==
  /\ pc = "tunnel"
  /\ wrote' = Append(wrote, [auth |-> via[1].auth, over |-> layers])
  /\ Go("read")
  /\ Tick
  /\ UNCHANGED <<inputs, via, layers, tunnel_vars, quic_vars, tg>>

Room == MaxResponse - Len(buf)
\* One turn of the loop: a read of n cells and the parser on all of them.
tunnel ==
  /\ pc = "read" /\ reply # <<>>
  /\ \E n \in 1..Len(reply) :
       /\ n <= Room
       /\ buf' = buf \o SubSeq(reply, 1, n)
       /\ reply' = SubSeq(reply, n + 1, Len(reply))
  /\ \E got \in {parse_tunnel_response(buf')} :
       /\ IF got = "incomplete" THEN Go("read") ELSE IF got = "complete" THEN Go("tls") ELSE End(got)
       /\ tg' = IF got = "complete" /\ ~Secure THEN SetStart(tg, "tls") ELSE tg
  /\ Tick
  /\ UNCHANGED <<inputs, via, layers, wrote, quic_vars>>
\* The write or a read fails.
tunnel_err ==
  /\ pc \in {"tunnel", "read"}
  /\ End("io")
  /\ Tick
  /\ UNCHANGED <<inputs, via, layers, wrote, tunnel_vars, quic_vars, tg>>
tunnel_eof ==
  /\ pc = "read" /\ reply = <<>>
  /\ End("unsuccessful")
  /\ Tick
  /\ UNCHANGED <<inputs, via, layers, wrote, tunnel_vars, quic_vars, tg>>

\* The TLS session with the origin, whose key may be pinned.
https_connect ==
  /\ pc = "tls"
  /\ \E shaken \in BOOLEAN :
       IF ~shaken \/ pin = "other" THEN End("tls") /\ UNCHANGED <<layers, tg>>
       ELSE End("ok") /\ layers' = Append(layers, "origin") /\ tg' = SetEnd(tg, "tls")
  /\ Tick
  /\ UNCHANGED <<inputs, via, wrote, tunnel_vars, quic_vars>>

----------------------------------------------------------------------------
\* The loop over the addresses: a UDP socket, then the handshake.
udp_stream ==
  /\ pc = "quic" /\ addrs > 0
  /\ addrs' = addrs - 1
  /\ \E open \in BOOLEAN :
       IF open THEN Go("handshake") /\ quic' = [state |-> "started", rounds |-> 0]
       ELSE Go("quic") /\ quic' = quic
  /\ Tick
  /\ UNCHANGED <<inputs, via, layers, wrote, tunnel_vars, tg>>
quic_exhausted ==
  /\ pc = "quic" /\ addrs = 0
  /\ End("quic")
  /\ Tick
  /\ UNCHANGED <<inputs, via, layers, wrote, tunnel_vars, quic_vars, tg>>

\* conn_recv: a datagram or the timer moves the connection on, or it fails.
conn_recv ==
  /\ pc = "handshake"
  /\ \/ \E s \in {quic.state, "established", "closed"} :
          /\ quic.rounds < MaxRounds \/ s = "closed"
          /\ quic.state = "closing" => s # "established"
          /\ quic' = [state |-> s, rounds |-> quic.rounds + 1] /\ Go("verify")
     \/ quic' = quic /\ Go("quic")
  /\ Tick
  /\ UNCHANGED <<inputs, via, layers, wrote, tunnel_vars, addrs, tg>>

\* connect_inner after a datagram: closed ends it; established checks the
\* pins, and a key that differs closes the connection, sends that and reads
\* once more: whatever comes then, the handshake has failed.
Won == End("ok") /\ layers' = Append(layers, "origin") /\ tg' = SetEnd(tg, "quic")
VerifyAfterwards ==
  /\ pc = "verify"
  /\ IF quic.state = "established" THEN Won /\ quic' = quic
     ELSE Go(IF quic.state = "closed" THEN "quic" ELSE "handshake") /\ UNCHANGED <<quic, layers, tg>>
  /\ Tick
  /\ UNCHANGED <<inputs, via, wrote, tunnel_vars, addrs>>
connect_inner ==
  /\ pc = "verify"
  /\ IF quic.state \in {"closed", "closing"} THEN Go("quic") /\ UNCHANGED <<quic, layers, tg>>
     ELSE IF quic.state = "started" THEN Go("handshake") /\ UNCHANGED <<quic, layers, tg>>
     ELSE IF pin # "other" THEN Won /\ quic' = quic
     ELSE Go("handshake") /\ quic' = [quic EXCEPT !.state = "closing"] /\ UNCHANGED <<layers, tg>>
  /\ Tick
  /\ UNCHANGED <<inputs, via, wrote, tunnel_vars, addrs>>

Next == Start \/ dns_query \/ eyeballs_connect \/ proxy_connect_stream \/ connect_request \/ tunnel \/ tunnel_err \/ tunnel_eof
        \/ https_connect \/ udp_stream \/ quic_exhausted \/ conn_recv \/ connect_inner
Spec == Init /\ [][Next]_vars

----------------------------------------------------------------------------
\* What an entry of the no-proxy list stands for: an address; a name given
\* with its scheme, itself only; any other name, itself and what is below it.
Bare(block) == Trim(Trim(IF StartsWith(block, "http://") THEN Tail(block) ELSE block, "*"), ".")
Covers(block, host) == IF host \in Ips \/ block \in Ips THEN block = host
                       ELSE \/ block = <<"*">> \/ host = Bare(block)
                            \/ ~StartsWith(block, "http://") /\ EndsWith(host, <<".">> \o Bare(block))
Takes(p) == p.intercept \in {"all", uri.scheme} /\ ~\E i \in 1..Len(p.no) : Covers(p.no[i], uri.host)
\* The code also matches a host that is only the tail of an entry.
TailOfEntry == \E i \in 1..Len(proxies) : \E k \in 1..Len(proxies[i].no) :
                  EndsWith(proxies[i].no[k], uri.host) /\ ~Covers(proxies[i].no[k], uri.host)

\* The request goes through the first proxy that takes its scheme and whose
\* no-proxy list does not name its host, and through none if there is none.
ProxyChosen == pc # "start" /\ ~TailOfEntry =>
  LET taking == {i \in 1..Len(proxies) : Takes(proxies[i])} IN
  IF taking = {} THEN via = <<>>
  ELSE \E i \in taking : via = <<proxies[i]>> /\ \A j \in taking : i <= j

Expected(whole) ==
  LET b == SubSeq(whole, 1, IF Len(whole) < MaxResponse THEN Len(whole) ELSE MaxResponse)
      lines == {i \in LineEnds(b) : \A j \in LineEnds(b) : i <= j}
      cut == IF Len(b) = MaxResponse THEN "too long" ELSE "unsuccessful"
  IN IF lines = {} THEN cut
     ELSE IF SubSeq(b, 1, 2) = <<"HTTP", "2xx">> /\ 3 \in lines
          THEN IF HeaderEnds(b) # {} THEN "complete" ELSE cut
     ELSE IF SubSeq(b, 1, 2) = <<"HTTP", "407">> /\ 3 \in lines THEN "authentication"
     ELSE "unsuccessful"
Tunnelled == wrote # <<>> /\ (pc = "tls" \/ res \in {"ok", "tls"})

\* The tunnel is what the proxy's answer says, however the reads cut it, and
\* nothing of the head of that answer is left for the TLS session to read.
TunnelExact == /\ Tunnelled => Expected(buf \o reply) = "complete" /\ HeaderEnds(buf) # {}
               /\ res \in {"too long", "authentication", "unsuccessful"} => Expected(buf \o reply) = res

\* CONNECT and the credentials in it go to the proxy alone, inside the TLS
\* session with it when the proxy is a secure one.
ToProxyOnly == \A i \in 1..Len(wrote) : wrote[i].over = IF Secure THEN <<"proxy">> ELSE <<>>

\* A connection for https is a session with the origin, whose key is the
\* pinned one, whatever is below it; HTTP/3 has nothing below it.
OriginSecured == res = "ok" /\ uri.scheme = "https" =>
  /\ layers # <<>> /\ layers[Len(layers)] = "origin"
  /\ pin # "other"
  /\ Quic => layers = <<"origin">>

\* The times of a connection add up: what began has ended, in order, each
\* duration is the time between the two, and the TLS time does not hold the
\* tunnel through a plain proxy.
TimesTrue == res = "ok" =>
  /\ \A p \in DOMAIN tg : tg[p].start = <<>> \/ (tg[p].end # <<>> /\ tg[p].duration = <<tg[p].end[1] - tg[p].start[1]>>)
  /\ \A p \in {"tcp", "tls", "quic"} : tg[p].start # <<>> => tg["dns"].end[1] <= tg[p].start[1]
  /\ uri.scheme = "https" /\ ~Quic /\ ~Secure => tg["tls"].duration = <<1>>
=============================================================================
