------------------------------- MODULE UriText -------------------------------
(***************************************************************************)
(* A URL on its way into a request: PercentEncoder::parse                  *)
(* (ylong_http/src/request/uri/percent_encoding.rs), Uri::from_bytes and   *)
(* UriBuilder (request/uri/mod.rs), UriFormatter and format_host_value     *)
(* (ylong_http_client/src/util/normalizer.rs), and the Location of a       *)
(* redirect (util/redirect.rs).  A text is a sequence of cells; a scheme   *)
(* or a group of digits is one cell.  A part of a Uri is << >> or <<text>>.*)
(***************************************************************************)
EXTENDS Naturals, Sequences

CONSTANTS Texts,    \* the texts the caller gives
          Locations,\* the Location headers of redirects
          Parts,    \* what the caller gives a UriBuilder: [scheme, authority, path, query]
          MAX_URI_LEN

VARIABLES text,     \* the text given
          stage,    \* what is done next, or "done"
          rest, enc,\* PercentEncoder: the characters left, and the normalised text
          uri,      \* <<uri>> once there is one
          origin,   \* the Uri a redirect starts from, << >> if none
          res       \* "none", "ok" or "err"

vars == <<text, stage, rest, enc, uri, origin, res>>

----------------------------------------------------------------------------
\* Cells.  Number gives the value of a sequence of groups of digits.
Blank == {"TAB", "CR", "LF"}
Hex == [c \in {" ", "U", "{", "'", "<", "@", ":"} |->
          CASE c = " " -> "%20" [] c = "U" -> "%C3%A9" [] c = "{" -> "%7B" [] c = "'" -> "%27" [] c = "<" -> "%3C"
            [] c = "@" -> "%40" [] c = ":" -> "%3A"]
USERINFO == {" ", "U", "{", "<", "@", ":"}
PATH == {" ", "U", "{", "<"}
QUERY == {" ", "U", "<", "'"}
FRAGMENT == {" ", "U", "<"}
URI_VALUE_BYTES == {"http", "https", "ftp", "a", "b", "80", "443", "'", "%20", "%C3%A9", "%7B", "%27", "%3C", "%40", "%3A"}
PATH_AND_QUERY_BYTES == URI_VALUE_BYTES \cup {"/", ":", "@", "[", "]"}

Number(p) == CASE p = <<"80">> -> 80 [] p = <<"443">> -> 443 [] p = <<"80", "80">> -> 8080
               [] p = <<"443", "80">> -> 44380 [] OTHER -> 65536
IsPort(p) == Number(p) <= 65535

\* The place of the first cell of s in C, one past the end if there is none.
At(s, C) == LET found == {i \in 1..Len(s) : s[i] \in C} IN
            IF found = {} THEN Len(s) + 1 ELSE CHOOSE i \in found : \A j \in found : i <= j
LastAt(s, c) == LET found == {i \in 1..Len(s) : s[i] = c} IN
                IF found = {} THEN 0 ELSE CHOOSE i \in found : \A j \in found : j <= i
Before(s, i) == SubSeq(s, 1, i - 1)
From(s, i) == SubSeq(s, i, Len(s))
Slice(s, i, n) == SubSeq(s, i, IF i + n - 1 < Len(s) THEN i + n - 1 ELSE Len(s))
Count(s, c) == LET F[i \in 0..Len(s)] == IF i = 0 THEN 0 ELSE F[i - 1] + IF s[i] = c THEN 1 ELSE 0 IN F[Len(s)]

\* Normalized::push and percent_encoding_push: blanks are dropped.
Pushed(s) == SelectSeq(s, LAMBDA c : c \notin Blank)
Encoded(s, set) == LET p == Pushed(s) IN [i \in 1..Len(p) |-> IF p[i] \in set THEN Hex[p[i]] ELSE p[i]]

----------------------------------------------------------------------------
\* Uri::from_bytes.  A token is [ok, part, rest].
Tok(part, r) == [ok |-> TRUE, part |-> part, rest |-> r]
Bad == [ok |-> FALSE, part |-> <<>>, rest |-> <<>>]

scheme_token(s) ==
  LET pos == At(s, {":"}) IN
  IF pos = 1 /\ s # <<>> THEN Bad
  ELSE IF Slice(s, pos, 3) # <<":", "/", "/">> THEN Tok(<<>>, s)
  ELSE IF Before(s, pos) \in {<<"http">>, <<"https">>} THEN Tok(<<Before(s, pos)>>, From(s, pos + 3))
  ELSE Bad

host_port(a, colons) ==
  LET i == LastAt(a, ":") IN
  IF colons = 0 THEN Tok(<<[host |-> a, port |-> <<>>]>>, <<>>)
  ELSE IF i = 1 THEN Bad
  ELSE IF i = Len(a) THEN Tok(<<[host |-> Before(a, i), port |-> <<>>]>>, <<>>)
  ELSE IF IsPort(From(a, i + 1)) THEN Tok(<<[host |-> Before(a, i), port |-> <<From(a, i + 1)>>]>>, <<>>)
  ELSE Bad

\* The colons between brackets belong to an IPv6 address.
Colons(a) == IF a[1] = "[" /\ Count(a, "]") > 0 THEN Count(From(a, At(a, {"]"})), ":") ELSE Count(a, ":")
authority_token(s) ==
  LET end == At(s, {"/", "?", "#"})
      a == Before(s, end)
  IN IF a = <<>> THEN Tok(<<>>, From(s, end))
     ELSE IF \/ \E i \in 1..Len(a) : a[i] \notin URI_VALUE_BYTES \cup {":", "[", "]"}
             \/ a[1] = "[" /\ (Count(a, "[") > 1 \/ Count(a, "]") # 1)
             \/ Colons(a) > 1
          THEN Bad
     ELSE [host_port(a, Colons(a)) EXCEPT !.rest = From(s, end)]

path_token(s) ==
  LET end == At(s, {"?", "#"}) IN
  IF \E i \in 1..(end - 1) : s[i] \notin PATH_AND_QUERY_BYTES THEN Bad
  ELSE Tok(IF end = 1 THEN <<>> ELSE <<Before(s, end)>>, From(s, end))

query_token(s) ==
  LET end == At(s, {"#"}) IN
  IF \E i \in 1..(end - 1) : s[i] \notin PATH_AND_QUERY_BYTES \cup {"?", "{"} THEN Bad
  ELSE Tok(IF end = 1 THEN <<>> ELSE <<Before(s, end)>>, <<>>)

validity_check(u) == ~ \/ u.scheme # <<>> /\ u.authority = <<>>
                       \/ u.scheme = <<>> /\ u.authority # <<>> /\ (u.path # <<>> \/ u.query # <<>>)
                       \/ u.scheme = <<>> /\ u.authority = <<>> /\ u.path = <<>> /\ u.query = <<>>
Checked(u) == IF validity_check(u) THEN <<u>> ELSE <<>>

\* The length: a cell counts for one, an encoded one for three.
Size(s) == Len(s) + 2 * Len(SelectSeq(s, LAMBDA c : \E h \in DOMAIN Hex : Hex[h] = c))
TooLong(s) == Size(s) > MAX_URI_LEN
from_bytes(s) ==
  LET sch == scheme_token(s)
      aut == IF sch.ok THEN authority_token(sch.rest) ELSE Bad
      pat == IF aut.ok THEN path_token(aut.rest) ELSE Bad
      que == IF ~pat.ok THEN Bad
             ELSE IF pat.rest = <<>> \/ pat.rest[1] = "#" THEN Tok(<<>>, <<>>)
             ELSE query_token(Tail(pat.rest))
  IN IF TooLong(s) \/ s = <<>> \/ ~que.ok THEN <<>>
     ELSE Checked([scheme |-> sch.part, authority |-> aut.part, path |-> pat.part, query |-> que.part])

\* UriBuilder: each part is converted by the parser of that part.
Whole(t) == t.ok /\ t.part # <<>> /\ t.rest = <<>>
Built(p) ==
  LET aut == IF p.authority = <<>> THEN Tok(<<>>, <<>>) ELSE authority_token(p.authority[1])
      pat == IF p.path = <<>> THEN Tok(<<>>, <<>>) ELSE path_token(p.path[1])
      que == IF p.query = <<>> THEN Tok(<<>>, <<>>) ELSE query_token(p.query[1])
  IN IF \/ p.authority # <<>> /\ ~Whole(aut)
        \/ p.path # <<>> /\ ~Whole(pat)
        \/ p.query # <<>> /\ ~(que.ok /\ que.part # <<>>)
     THEN <<>>
     ELSE Checked([scheme |-> p.scheme, authority |-> aut.part, path |-> pat.part, query |-> que.part])

\* ToString for Uri.
Given(o, mark) == IF o = <<>> THEN <<>> ELSE mark \o o[1]
AuthorityText(a) == a.host \o Given(a.port, <<":">>)
WithoutPort(u) == (IF u.scheme = <<>> THEN <<>> ELSE u.scheme[1] \o <<":", "/", "/">>)
                  \o (IF u.authority = <<>> THEN <<>> ELSE u.authority[1].host)
                  \o Given(u.path, <<>>) \o Given(u.query, <<"?">>)
to_string(u) == (IF u.scheme = <<>> THEN <<>> ELSE u.scheme[1] \o <<":", "/", "/">>)
                \o (IF u.authority = <<>> THEN <<>> ELSE AuthorityText(u.authority[1]))
                \o Given(u.path, <<>>) \o Given(u.query, <<"?">>)

\* UriFormatter::format: every part is there afterwards, except the query.
DefaultPort(scheme) == IF scheme = <<"https">> THEN <<"443">> ELSE <<"80">>
PortOf(u) == [u.authority[1] EXCEPT !.port = IF @ = <<>> THEN <<DefaultPort(u.scheme[1])>> ELSE @]
format(u) ==
  IF u.authority = <<>> THEN <<>>
  ELSE LET v == [u EXCEPT !.scheme = IF @ = <<>> THEN <<(<<"https">>)>> ELSE @] IN
       Built([v EXCEPT !.authority = <<AuthorityText(PortOf(v))>>, !.path = IF @ = <<>> THEN <<(<<"/">>)>> ELSE @])
format_host_value(u) == IF u.authority[1].port = <<DefaultPort(u.scheme[1])>> THEN u.authority[1].host
                        ELSE AuthorityText(u.authority[1])

----------------------------------------------------------------------------
Init == /\ text \in Texts
        /\ stage \in {"scheme", "parse"} \cup (IF text = <<>> THEN {"build"} ELSE {})
        /\ rest = text /\ enc = <<>> /\ uri = <<>> /\ res = "none"
        /\ origin = <<>>

Step(next) == stage' = next /\ res' = res
Fail == stage' = "done" /\ res' = "err"

\* PercentEncoder, one action per method.
parse_scheme ==
  /\ stage = "scheme"
  /\ \E i \in {At(rest, {":"})} :
       IF i > Len(rest) \/ \E j \in 1..(i - 1) : rest[j] \notin {"http", "https", "ftp", "a", "b", "80", "443"}
       THEN Fail /\ UNCHANGED <<rest, enc>>
       ELSE enc' = SubSeq(rest, 1, i) /\ rest' = From(rest, i + 1) /\ Step("slashes")
  /\ UNCHANGED <<text, uri, origin>>
parse_double_slash ==
  /\ stage = "slashes"
  /\ IF Slice(rest, 1, 2) = <<"/", "/">> /\ Slice(rest, 3, 1) # <<"/">>
     THEN enc' = enc \o <<"/", "/">> /\ rest' = From(rest, 3) /\ Step("userinfo")
     ELSE Fail /\ UNCHANGED <<rest, enc>>
  /\ UNCHANGED <<text, uri, origin>>
\* Up to the last @ before the path; the first colon stays a colon.
parse_userinfo ==
  /\ stage = "userinfo"
  /\ \E end \in {At(rest, {"/", "?", "#"})} : \E at \in {LastAt(Before(rest, end), "@")} :
       IF at = 0 THEN Step("authority") /\ UNCHANGED <<rest, enc>>
       ELSE IF at = 1 THEN IF end = 2 /\ end <= Len(rest) THEN Fail /\ UNCHANGED <<rest, enc>>
                           ELSE rest' = From(rest, 2) /\ enc' = enc /\ Step("authority")
       ELSE \E info \in {Before(rest, at)} : \E colon \in {At(info, {":"})} :
              /\ enc' = enc \o Encoded(Before(info, colon), USERINFO) \o Slice(info, colon, 1)
                            \o Encoded(From(info, colon + 1), USERINFO) \o <<"@">>
              /\ rest' = From(rest, at + 1)
              /\ Step("authority")
  /\ UNCHANGED <<text, uri, origin>>
parse_authority ==
  /\ stage = "authority"
  /\ \E end \in {At(rest, {"/", "?", "#"})} : enc' = enc \o Pushed(Before(rest, end)) /\ rest' = From(rest, end)
  /\ Step("path")
  /\ UNCHANGED <<text, uri, origin>>
parse_path ==
  /\ stage = "path"
  /\ \E end \in {At(rest, {"?", "#"})} : enc' = enc \o Encoded(Before(rest, end), PATH) /\ rest' = From(rest, end)
  /\ Step("query")
  /\ UNCHANGED <<text, uri, origin>>
parse_query_and_fragment ==
  /\ stage = "query"
  /\ \E i \in {At(rest, {"#"})} :
       enc' = enc \o (IF rest # <<>> /\ rest[1] = "?" THEN <<"?">> \o Encoded(SubSeq(rest, 2, i - 1), QUERY) ELSE <<>>)
                  \o Slice(rest, i, 1) \o Encoded(From(rest, i + 1), FRAGMENT)
  /\ rest' = <<>>
  /\ Step("parse")
  /\ UNCHANGED <<text, uri, origin>>

\* What goes into the request: the encoded text, or the text as it is.
Input == IF enc = <<>> THEN text ELSE enc
Parse ==
  /\ stage = "parse"
  /\ uri' = from_bytes(Input)
  /\ IF uri' = <<>> THEN Fail ELSE Step("format")
  /\ UNCHANGED <<text, rest, enc, origin>>
Format ==
  /\ stage = "format"
  /\ uri' = format(uri[1])
  /\ IF uri' = <<>> THEN Fail ELSE stage' = "done" /\ res' = "ok"
  /\ UNCHANGED <<text, rest, enc, origin>>
\* The caller builds the Uri itself.
Build ==
  /\ stage = "build"
  /\ \E p \in Parts : uri' = Built(p)
  /\ IF uri' = <<>> THEN Fail ELSE Step("format")
  /\ UNCHANGED <<text, rest, enc, origin>>

\* redirect: the Location is parsed; what lacks a scheme gets the origin's
\* scheme and authority.
Target(o, l) == IF l.scheme = <<>> \/ l.authority = <<>>
                THEN [l EXCEPT !.scheme = o.scheme, !.authority = o.authority] ELSE l
redirect ==
  /\ stage = "done" /\ res = "ok" /\ origin = <<>>
  /\ \E t \in Locations :
       /\ text' = t /\ enc' = <<>> /\ rest' = t
       /\ origin' = uri
       /\ uri' = IF from_bytes(t) = <<>> THEN <<>> ELSE <<Target(uri[1], from_bytes(t)[1])>>
  /\ IF uri' = <<>> THEN Fail ELSE Step("format")

Next == parse_scheme \/ parse_double_slash \/ parse_userinfo \/ parse_authority \/ parse_path \/ parse_query_and_fragment
        \/ Parse \/ Build \/ Format \/ redirect
Spec == Init /\ [][Next]_vars

----------------------------------------------------------------------------
NoSlash(u) == u.path # <<>> /\ u.path[1][1] # "/"
LooksAbsolute(u) == u.scheme = <<>> /\ \E i \in 1..Len(to_string(u)) : Slice(to_string(u), i, 3) = <<":", "/", "/">>

\* What a Uri is written as is read as that Uri again.  Three kinds of parts a
\* builder accepts are left out: a path that does not begin with a slash, a text
\* without a scheme that holds "://", and what is longer than from_bytes takes.
RoundTrip ==
  stage = "format" /\ ~NoSlash(uri[1]) /\ ~LooksAbsolute(uri[1]) /\ ~TooLong(to_string(uri[1])) =>
    from_bytes(to_string(uri[1])) = uri

Decoded(s) == [i \in 1..Len(s) |-> IF \E c \in DOMAIN Hex : Hex[c] = s[i] THEN CHOOSE c \in DOMAIN Hex : Hex[c] = s[i] ELSE s[i]]
DecodedPart(o) == IF o = <<>> THEN <<>> ELSE Decoded(o[1])
Written == From(text, At(text, {":"}) + 3)
WrittenPath == LET r == From(Written, At(Written, {"/", "?", "#"})) IN Before(r, At(r, {"?", "#"}))
WrittenQuery == LET q == From(Written, At(Written, {"?", "#"})) IN
                IF q = <<>> \/ q[1] = "#" THEN <<>> ELSE Before(Tail(q), At(Tail(q), {"#"}))
GoodAuthority == LET a == authority_token(Pushed(Before(Written, At(Written, {"/", "?", "#"})))) IN a.ok /\ a.part # <<>>

\* A URL that went through the encoder is one the parser takes, and its path
\* and query still say what the caller wrote, blanks aside.  Left out are schemes
\* that are not http or https, an authority the parser refuses (that of user
\* information among them), and a URL the encoding has made too long.
EncodedParses ==
  stage = "parse" /\ enc # <<>> /\ ~TooLong(enc) /\ text[1] \in {"http", "https"} /\ text[2] = ":" /\ GoodAuthority =>
    \E u \in {from_bytes(enc)} :
      /\ u # <<>>
      /\ DecodedPart(u[1].path) = Decoded(Pushed(WrittenPath))
      /\ DecodedPart(u[1].query) = Decoded(Pushed(WrittenQuery))

KeepsGiven ==
  stage = "format" /\ res' = "ok" /\ stage' = "done" =>
    /\ uri'[1].scheme # <<>> /\ uri'[1].path # <<>> /\ uri'[1].authority[1].port # <<>>
    /\ uri'[1].authority[1].host = uri[1].authority[1].host
    /\ uri[1].authority[1].port # <<>> => uri'[1].authority = uri[1].authority
    /\ uri[1].scheme # <<>> => uri'[1].scheme = uri[1].scheme
    /\ uri[1].path # <<>> => uri'[1].path = uri[1].path
    /\ uri'[1].query = uri[1].query

\* Formatting adds what is missing and changes nothing that was given.
GivenKept == [][KeepsGiven]_vars

\* The Host header names the authority the connection is made to: the port
\* is left out only where the scheme implies it.
HostNamesAuthority == stage = "done" /\ res = "ok" =>
  \E u \in {from_bytes(uri[1].scheme[1] \o <<":", "/", "/">> \o format_host_value(uri[1]))} :
    u # <<>> /\ format(u[1])[1].authority = uri[1].authority

\* A redirect without a scheme stays with the origin it came from and takes
\* the path it names; a Location that begins with neither "/", "?" nor "#"
\* is read as an authority and loses its path.
ReadAsAuthority == text[1] \notin {"/", "?", "#"}
HasScheme == \E i \in 1..Len(text) : Slice(text, i, 3) = <<":", "/", "/">>
SameOrigin == origin # <<>> /\ stage = "format" /\ ~HasScheme =>
  /\ uri[1].scheme = origin[1].scheme /\ uri[1].authority = origin[1].authority
  /\ ~ReadAsAuthority => Given(uri[1].path, <<>>) = Before(text, At(text, {"?", "#"}))
=============================================================================
