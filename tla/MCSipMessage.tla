----------------------------- MODULE MCSipMessage -----------------------------
(* Datagrams for the SIP parser: requests put together from parts that are   *)
(* varied one at a time and that say their parts, and texts that bring the   *)
(* parser to the other branches of its automata; and pairs of URIs for       *)
(* compare_uris, which differ from a plain one in any one part, with up to   *)
(* three unknown parameters of two names and two values.                     *)
EXTENDS SipContact, SequencesExt

CONSTANT Bad
VARIABLES first, second, raw, result

comparison == <<first, second, raw, result>>

Cat(ss) == FoldLeft(LAMBDA a, b : a \o b, "", ss)
Opt(s, with) == IF s = "" THEN "" ELSE with

(* The text of a URI, of a Via body with blanks `ws` wherever they may be,   *)
(* and of a To body.                                                         *)
RenderUri(u) ==
  u.scheme \o ":" \o Opt(u.user, u.user \o Opt(u.passwd, ":" \o u.passwd) \o "@")
  \o u.host \o Opt(u.port, ":" \o u.port)
  \o Cat([k \in DOMAIN u.params |-> ";" \o u.params[k][1] \o Opt(u.params[k][2], "=" \o u.params[k][2])])
  \o Opt(u.headers, "?" \o u.headers)
Quoted == {"a b", "a;b=c", "a\r\n b"}
Value(v) == IF v \in Quoted THEN "\"" \o v \o "\"" ELSE v
RenderVia(v, ws) ==
  "SIP" \o ws \o "/" \o ws \o "2.0" \o ws \o "/" \o ws \o v.transport \o (IF ws = "" THEN " " ELSE ws)
  \o v.host \o Opt(v.port, ws \o ":" \o ws \o v.port)
  \o Cat([k \in DOMAIN v.params |->
            ws \o ";" \o ws \o v.params[k][1] \o Opt(v.params[k][2], ws \o "=" \o ws \o Value(v.params[k][2]))])
  \o Opt(v.comment, (IF ws = "" THEN " " ELSE ws) \o "(" \o v.comment \o ")") \o (IF ws \in {" ", "\t"} THEN ws ELSE "")
RenderTo(t, ws) ==
  t.display \o Opt(t.display, ws)
  \o (IF t.angle THEN "<" \o t.uri \o ">" ELSE t.uri) \o ws
  \o Opt(t.tag, ";" \o ws \o "tag" \o ws \o "=" \o ws \o t.tag \o ws) \o t.rest

Request(uri, headers) ==
  "INVITE " \o uri \o " SIP/2.0\r\n" \o Cat([k \in DOMAIN headers |-> headers[k] \o "\r\n"]) \o "\r\n"
Headers(via, to) ==
  <<"Via: " \o via, "From: <sip:a@b>", "To: " \o to, "Call-ID: x", "CSeq: 1 INVITE">>

U0 == [scheme |-> "sip", user |-> "123", passwd |-> "", host |-> "h", port |-> "", params |-> <<>>, headers |-> ""]
V0 == [transport |-> "UDP", host |-> "h", port |-> "", params |-> <<>>, comment |-> ""]
T0 == [display |-> "", angle |-> TRUE, uri |-> "sip:b@c", tag |-> "", rest |-> ""]
Says(u, vs, t, text) == [text |-> text, stale |-> "", uri |-> u, vias |-> vs, to |-> t, contacts |-> <<>>]
Mute(text, stale) == [text |-> text, stale |-> stale, uri |-> <<>>, vias |-> <<>>, to |-> <<>>, contacts |-> <<>>]

Uris ==
  {[U0 EXCEPT !.user = x, !.passwd = w] :
     x \in {"a", "a;b", "a?b", "a;b=c", "a;transport=tcp", "a;lr", "a?b;c", "a;b?c"}, w \in {"", "1", "pw"}}
  \cup {[U0 EXCEPT !.user = x, !.host = y, !.port = n] :
          x \in {"", "a"}, y \in {"h", "[::1]"}, n \in {"", "5060", "70000"}}
  \cup {[U0 EXCEPT !.user = x, !.port = n, !.params = q] :
          x \in {"", "a"}, n \in {"", "5"},
          q \in {<<<<"transport", w>>>> : w \in {"udp", "tcp", "tls", "sctp", "ws", "wss", "x", "u", "tc", "t:"}}
            \cup {<<<<"transport", w>>, <<"lr", "">>>> : w \in {"udp", "ws", "wss", "x"}}
            \cup {<<<<"x", "">>>>, <<<<"x", "1">>, <<"lr", "on">>>>, <<<<"x", "1">>, <<"y", "">>>>,
                  <<<<"ttl", "1">>, <<"user", "ip">>>>, <<<<"maddr", "m">>>>, <<<<"x", "a:b">>, <<"y", "c:d">>>>,
                  <<<<"lr", "">>, <<"y", ":">>>>}}
  \cup {[U0 EXCEPT !.user = x, !.params = q, !.headers = "h=v"] :
          x \in {"", "a"}, q \in {<<>>, <<<<"lr", "">>>>, <<<<"x", "">>>>, <<<<"transport", "udp">>>>, <<<<"ttl", "1">>>>}}
  \cup {[U0 EXCEPT !.scheme = "sips"], [U0 EXCEPT !.scheme = "SIP"],
        [U0 EXCEPT !.user = "", !.port = "5", !.headers = "h=v"]}
(* The parts that are not shown to come back are left out of the record.     *)
UriMessages == {Says(<<u>>, <<>>, <<>>, Request(RenderUri(u), <<>>)) : u \in Uris}

Blanks == {"", " ", "\t", "\r\n ", "\n\t"}
ViaBodies ==
  {[V0 EXCEPT !.transport = t] : t \in {"UDP", "tcp", "TLS", "WS", "WSS", "xyz", "UDPX", "xSCTP"}}
  \cup {[V0 EXCEPT !.host = y, !.port = n] : y \in {"h.a-1", "[::1]", "[1a:2]"}, n \in {"", "5060"}}
  \cup {[V0 EXCEPT !.port = n, !.params = q, !.comment = c] : n \in {"", "1"}, c \in {"", "c", "c(d);,:[]"},
          q \in {<<>>, <<<<"branch", "z9">>>>, <<<<"hidden", "">>, <<"ttl", "1">>>>,
                 <<<<"rport", "">>, <<"received", "1.2">>>>, <<<<"maddr", "m">>, <<"i", "1">>, <<"alias", "">>>>,
                 <<<<"x", "a b">>, <<"y", "a;b=c">>>>, <<<<"x", "a\r\n b">>>>,
                 <<<<"brunch", "1">>, <<"rpart", "1">>>>}}
ViaMessage(v, ws) == Says(<<>>, <<v>>, <<>>, Request("sip:h", <<"Via: " \o RenderVia(v, ws)>>))
V1 == [V0 EXCEPT !.params = <<<<"branch", "1">>>>]
V2 == [V0 EXCEPT !.transport = "TCP", !.host = "g", !.params = <<<<"rport", "">>>>]
TwoVias(v, w, sep) == Says(<<>>, <<v, w>>, <<>>, Request("sip:h", <<"Via: " \o RenderVia(v, "") \o sep \o RenderVia(w, "")>>))
ViaMessages ==
  {ViaMessage(v, ws) : v \in ViaBodies, ws \in Blanks}
  \cup {TwoVias(v, w, sep) : v \in {V0, V1, [V0 EXCEPT !.port = "5"], V2}, w \in {V2, [V0 EXCEPT !.comment = "c"]},
                             sep \in {",", " , ", ",\r\n ", "\r\nv:", "\r\nX: y\r\nVIA : "}}

Tos ==
  {[T0 EXCEPT !.display = d] : d \in {"", "Bob", "\"B, <o>b\"", "\"B\\\"b\"", "Bob B"}}
  \cup {[T0 EXCEPT !.display = d, !.angle = g, !.tag = t, !.rest = r] :
          d \in {""}, g \in BOOLEAN, t \in {"", "1", "tag"}, r \in {"", ";x", ";x=1", ";x=\"a,;=b\"", ";ta=1;y"}}
(* A name that is folded right behind its second word keeps the line end.   *)
ToBlanks == {"", " ", "\r\n ", " \n "}
ToMessages ==
  {Says(<<>>, <<>>, <<t>>, Request("sip:h", <<"To: " \o RenderTo(t, ws), "X: y">>)) :
     <<t, ws>> \in {q \in Tos \X ToBlanks : ~(q[1].display = "Bob B" /\ q[2] = "\r\n ")}}

(* Contacts, in one header or in several.                                    *)
RenderContact(c, ws) ==
  c.name \o Opt(c.name, ws) \o (IF c.name # "" \/ c.angle THEN "<" \o c.uri \o ">" ELSE c.uri)
  \o Cat([k \in DOMAIN c.params |->
            ws \o ";" \o ws \o c.params[k][1] \o Opt(c.params[k][2], ws \o "=" \o ws \o Value(c.params[k][2]))])
C0 == [name |-> "", angle |-> TRUE, uri |-> "sip:b@c", params |-> <<>>]
C1 == [C0 EXCEPT !.name = "Bob", !.params = <<<<"q", "1">>, <<"x", "">>>>]
C2 == [C0 EXCEPT !.angle = FALSE, !.params = <<<<"expires", "5">>>>]
C3 == [C0 EXCEPT !.name = "\"B\\\" <:b, \"", !.uri = "sip:b;lr,x"]
Contacts ==
  {C2, [C2 EXCEPT !.params = <<>>]}
  \cup {[C0 EXCEPT !.name = n, !.uri = u] :
          n \in {"", "Bob", "Bob B", "\"B, <o>b\"", "\"B\\\" <:b, \""}, u \in {"sip:b", "sip:b;lr,x?y=\"z>\""}}
  \cup {[C0 EXCEPT !.name = n, !.params = q] : n \in {"", "B"},
          q \in {<<<<"q", "1">>, <<"expires", "5">>>>, <<<<"methods", "a b">>, <<"received", "a;b=c">>>>,
                 <<<<"+sip.instance", "a\r\n b">>, <<"q", "">>, <<"q", "0">>>>, <<<<"qq", "">>, <<"expire", "1">>>>}}
ContactMessage(cs, text) ==
  [Says(<<>>, <<>>, <<>>, Request("sip:h", <<"Contact: " \o text, "X: y">>)) EXCEPT !.contacts = cs]
ContactMessages ==
  {ContactMessage(<<c>>, RenderContact(c, ws)) : c \in Contacts, ws \in Blanks}
  \cup {ContactMessage(<<c, d>>, RenderContact(c, ws) \o sep \o RenderContact(d, ws)) :
          c \in {C1, C2, C3}, d \in {C0, C1, C3}, ws \in {"", " "}, sep \in {",", " ,\r\n ", "\r\nm:", "\r\nX: *\r\nCONTACT : "}}

(* Via and To bodies, URIs and whole headers that are not well formed, or    *)
(* that the parser takes for such.                                           *)
OddVias ==
  {"SIP/2.0/UDP", "SIP/2.0/SCTP h", "SIP/2.0/SCTP\r\n h", "SIP/2.0/WSS\n h", "SI/2.0/UDP h", "XIP/2.0/UDP h",
   "SIP 2.0/UDP h", "SIP/2.0/ip h", "S IP/2.0/UDP h", "SIP/2.0/UDP", "S\r\n", "SIP\n\n", "SIP/2.0/UDP/h", "S",
   "SIP/2.0/UDP h,", "SIP/2.0/UDP h:x", "SIP/2.0/UDP h:70000000", "SIP/2.0/UDP h:7 , SIP/2.0/UDP g",
   "SIP/2.0/UDP h:700000,SIP/2.0/UDP g", "SIP/2.0/UDP [::1", "SIP/2.0/UDP [ ", "SIP/2.0/UDP h]", "SIP/2.0/UDP h)",
   "SIP/2.0/UDP h h", "SIP/2.0/UDP h:5 [", "SIP/2.0/UDP ;", "SIP/2.0/UDP ,", "SIP/2.0/UDP (", "SIP/2.0/UDP h:1:",
   "SIP/2.0/UDP h;;x", "SIP/2.0/UDP h;=x", "SIP/2.0/UDP h;hidden=1", "SIP/2.0/UDP h;hidden,SIP/2.0/UDP g",
   "SIP/2.0/UDP h;branch;x", "SIP/2.0/UDP h;branch,SIP/2.0/UDP g", "SIP/2.0/UDP h;x,SIP/2.0/UDP g",
   "SIP/2.0/UDP h;x=1,SIP/2.0/UDP g", "SIP/2.0/UDP h;rport ;x", "SIP/2.0/UDP h;rport ,SIP/2.0/UDP g",
   "SIP/2.0/UDP h;x=1=2", "SIP/2.0/UDP h;x==2", "SIP/2.0/UDP h;x=;y", "SIP/2.0/UDP h;x ;y", "SIP/2.0/UDP h;x ,y",
   "SIP/2.0/UDP h;x=,y", "SIP/2.0/UDP h;x \"y\"", "SIP/2.0/UDP h;x=a\"y\"", "SIP/2.0/UDP h;x y",
   "SIP/2.0/UDP h;x=\"y", "SIP/2.0/UDP h;x=\"y\r\n z\"", "SIP/2.0/UDP h;x=", "SIP/2.0/UDP h;branch=",
   "SIP/2.0/UDP h;branch", "SIP/2.0/UDP h;x", "SIP/2.0/UDP h;rport", "SIP/2.0/UDP h;hidden", "SIP/2.0/UDP h;a",
   "SIP/2.0/UDP h (c"}
OddTos ==
  {"a, b", "<a>, b", "a\\b", "<a\\b>", ">", "<a\"b>", "a b;c", "a b", "\"a\r\n b\" <c>", "<a", "<a \r\n >",
   "a\r\n <b>", "\"a", "a;t;x", "a;tag;x", "a;tag ;x", "a;tag= ;x", "a;tag", "a;tag=", "a;x y", "a;x=1 2", "a;x=1\"",
   "a;\"", "a;=", "a;;", "a;x==", "a;x=1=", "a;x=1,b", "a;x=\"1,;=\\\"2\"", "a;x=\"1\\\r\n2\"", "a;x\\", "a;x=\"1\r\n2\"",
   "a;x=1;y", "a;x ;y", "a;x= ;y", "a;x=\"1\";y", "a;x\r\n =1", "a;x=\r\n 1", "a;\r\n x", "a;x=1\r\n ;y", "a;x =1",
   "a;x =", "a;"}
OddContacts ==
  {"*", "*;x", "a sip:b", "Robert sip:b", "Bob", "\"Bob", "<a", "<<a>>", "a:>", "<>", "<a>,", "<a>;", "<a>;x=", "<a>;x=\"", "<a>;x=\"y",
   "<a>;x y", "<a>;x;", "<a>;x>,<b>", "<a>;=x", "<a>;x=;y", "<a\"b>", "<a\"\\\"\">", "<a\"\\b\">", "a:\"\\\\\"", "a:\"<>\\>\\<\"",
   "<a\"<>\\>\\<\\\\\">", "<a:b>\r\nm: *", "<a:b>\r\nm: x"}
(* The next line does not continue the body, or it does.                     *)
Then == {"", "X: y", "<x>: y", "\"x\": y", ";x: y", "=x: y", ",x: y", "(x): y", "[x: y", "@x: y"}
OddUris ==
  {"sip", "sip:", "sips:", "sipx:a", "http:a", "tel:1;x=2", "urn:service:sos", "urn:nena:service:sos", "urn:other:x",
   "sip:]", "sip::1", "sip:@h", "sip:a[", "sip:a:[", "sip:a:1:", "sip:a:x", "sip:a:x;y", "sip:a:xy@h", "sip:a@", "sip:a@:1",
   "sip:a@h@", "sip:a@h&", "sip:[::1]x", "sip:[::1]:1", "sip:[::1]&", "sip:[::1", "sip:[;", "sip:a@[::1];x", "sip:h:1;x@y",
   "sip:a@h:x", "sip:a@h:1;x", "sip:a@h:1?x", "sip:h:1?x@y", "sip:h;x:1:2@y", "sip:h;x:1;y@z", "sip:h;x:1?y@z",
   "sip:h;lr@y", "sip:h;lr;x", "sip:h;lr?x", "sip:h;lr:x@y", "sip:h;lrx", "sip:h;lr=1;x", "sip:h;lr=", "sip:h;r2", "sip:h;r2=1",
   "sip:h;gr", "sip:h;gr=1", "sip:h;pn-provider", "sip:h;pn-provider=1", "sip:h;pn-prid=1", "sip:h;pn-prid", "sip:h;pn-param=1;x",
   "sip:h;pn-paramx", "sip:h;pn-purr=1", "sip:h;pn-purr=", "sip:h;pn-x", "sip:h;method=a", "sip:h;mad", "sip:h;maddr=1",
   "sip:h;transport=udp:1@y", "sip:h;transport=;x", "sip:h;transport=u;x", "sip:h;ttl=@y", "sip:h;transport", "sip:h;transport=",
   "sip:h;1;2;3;4;5;6;7;8;9;a;b", "sip:h;", "sip:h;x=1;", "sip:h?x;y", "sip:h?x;y@z", "sip:a@h?x;y", "sip:h?x:1;y", "sip:h?x:1:2@y",
   "sip:h?x:1?y@z", "sip:h?x?y", "sip:h?x:1@y", "sip:h:x@y:1"}
OddHeaders ==
  {"", "CSeq: 1", "CSeq: 1 2\r\n 3", "CSeq: 1 \r\n INVITE", "CSeq: 1 INVITE x", "CSeq: 1 ACK,x", "CSeq: 1 \"", "CSeq: 1 INVITE \n",
   "Content-Length: 0", "l: 9999999999", "l:", "l: x", "l: 5\n ", "l: 5 x", "Content-Length: 5\rx", "Content-Type: a",
   "Content-Disposition : a", "Contact: a\r\n b", "m: a", "Max-Forwards: 70", "Route: a", "Record-Route:a", "Expires : 5", "Expires \t: 5",
   "Exp: 5", "Path\t: x", "Feature-Caps: x", "Feature-Caps : x", "Replaces: x", "Accept: a", "Accept-Disposition: a",
   "acceptadisposition: a", "P-Asserted-Identity: a", "From a", "From", "To x: y", "X y", "X", ":", "v", "i : x", "i x", "f\t: y",
   "Retry-After: 1", "Call-Info: a", "Subject:\r\n\r\n", "User-Agent: b"}
OddLines ==
  {"SIP/2.0 200 OK\r\nX: y\r\n\r\n", "SIP/2.0 2x0 OK\r\nX: y\r\n\r\n", "SIP/2.0 20 OK\r\nX: y\r\n\r\n", "SIP/2.0 200 OKOKOKOK",
   "OPTIONS sip:h SIP/2.0\r\n\r\n", "NEW.1 sip:h SIP/2.0\r\n\r\n", "N(W sip:h SIP/2.0\r\n\r\n", "ACK,x sip:h SIP/2.0\r\n\r\n",
   "CANCEL sip:h SIP/2.0", "BYE sip:h SIP/2.0 x\r\n\r\n", "INFO sip:h\r\nX: yyyyyyyyy\r\n\r\n", "INVITE\tsip:h SIP/2.0\r\n\r\n",
   "\r\nACK sip:h SIP/2.0\r\nX: y\r\n\r\n", "ACK sip:h SIP/2.0\r\n", "ACK sip:h SIP/2.0\nX: y\n\nbody", "ACK h\r\n", "ACK sip:h  SIP/2.0 \r\n\r\n"}
Stale == {"", "\r\nVia: SIP/2.0/UDP old;x=\"y\r\n\r\n"}
Cut(s) == SubSeq(s, 1, Len(s) - 4)
OddMessages ==
  {Mute(Request("sip:h", <<"Via: " \o v, x>>), "") : v \in OddVias, x \in {"X: y"}}
  \cup {Mute(Request("sip:h", <<"Via: SIP/2.0/UDP h;x", x>>), "") : x \in Then}
  \cup {Mute(Request("sip:h", <<"Via: SIP/2.0/UDP h;branch=1", x>>), "") : x \in Then}
  \cup {Mute(Request("sip:h", <<"To: a;x=1", x>>), "") : x \in Then}
  \cup {Mute(Request("sip:h", <<"To: <a>", x>>), "") : x \in Then}
  \cup {Mute(Cut(Request("sip:h", <<"Via: " \o v>>)), s) : v \in OddVias, s \in Stale}
  \cup {Mute(Request("sip:h", <<"To: " \o t, "X: y">>), "") : t \in OddTos}
  \cup {Mute(Cut(Request("sip:h", <<"To: " \o t>>)), "") : t \in OddTos}
  \cup {Mute(Request("sip:h", <<"Contact: " \o c, "X: y">>), "") : c \in OddContacts}
  \cup {Mute(Request(u, <<"X: y">>), "") : u \in OddUris}
  \cup {Mute(Request("sip:h", <<h, "From: a">>), "") : h \in OddHeaders}
  \cup {Mute(Cut(Request("sip:h", <<h>>)), "") : h \in OddHeaders}
  \cup {Mute(Request("sip:h", <<"Via: SIP/2.0/UDP h;x=\"a,b\"", "From: a">>), "")}
  \cup {Mute(l, "") : l \in OddLines}
  \cup {Mute(Request("sip:h", <<"Via: SIP/2.0/UDP h">>), s) : s \in Stale}

MCDatagrams == UriMessages \cup ViaMessages \cup ToMessages \cup ContactMessages \cup OddMessages

-----------------------------------------------------------------------------
PlainUri ==
  [type |-> "SIP_URI_T", user |-> <<97>>, passwd |-> <<>>, host |-> <<104>>, port |-> <<>>,
   transport_val |-> <<>>, ttl_val |-> <<>>, user_param_val |-> <<>>, maddr_val |-> <<>>,
   method_val |-> <<>>, lr_val |-> <<>>, r2_val |-> <<>>, u_params |-> <<>>, headers |-> <<>>]

(* a, A, %61, %6A, %6a, a space, %20, %, %4, %zz, %01, %7f, "a%"             *)
Users == {<<>>, <<97>>, <<65>>, <<37, 54, 49>>, <<37, 54, 65>>, <<37, 54, 97>>, <<32>>, <<37, 50, 48>>,
          <<37>>, <<37, 52>>, <<37, 122, 122>>, <<37, 48, 49>>, <<37, 55, 102>>, <<97, 37>>}
UriParam(n, v) == [name |-> n, val |-> v]
UriParams == {UriParam(<<98>>, <<>>), UriParam(<<66>>, <<49>>), UriParam(<<98>>, <<50>>), UriParam(<<99>>, <<49>>)}
Comparable ==
  {[PlainUri EXCEPT !.user = u] : u \in Users}
  \cup {[PlainUri EXCEPT ![f] = v] : f \in DOMAIN PlainUri \ {"type", "user", "u_params"}, v \in {<<117>>, <<85>>}}
  \cup {[PlainUri EXCEPT !.u_params = s] : s \in BoundedSeq(UriParams, 3)}
  \cup {[PlainUri EXCEPT !.type = "SIPS_URI_T", !.user = u] : u \in {<<97>>, <<37>>}}

Cmp == INSTANCE UriCompare WITH Uris <- Comparable

(* Calls of the library: compare_uris, parse_msg, and contact_iterator for   *)
(* the message.  The first shares no state with the others, so that only one *)
(* of the two is varied at a time.                                           *)
LibraryInit ==
  /\ Init /\ IterInit
  /\ \/ first = PlainUri /\ second = PlainUri /\ raw = FALSE /\ result = "match"
     \/ Cmp!Init /\ datagram = Mute("ACK h\r\n", "")
Comparing == Cmp!Compare /\ UNCHANGED <<scan, iteration>>
Parsing == result # "none" /\ Next /\ UNCHANGED <<iteration, comparison>>
Contacting == (contact_iterator \/ Iterated) /\ UNCHANGED comparison
LibraryNext == Comparing \/ Parsing \/ Contacting
library == <<scan, iteration, comparison>>
LibrarySpec == LibraryInit /\ [][LibraryNext]_library /\ WF_library(LibraryNext)

(* compare_uris gives the same answer whichever URI comes first, a URI       *)
(* matches itself, and how its user name is escaped makes no difference.     *)
MatchesBothWays == Cmp!MatchesBothWays
=============================================================================
