------------------------------ MODULE SipMessage ------------------------------
(* msg_parser.c, parse_fline.c, parse_cseq.c, parse_methods.c and the        *)
(* Content-Length of parse_content.c: how SipHandler::parseMessage takes a   *)
(* datagram apart.  parse_msg reads the first line, then one header after    *)
(* the other until an empty line or the end of the datagram; Via and To are  *)
(* parsed by the automata of SipVia and SipTo.                               *)
EXTENDS SipUri

(* The types of headers that may be repeated (link_sibling_hdr), those that  *)
(* no field of sip_msg refers to, and all of them.                           *)
Linked == {"VIA", "CONTACT", "ROUTE", "RECORDROUTE", "PATH", "AUTHORIZATION", "PROXYAUTH",
           "PROXYREQUIRE", "SUPPORTED", "UNSUPPORTED", "ALLOW", "EVENT", "ACCEPT",
           "ACCEPTLANGUAGE", "ACCEPTDISPOSITION", "DIVERSION", "CALL_INFO", "WWW_AUTHENTICATE",
           "PROXY_AUTHENTICATE", "PPI", "PAI", "FEATURE_CAPS", "REPLACES"}
Hookless == {"OTHER", "RETRY_AFTER"}
hdr_types_t ==
  Linked \cup Hookless \cup
  {"TO", "FROM", "CSEQ", "CALLID", "MAXFORWARDS", "CONTENTTYPE", "CONTENTLENGTH", "EXPIRES",
   "ORGANIZATION", "PRIORITY", "SUBJECT", "USERAGENT", "CONTENTDISPOSITION", "RPID", "REFER_TO",
   "SESSION_EXPIRES", "MIN_SE", "PRIVACY", "MIN_EXPIRES"}

NoMsg ==
  [type |-> "SIP_INVALID", method |-> "", uri |-> Null, status |-> Null, eoh |-> 0,
   headers |-> <<>>, hook |-> [t \in hdr_types_t |-> <<>>], via1 |-> <<>>, via2 |-> <<>>,
   h_via2 |-> 0, to |-> <<>>, parsed_uri |-> NoUri]
NoHdr == [type |-> "ERROR", name |-> Null, body |-> Null]

-----------------------------------------------------------------------------
(* parse_method: the known methods, in lower case.                           *)
MethodsAtoM == {"ack", "bye", "cancel", "info", "invite", "message"}
MethodsNtoU == {"notify", "options", "prack", "publish", "refer", "register", "subscribe", "update"}
MethodBytes == Letters \cup Digits \cup CharsOf("-.!%*_+`'~")
(* The method of the token from i up to e: a known one, "other", or "" when  *)
(* the token is not one.  A comma ends the method.                           *)
parse_method(i, e) ==
  LET known == {w \in MethodsAtoM \cup MethodsNtoU :
                  /\ Len(w) <= e - i /\ IsWord(i, w)
                  /\ Len(w) = e - i \/ Byte(i + Len(w)) = ","}
  IN IF known # {} THEN CHOOSE w \in known : TRUE
     ELSE IF \A j \in i..(e - 1) : Byte(j) \in MethodBytes \/ \E k \in i..j : Byte(k) = ","
          THEN "other" ELSE ""

(* parse_first_line: the first word, and where it ends; SIP_INVALID when no  *)
(* first line can start with it.                                             *)
FirstWords == {"invite", "cancel", "ack", "bye", "info"}
FirstToken(i) ==
  LET word == {w \in FirstWords : IsWord(i, w) /\ Byte(i + Len(w)) = " "}
      e == eat_token_end(i)
  IN CASE IsWord(i, "sip/2.0") /\ Byte(i + 7) = " " -> [type |-> "SIP_REPLY", method |-> "", at |-> i + 7]
       [] word # {} -> LET w == CHOOSE x \in word : TRUE
                       IN [type |-> "SIP_REQUEST", method |-> w, at |-> i + Len(w)]
       [] e = i \/ e >= End \/ Byte(e) # " " \/ parse_method(i, e) = "" ->
            [type |-> "SIP_INVALID", method |-> "", at |-> e]
       [] OTHER -> [type |-> "SIP_REQUEST", method |-> parse_method(i, e), at |-> e]
IsStatus(s) == s[2] = 3 /\ \A k \in 0..2 : Byte(s[1] + k) \in Digits
(* Then the URI or the status, the version or the reason, and the next line. *)
(* parse_msg calls it behind leading line ends.                              *)
parse_first_line ==
  /\ fn = "first_line"
  /\ \E i \in {Skip(1, EOL)} : \E first \in {FirstToken(i)} :
     \E e2 \in {eat_token_end(first.at + 1)} : \E third \in {eat_space_end(e2)} :
     \E e3 \in {IF first.type = "SIP_REQUEST" THEN eat_token_end(third) ELSE eat_token2_end(third)} :
     \E nl \in {eat_line(e3)} :
       LET second == Span(first.at + 1, e2)
           ok == /\ End - i > 16 /\ first.type # "SIP_INVALID"
                 /\ e2 < End /\ third > e2 /\ e3 < End /\ nl < End
                 /\ IF first.type = "SIP_REPLY" THEN IsStatus(second) ELSE e3 > third /\ is_empty_end(e3)
       IN \/ ~ok /\ Refuse
          \/ /\ ok /\ fn' = "headers" /\ p' = nl
             /\ msg' = [msg EXCEPT !.type = first.type, !.method = first.method, !.uri = second]
             /\ UNCHANGED <<datagram, st, sv, loc, hdr>>

-----------------------------------------------------------------------------
(* get_hdr_field: the name, the blanks behind the colon, and the parser of   *)
(* the body.                                                                 *)
AtHeader == fn = "headers" /\ p < End /\ Byte(p) \notin EOL
HeaderName ==
  /\ AtHeader
  /\ \E h \in {parse_hname2(p)} : \E body \in {eat_lws_end(h.next)} :
       \/ (h.type = "ERROR" \/ body >= End) /\ Refuse
       \/ /\ h.type # "ERROR" /\ body < End
          /\ fn' = "body" /\ p' = body /\ hdr' = [type |-> h.type, name |-> h.name, body |-> <<body, 0>>]
          /\ UNCHANGED <<datagram, st, sv, loc, msg>>

Body(type) == fn = "body" /\ hdr.type = type
HeaderVia == Body("VIA") /\ StartVia(<<>>) /\ UNCHANGED <<datagram, p, hdr, msg>>
HeaderTo == Body("TO") /\ StartTo /\ UNCHANGED <<datagram, p, hdr, msg>>
(* The other bodies are parsed in one step, from p to e; 0 is an error.      *)
BodyTo(e) ==
  \/ e = 0 /\ Refuse
  \/ e # 0 /\ fn' = "hdr_end" /\ p' = e /\ UNCHANGED <<datagram, st, sv, loc, hdr, msg>>

(* parse_cseq: a token, a method, blanks, and the end of the line.           *)
\* Mutant: the line feed behind the carriage return is left to the next header.
cseq_end_KeepsLF(i) ==
  LET t == eat_token_end(i)
      m == eat_space_end(t)
      e == eat_token_end(m)
      l == eat_lws_end(e)
  IN IF t < End /\ e < End /\ e > m /\ parse_method(m, e) # "" /\ l < End /\ Byte(l) \in EOL THEN l + 1 ELSE 0
cseq_end(i) ==
  LET t == eat_token_end(i)
      m == eat_space_end(t)
      e == eat_token_end(m)
      l == eat_lws_end(e)
  IN IF ~(t < End /\ e < End /\ e > m /\ parse_method(m, e) # "" /\ l < End) THEN 0
     ELSE IF Byte(l) = "\n" THEN l + 1
     ELSE IF Byte(l) = "\r" /\ l + 1 < End /\ Byte(l + 1) = "\n" THEN l + 2 ELSE 0
HeaderCSeq == Body("CSEQ") /\ BodyTo(cseq_end(p))

(* parse_content_length: digits, blanks, and the end of the line, which only *)
(* a bare line feed may continue.  More than nine digits may overflow an int *)
(* (undefined): the number is then refused or not.                           *)
length_end(i) ==
  LET d == Skip(i, Digits)
      Blank(j) == Byte(j) \in SP \/ (Byte(j) = "\n" /\ Byte(j + 1) \in SP)
      e == Min({j \in d..Max({d, End}) : j >= End \/ ~Blank(j)})
  IN IF d = i \/ d >= End \/ e >= End THEN 0
     ELSE IF Byte(e) = "\n" THEN e + 1
     ELSE IF Byte(e) = "\r" /\ Byte(e + 1) = "\n" THEN e + 2 ELSE 0
MayOverflow(i) == Skip(i, Digits) - i > 9
HeaderLength ==
  /\ Body("CONTENTLENGTH")
  /\ BodyTo(length_end(p)) \/ (MayOverflow(p) /\ Refuse)

(* Every other header is skipped: to the line feed whose next line is not a  *)
(* continuation.                                                             *)
Parsed == {"VIA", "TO", "CSEQ", "CONTENTLENGTH"}
Lines(i) == {j \in i..(End - 1) : Byte(j) = "\n"}
skip_end(i) ==
  LET last == {j \in Lines(i) : j + 1 >= End \/ Byte(j + 1) \notin SP}
  IN IF last = {} THEN 0 ELSE Min(last) + 1
HeaderSkip == fn = "body" /\ hdr.type \notin Parsed /\ BodyTo(skip_end(p))

-----------------------------------------------------------------------------
(* parse_headers: the header joins the list.  Of the headers of a type that  *)
(* may be repeated all are remembered, of the others the first.              *)
\* Mutant: the last header of a type is remembered instead of the first.
Hooked_Last(n) ==
  LET t == hdr.type IN
  IF t \in Hookless THEN msg.hook
  ELSE [msg.hook EXCEPT ![t] = IF t \in Linked THEN Append(@, n) ELSE <<n>>]
Hooked(n) ==
  LET t == hdr.type IN
  IF t \in Hookless \/ (t \notin Linked /\ msg.hook[t] # <<>>) THEN msg.hook
  ELSE [msg.hook EXCEPT ![t] = Append(@, n)]
(* The first and the second Via body, of one header or of two.               *)
Vias == loc.vbs
\* Mutant: a second body in the first header is forgotten.
WithVias_OnePerHeader(m, n) ==
  IF hdr.type # "VIA" THEN m
  ELSE IF m.via1 = <<>> THEN [m EXCEPT !.via1 = <<Vias[1]>>]
  ELSE IF m.via2 = <<>> THEN [m EXCEPT !.via2 = <<Vias[1]>>, !.h_via2 = n] ELSE m
WithVias(m, n) ==
  IF hdr.type # "VIA" THEN m
  ELSE IF m.via1 = <<>> THEN [m EXCEPT !.via1 = <<Vias[1]>>, !.via2 = IF Len(Vias) > 1 THEN <<Vias[2]>> ELSE @]
  ELSE IF m.via2 = <<>> THEN [m EXCEPT !.via2 = <<Vias[1]>>, !.h_via2 = n] ELSE m
AddHeader ==
  /\ fn = "hdr_end"
  /\ LET n == Len(msg.headers) + 1
         h == [hdr EXCEPT !.body = trim_r(Span(@[1], p))]
         m == [msg EXCEPT !.headers = Append(@, h), !.hook = Hooked(n),
                          !.to = IF hdr.type = "TO" /\ @ = <<>> THEN <<loc.to>> ELSE @]
     IN msg' = WithVias(m, n)
  /\ fn' = "headers" /\ hdr' = NoHdr /\ loc' = <<>> /\ st' = "" /\ sv' = ""
  /\ UNCHANGED <<datagram, p>>

(* The empty line, or the end of the datagram without one.  A request goes   *)
(* on to parse_sip_msg_uri, a reply is of no use to the daemon.              *)
HeadersEnd ==
  /\ fn = "headers" /\ (p >= End \/ Byte(p) \in EOL)
  /\ msg' = [msg EXCEPT !.eoh = IF p < End THEN p ELSE @]
  /\ IF msg.type = "SIP_REQUEST" THEN parse_sip_msg_uri ELSE fn' = "refused" /\ UNCHANGED <<p, st, sv, loc>>
  /\ UNCHANGED <<datagram, hdr>>

Init ==
  /\ datagram \in Datagrams
  /\ fn = "first_line" /\ p = 1 /\ st = "" /\ sv = "" /\ loc = <<>>
  /\ hdr = NoHdr /\ msg = NoMsg

get_hdr_field ==
  HeaderName \/ HeaderVia \/ HeaderTo \/ HeaderCSeq \/ HeaderLength \/ HeaderSkip
Done == fn \in {"refused", "accepted"} /\ UNCHANGED scan
Next ==
  \/ parse_first_line \/ get_hdr_field \/ parse_via \/ parse_to \/ AddHeader \/ HeadersEnd
  \/ parse_uri \/ Done
Spec == Init /\ [][Next]_scan
(* parseMessage runs to its end on the thread that received the datagram.    *)
FairSpec == Spec /\ WF_scan(Next)

-----------------------------------------------------------------------------
(* What a reader of RFC 3261 sees in a datagram: a header starts with every  *)
(* line behind the first that does not start with a blank, up to the first   *)
(* empty line.  None of this follows the automata above.                     *)
LineStarts ==
  {i \in (Skip(1, EOL) + 1)..Len0 : Byte(i - 1) = "\n" /\ Byte(i) \notin SP}
EmptyLine == Min({i \in LineStarts : Byte(i) \in EOL} \cup {End})
HeaderStarts == {i \in LineStarts : i < EmptyLine}
NextLine(i) == Min({j \in HeaderStarts : j > i} \cup {EmptyLine})
EndsWithEmptyLine == EmptyLine < End

(* A message that has an empty line is parsed without a look at a byte       *)
(* behind the datagram: the loops of parse_via and parse_via_param that stop *)
(* only at a NUL meet the empty line first, whatever an earlier datagram     *)
(* left in recvbuf_.                                                         *)
ReadsOnlyTheDatagram == EndsWithEmptyLine => p <= End

(* Every line has a name, and no comma stands between quotes: parse_via      *)
(* takes a comma in a quoted parameter value for the end of the Via body.    *)
LinesHaveNames == \A i \in HeaderStarts : Find(i, {":"}) < Find(i, EOL)
QuotedComma ==
  \E i \in 1..Len0 : Byte(i) = "," /\ Find(1, {"\""}) < i /\ Find(i, {"\""}) < End
Plain == LinesHaveNames /\ ~QuotedComma

(* get_hdr_field leaves off at a line start: the headers of an accepted      *)
(* message of plain lines are its lines, none is swallowed by the one before *)
(* it and none is made of the rest of a line.                                *)
EveryLineIsAHeader ==
  (fn = "accepted" /\ Plain) => {msg.headers[k].name[1] : k \in DOMAIN msg.headers} = HeaderStarts

ReplyNames == [VIA |-> {"via", "v"}, FROM |-> {"from", "f"}, TO |-> {"to", "t"},
               CALLID |-> {"call-id", "i"}, CSEQ |-> {"cseq"}]
IsNamed(i, names) == \E w \in names : IsWord(i, w) /\ Byte(Skip(i + Len(w), SP)) = ":"

(* SipHandler::reply copies the headers that the hooks h_via1, from, to,     *)
(* callid and cseq point to: each is the first of its name in the datagram,  *)
(* from its name to the end of its last line, and missing only if the        *)
(* datagram has none.                                                        *)
ReplyHeadersAreFirst ==
  (fn = "accepted" /\ EndsWithEmptyLine /\ Plain) =>
    \A t \in DOMAIN ReplyNames :
      LET starts == {i \in HeaderStarts : IsNamed(i, ReplyNames[t])} IN
      IF starts = {} THEN msg.hook[t] = <<>>
      ELSE /\ msg.hook[t] # <<>>
           /\ LET i == Min(starts)
                  h == msg.headers[msg.hook[t][1]]
                  body == trim_r(Span(eat_lws_end(Find(i, {":"}) + 1), NextLine(i)))
              IN h.name[1] = i /\ h.body = body

-----------------------------------------------------------------------------
(* A datagram may say from which parts its URI, Via and To were put together *)
(* (fields uri, vias and to, <<>> when it does not say).                     *)
Unknowns(u) == SelectSeq(u.params, LAMBDA q : q[1] \notin {"transport", "ttl", "lr", "maddr", "user"})
FieldOf == [transport |-> "transport", ttl |-> "ttl", lr |-> "lr", maddr |-> "maddr", user |-> "user_param"]

(* The parts of the request URI are found again, with any user that holds    *)
(* ";" or "?", any password, port, parameters and headers: user, host and    *)
(* port decide the answer of handleInvite.                                   *)
UriIsExact ==
  (fn = "accepted" /\ datagram.uri # <<>>) =>
    LET u == datagram.uri[1]
        q == msg.parsed_uri
    IN /\ Text(q.user) = u.user /\ Text(q.passwd) = u.passwd
       /\ Text(q.host) = u.host /\ Text(q.port) = u.port
       /\ [k \in DOMAIN q.u_params |-> <<Text(q.u_params[k][1]), Text(q.u_params[k][2])>>] = Unknowns(u)
       /\ \A k \in DOMAIN u.params :
            u.params[k][1] \in DOMAIN FieldOf => Text(q.val[FieldOf[u.params[k][1]]]) = u.params[k][2]

ViaIs(v, w) ==
  /\ Text(v.transport) = w.transport /\ Text(v.host) = w.host /\ Text(v.port_str) = w.port
  /\ Text(v.comment) = w.comment
  /\ [k \in DOMAIN v.param_lst |-> <<Text(v.param_lst[k].name), Text(v.param_lst[k].value)>>] = w.params

(* The Via bodies of a message, of one header or of several, are found again *)
(* in their order however lines are folded and blanks are set: transport,    *)
(* host, port, comment, and the parameters with their values.                *)
ViasAreExact ==
  (fn = "accepted" /\ datagram.vias # <<>>) =>
    \A k \in 1..2 :
      LET via == IF k = 1 THEN msg.via1 ELSE msg.via2 IN
      IF k > Len(datagram.vias) THEN via = <<>> ELSE via # <<>> /\ ViaIs(via[1], datagram.vias[k])

(* The To header likewise: parse_to finds its display name, URI and tag.     *)
ToIsExact ==
  (fn = "accepted" /\ datagram.to # <<>>) =>
    /\ msg.to # <<>>
    /\ LET to == msg.to[1] IN
       /\ Text(to.display) = datagram.to[1].display
       /\ Text(to.uri) = datagram.to[1].uri /\ Text(to.tag) = datagram.to[1].tag

WellFormed == datagram.uri # <<>> \/ datagram.vias # <<>> \/ datagram.to # <<>>

(* A well-formed request, one that says its parts, is accepted, and parsing  *)
(* ends for every datagram: no automaton stays on a byte.                    *)
ParsingEnds == <>(fn = "accepted" \/ (fn = "refused" /\ ~WellFormed))
=============================================================================
