------------------------------ MODULE SipContact ------------------------------
(* contact/contact.c, contact/parse_contact.c and parse_param.c: the Contact *)
(* headers of a message, which contact_iterator goes through.  The library   *)
(* offers it for a message that parse_msg has accepted; the daemon does not  *)
(* call it.  The bodies are read byte by byte, parameters one at a time.     *)
EXTENDS SipMessage

VARIABLES
  iter,   \* contact_iterator: "start", in "name", "uri" or "params", gave a "contact", "end", "error"
  rest,   \* what is left of the header it parses
  at,     \* the byte of it that is looked at
  aux,    \* locals of skip_name and skip_uri
  list,   \* the contacts of the header
  prev,   \* the contact it gave last: the number of the header, and the place in it
  found   \* all the contacts it gave

iteration == <<iter, rest, at, aux, list, prev, found>>

WS == SP \cup EOL
Behind(s) == s[1] + s[2]
From(s, i) == Span(i, Behind(s))
(* The first position in s with a byte of S, or its end.                     *)
UpTo(s, S) == Min({j \in s[1]..Behind(s) : j = Behind(s) \/ Byte(j) \in S})
StartsWith(s, c) == s[2] > 0 /\ Byte(s[1]) = c

trim_leading(s) ==
  IF s[2] <= 0 THEN s ELSE From(s, Min({j \in s[1]..Behind(s) : j = Behind(s) \/ Byte(j) \notin WS}))
trim_trailing(s) == <<s[1], Max({0} \cup {k \in 1..s[2] : Byte(s[1] + k - 1) \notin WS})>>

-----------------------------------------------------------------------------
(* parse_params: names with or without a quoted string or a token.           *)

parse_quoted_param(s) ==
  LET q == UpTo(From(s, s[1] + 1), {"\""})
  IN IF q = Behind(s) THEN <<>> ELSE <<[body |-> Span(s[1] + 1, q), rest |-> From(s, q + 1)]>>
parse_token_param(s) ==
  LET e == UpTo(s, WS \cup {",", ";"})
  IN IF e = s[1] THEN <<>> ELSE <<[body |-> Span(s[1], e), rest |-> From(s, e)]>>
parse_param_body(s) == IF StartsWith(s, "\"") THEN parse_quoted_param(s) ELSE parse_token_param(s)

(* The end of the name.                                                      *)
parse_param_name(s) == UpTo(s, WS \cup {";", ",", "="})

(* parse_contact_class: the last parameter of each known name, or 0.         *)
ContactClass == {"q", "expires", "methods", "received", "+sip.instance"}
Hooks(params) ==
  [w \in ContactClass |->
     Max({0} \cup {k \in DOMAIN params : params[k].name[2] = Len(w) /\ IsWord(params[k].name[1], w)})]

-----------------------------------------------------------------------------
Fail == iter' = "error" /\ UNCHANGED <<rest, at, aux, list, prev, found>>
Look(at2, aux2) == at' = at2 /\ aux' = aux2 /\ UNCHANGED <<iter, rest, list, prev, found>>
(* The next part of the contact, behind which s is left.                     *)
Part(next, s, contacts) ==
  /\ iter' = next /\ rest' = s /\ at' = s[1]
  /\ aux' = [quoted |-> FALSE, wsp |-> 0, state |-> "ST1"] /\ list' = contacts

(* skip_name: to the "<", or back to the last blank before the scheme.  The  *)
(* length then shrinks by one only, whatever was skipped (the assignment to  *)
(* _s->s comes first): the rest reaches beyond the header.                   *)
\* Mutant: a quote that is escaped ends the name.
EndsQuote_Escaped(i) == Byte(i) = "\""
EndsQuote(i) == Byte(i) = "\"" /\ Byte(i - 1) # "\\"
BehindName ==
  IF Byte(at) = "<" THEN From(rest, at) ELSE IF aux.wsp = 0 THEN rest ELSE <<aux.wsp, rest[2] - 1>>
skip_name ==
  /\ iter = "name"
  /\ \/ at = Behind(rest) /\ Fail
     \/ /\ at < Behind(rest) /\ (aux.quoted \/ Byte(at) \notin {"<", ":"})
        /\ Look(at + 1, [aux EXCEPT !.quoted = IF @ THEN ~EndsQuote(at) ELSE Byte(at) = "\"",
                                    !.wsp = IF ~aux.quoted /\ Byte(at) \in SP THEN at ELSE @])
     \/ /\ at < Behind(rest) /\ ~aux.quoted /\ Byte(at) \in {"<", ":"}
        /\ LET name == trim_trailing(Span(rest[1], BehindName[1]))
           IN Part("uri", BehindName, Append(list, [name |-> name, uri |-> Null, params |-> <<>>]))
        /\ UNCHANGED <<prev, found>>

(* Behind a contact follows the next one, or the iterator gives the first.   *)
EndContact(s, contacts) ==
  \E next \in {trim_leading(From(s, s[1] + 1))} :
    \/ s[2] = 0 /\ prev' = <<prev[1], 1>> /\ found' = Append(found, contacts[1]) /\ Part("contact", s, contacts)
    \/ s[2] > 0 /\ next[2] = 0 /\ Fail
    \/ s[2] > 0 /\ next[2] > 0 /\ Part("name", next, contacts) /\ UNCHANGED <<prev, found>>

(* skip_uri: to a comma or semicolon outside of quotes and angle brackets.   *)
(* ST2 is quoted, ST3 in angle brackets, ST4 quoted there, ST5 and ST6 are   *)
(* behind a backslash, until one of the four bytes comes.                    *)
UriMove ==
  LET back == [ST5 |-> "ST2", ST6 |-> "ST4"] IN
  "\"" :> ([ST1 |-> "ST2", ST2 |-> "ST1", ST3 |-> "ST4", ST4 |-> "ST3"] @@ back)
  @@ "<" :> ([ST1 |-> "ST3", ST2 |-> "ST2", ST3 |-> "error", ST4 |-> "ST4"] @@ back)
  @@ ">" :> ([ST1 |-> "error", ST2 |-> "ST2", ST3 |-> "ST1", ST4 |-> "ST4"] @@ back)
  @@ "\\" :> ([ST1 |-> "ST1", ST2 |-> "ST5", ST3 |-> "ST3", ST4 |-> "ST6"] @@ back)
Moved == IF Byte(at) \in DOMAIN UriMove THEN UriMove[Byte(at)][aux.state] ELSE aux.state
Unbracketed(s) ==
  IF s[2] >= 2 /\ Byte(s[1]) = "<" /\ Byte(Behind(s) - 1) = ">" THEN <<s[1] + 1, s[2] - 2>> ELSE s
AtUriEnd == at = Behind(rest) \/ (aux.state = "ST1" /\ Byte(at) \in {",", ";"})
skip_uri ==
  /\ iter = "uri"
  /\ \/ ~AtUriEnd /\ Moved = "error" /\ Fail
     \/ ~AtUriEnd /\ Moved # "error" /\ Look(at + 1, [aux EXCEPT !.state = Moved])
     \/ /\ AtUriEnd
        /\ \E whole \in {trim_trailing(Span(rest[1], at))} : \E bare \in {trim_leading(Unbracketed(whole))} :
           \E uri \in {trim_trailing(bare)} : \E s \in {From(rest, at)} :
           \E inner \in {trim_leading(From(rest, at + 1))} :
             LET contacts == [list EXCEPT ![Len(list)].uri = uri]
                 ok == aux.state = "ST1" /\ uri[2] > 0
             IN \/ (~ok \/ (StartsWith(s, ";") /\ inner[2] = 0)) /\ Fail
                \/ ok /\ ~StartsWith(s, ";") /\ EndContact(s, contacts)
                \/ /\ ok /\ StartsWith(s, ";") /\ inner[2] > 0
                   /\ Part("params", inner, contacts) /\ UNCHANGED <<prev, found>>

(* parse_params, one parameter of the last contact of the list at a time.    *)
(* ValueText: the text behind the "=", if there is one.                          *)
ValueText(r) == IF StartsWith(r, "=") THEN <<trim_leading(From(r, r[1] + 1))>> ELSE <<>>
BodyOf(value) == IF value = <<>> \/ value[1][2] = 0 THEN <<>> ELSE parse_param_body(value[1])
parse_params ==
  /\ iter = "params"
  /\ \E e \in {parse_param_name(rest)} : \E r \in {trim_leading(From(rest, e))} :
     \E value \in {ValueText(r)} : \E b \in {BodyOf(value)} :
     \E s \in {IF b = <<>> THEN r ELSE trim_leading(b[1].rest)} :
     \E next \in {trim_leading(From(s, s[1] + 1))} :
       LET param == [name |-> Span(rest[1], e), body |-> IF b = <<>> THEN Null ELSE b[1].body]
           contacts == [list EXCEPT ![Len(list)].params = Append(@, param)]
           last == s[2] = 0 \/ Byte(s[1]) \in {",", ">"}
           more == StartsWith(s, ";") /\ next[2] > 0
           ok == value = <<>> \/ b # <<>>
       IN \/ ok /\ last /\ EndContact(s, contacts)
          \/ ok /\ more /\ Part("params", next, contacts) /\ UNCHANGED <<prev, found>>
          \/ ~(ok /\ (last \/ more)) /\ Fail

parse_contacts == skip_name \/ skip_uri \/ parse_params

-----------------------------------------------------------------------------
IterInit ==
  /\ iter = "start" /\ rest = Null /\ at = 0 /\ aux = <<>> /\ list = <<>>
  /\ prev = <<0, 0>> /\ found = <<>>

EndIteration == iter' = "end" /\ UNCHANGED <<rest, at, aux, list, prev, found>>

(* contact_parser: a star, which has no contact and so ends the iteration,   *)
(* or contacts.                                                              *)
contact_parser(h, s) ==
  \/ (s[2] = 0 \/ (StartsWith(s, "*") /\ s[2] > 1)) /\ Fail
  \/ StartsWith(s, "*") /\ s[2] = 1 /\ EndIteration
  \/ s[2] > 0 /\ ~StartsWith(s, "*") /\ Part("name", s, <<>>) /\ prev' = <<h, 0>> /\ UNCHANGED found

(* The contact behind prev in its header, if there is one.                   *)
SameHeader ==
  /\ iter = "contact" /\ prev[2] < Len(list)
  /\ prev' = <<prev[1], prev[2] + 1>> /\ found' = Append(found, list[prev[2] + 1])
  /\ UNCHANGED <<iter, rest, at, aux, list>>

(* Otherwise the next Contact header.  All headers have been parsed, so that *)
(* parse_headers brings no more.                                             *)
NextHeader ==
  /\ iter = "start" \/ (iter = "contact" /\ prev[2] = Len(list))
  /\ \E headers \in {{h \in DOMAIN msg.headers : h > prev[1] /\ msg.headers[h].type = "CONTACT"}} :
       \/ headers = {} /\ EndIteration
       \/ /\ headers # {}
          /\ \E h \in {Min(headers)} : \E s \in {trim_leading(msg.headers[h].body)} : contact_parser(h, s)

contact_iterator ==
  /\ fn \in {"accepted", "contacts"} /\ (NextHeader \/ SameHeader \/ parse_contacts)
  /\ fn' = "contacts" /\ UNCHANGED <<datagram, p, st, sv, loc, hdr, msg>>
Iterated == iter \in {"end", "error"} /\ UNCHANGED <<scan, iteration>>

-----------------------------------------------------------------------------
(* A datagram may also say its contacts (field contacts), in their order.    *)
ContactIs(c, d) ==
  /\ Text(c.name) = d.name /\ Text(c.uri) = d.uri
  /\ [k \in DOMAIN c.params |-> <<Text(c.params[k].name), Text(c.params[k].body)>>] = d.params
  /\ \A w \in ContactClass :
       LET named == {k \in DOMAIN d.params : d.params[k][1] = w}
       IN Hooks(c.params)[w] = Max({0} \cup named)

(* contact_iterator gives every contact of a message once and in order, of   *)
(* one header or of several, whatever stands in the quotes and brackets of   *)
(* names and URIs and wherever blanks and folds are: name, URI, parameters.  *)
ContactsAreExact ==
  datagram.contacts # <<>> =>
    /\ fn # "refused" /\ iter # "error"
    /\ iter = "end" => /\ Len(found) = Len(datagram.contacts)
                       /\ \A k \in DOMAIN found : ContactIs(found[k], datagram.contacts[k])

(* parse_to and contact_iterator find the addresses again that a message was *)
(* put together from.                                                        *)
AddressesAreExact == ToIsExact /\ ContactsAreExact
=============================================================================
