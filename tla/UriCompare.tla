----------------------------- MODULE UriCompare -----------------------------
(***************************************************************************)
(* The part of the SIP parser library that is about two URIs: compare_uris *)
(* (parse_uri.c) and the escaping of user names it depends on              *)
(* (strcommon.c).  The library offers it next to parse_uri; the daemon     *)
(* itself parses one URI per request and compares none.                    *)
(*                                                                         *)
(* Text is a sequence of octets; a URI is what parse_uri makes of it.      *)
(***************************************************************************)
EXTENDS Naturals, Sequences, SequencesExt, FiniteSetsExt

CONSTANTS
  Uris,  \* URIs to compare
  Bad    \* a user name that cannot be unescaped

VARIABLES
  first, second,  \* the URIs
  raw,            \* compare_uris is given their text too
  result          \* what it returned, "none" before

-----------------------------------------------------------------------------
(* Octets.                                                                 *)

Percent == 37
Printable == 32..126
Alphanumeric == (48..57) \cup (65..90) \cup (97..122)

\* - _ . ! ~ * ' ( ) and & = + $ , ; ? /
Unreserved == {45, 95, 46, 33, 126, 42, 39, 40, 41, 38, 61, 43, 36, 44, 59, 63, 47}

HexDigits == (48..57) \cup (65..70) \cup (97..102)
HexValue(o) == CASE o \in 48..57 -> o - 48 [] o \in 65..70 -> o - 55 [] o \in 97..102 -> o - 87
HexDigit(x) == IF x < 10 THEN x + 48 ELSE x + 87

Lower(s) == [i \in DOMAIN s |-> IF s[i] \in 65..90 THEN s[i] + 32 ELSE s[i]]

\* unescape_user.  What follows a user name in a URI is no hexadecimal digit: an
\* escape that is cut off is an error.
unescape_user(s) ==
  LET rest[i \in 1..(Len(s) + 1)] ==
        LET code == HexValue(s[i + 1]) * 16 + HexValue(s[i + 2])
            prefix(o, r) == IF r = Bad THEN Bad ELSE <<o>> \o r
        IN  IF i > Len(s) THEN <<>>
            ELSE IF s[i] # Percent THEN prefix(s[i], rest[i + 1])
            ELSE IF i + 2 > Len(s) \/ ~({s[i + 1], s[i + 2]} \subseteq HexDigits) THEN Bad
            ELSE IF code \notin Printable THEN Bad
            ELSE prefix(code, rest[i + 3])
  IN  rest[1]

\* escape_user
escape_user(s) ==
  LET escaped(o) == IF o \in Alphanumeric \cup Unreserved THEN <<o>>
                    ELSE <<Percent, HexDigit(o \div 16), HexDigit(o % 16)>>
  IN  IF ToSet(s) \subseteq Printable THEN FlattenSeq([i \in DOMAIN s |-> escaped(s[i])]) ELSE Bad

-----------------------------------------------------------------------------
(* compare_uris.                                                           *)

\* compare_uri_val with strncmp and with strncasecmp.
Exact == {"user", "passwd", "port"}
Caseless == {"host", "transport_val", "ttl_val", "user_param_val", "maddr_val", "method_val",
             "lr_val", "r2_val"}
SameFields(a, b) ==
  /\ \A f \in Exact : a[f] = b[f]
  /\ \A f \in Caseless : Lower(a[f]) = Lower(b[f])

\* Mutant: matched[] is not looked at.
SameParams_Reused(a, b) ==
  \A i \in DOMAIN a :
    LET named == {j \in DOMAIN b : Lower(b[j].name) = Lower(a[i].name)}
    IN  named = {} \/ Lower(b[Min(named)].val) = Lower(a[i].val)

\* The parameters parse_uri does not know, unless one URI has none.  Each of the
\* first URI goes with the first of that name that is left of the second.
SameParams(a, b) ==
  LET matched[i \in 0..Len(a)] ==
        LET before == matched[i - 1]
            named == {j \in DOMAIN b : Lower(b[j].name) = Lower(a[i].name)} \ before
        IN  IF i = 0 THEN {}
            ELSE IF before = Bad \/ named = {} THEN before
            ELSE IF Lower(b[Min(named)].val) = Lower(a[i].val) THEN before \cup {Min(named)}
            ELSE Bad
  IN  a = <<>> \/ b = <<>> \/ matched[Len(a)] # Bad

\* The text of two URIs is the same but for capitals.
SameText(a, b) ==
  /\ a.type = b.type /\ Len(a.u_params) = Len(b.u_params)
  /\ \A f \in Exact \cup Caseless \cup {"headers"} : Lower(a[f]) = Lower(b[f])
  /\ \A i \in DOMAIN a.u_params : /\ Lower(a.u_params[i].name) = Lower(b.u_params[i].name)
                                  /\ Lower(a.u_params[i].val) = Lower(b.u_params[i].val)

Unescaped(u) == [u EXCEPT !.user = unescape_user(@)]

compare_uris(a, b, text) ==
  IF text /\ SameText(a, b) THEN "match"
  ELSE IF a.type # b.type THEN "differ"
  ELSE IF Bad \in {unescape_user(a.user), unescape_user(b.user)} THEN "error"
  ELSE IF /\ SameFields(Unescaped(a), Unescaped(b)) /\ SameParams(a.u_params, b.u_params)
          /\ Lower(a.headers) = Lower(b.headers)
       THEN "match" ELSE "differ"

-----------------------------------------------------------------------------
Init == first \in Uris /\ second \in Uris /\ raw \in BOOLEAN /\ result = "none"

Compare ==
  /\ result = "none" /\ result' = compare_uris(first, second, raw)
  /\ UNCHANGED <<first, second, raw>>

-----------------------------------------------------------------------------
(* Properties.                                                             *)

\* The first URI with its user name unescaped and escaped again.
Reescaped == [first EXCEPT !.user = escape_user(unescape_user(@))]

\* compare_uris gives the same answer whichever URI comes first, although only
\* the parameters of the first are gone through ("and the other way around",
\* parse_uri.c:1841); a URI matches itself, however often a parameter is repeated
\* in it; and it matches the URI whose user name is escaped in another way.
MatchesBothWays ==
  result # "none" =>
    /\ result = compare_uris(second, first, raw)
    /\ unescape_user(first.user) # Bad =>
         /\ first = second => result = "match"
         /\ second = Reescaped => result = "match"
         /\ compare_uris(first, Reescaped, raw) = "match"

=============================================================================
