-------------------------------- MODULE SipUri --------------------------------
(* parse_uri.c: the URI of a request.  One automaton reads it from the left; *)
(* only an "@" tells whether what came before it was the user or the host,   *)
(* so the parts found so far are moved when it comes late (still_at_user).   *)
(* `pass` is where a colon may have started a password, b and v are where    *)
(* the name and the value of a parameter start.                              *)
EXTENDS SipNames

URI_MAX_U_PARAMS == 10

ParamFields == {"transport", "ttl", "user_param", "method", "maddr", "lr", "r2", "gr",
                "pn_provider", "pn_prid", "pn_param", "pn_purr"}
NoUri ==
  [type |-> "ERROR_URI_T", user |-> Null, passwd |-> Null, host |-> Null, port |-> Null, port_no |-> 0,
   params |-> Null, headers |-> Null, proto |-> "PROTO_NONE", u_params |-> <<>>,
   param |-> [f \in ParamFields |-> Null], val |-> [f \in ParamFields |-> Null]]

(* The scheme, and where the part behind it starts.                          *)
UriScheme(i) ==
  CASE IsWord(i, "sip:") -> [type |-> "SIP_URI_T", len |-> 4]
    [] IsWord(i, "sips:") -> [type |-> "SIPS_URI_T", len |-> 5]
    [] IsWord(i, "tel:") -> [type |-> "TEL_URI_T", len |-> 4]
    [] IsWord(i, "urn") /\ Text(<<i + 3, 9>>) = ":service:" -> [type |-> "URN_SERVICE_URI_T", len |-> 12]
    [] IsWord(i, "urn") /\ Text(<<i + 3, 14>>) = ":nena:service:" -> [type |-> "URN_NENA_SERVICE_URI_T", len |-> 17]
    [] OTHER -> [type |-> "ERROR_URI_T", len |-> 0]
(* Where parse_uri starts, if the URI is long enough and has a scheme.       *)
UriStart(uri) ==
  LET scheme == UriScheme(uri[1])
      from == uri[1] + scheme.len
  IN /\ uri[2] >= 5 /\ scheme.type # "ERROR_URI_T"
     /\ fn' = "uri" /\ p' = from /\ st' = "URI_INIT" /\ sv' = ""
     /\ loc' = [uri |-> [NoUri EXCEPT !.type = scheme.type], end |-> uri[1] + uri[2],
                s |-> from, b |-> 0, v |-> 0, param |-> "", pass |-> 0,
                found_user |-> FALSE, error_headers |-> FALSE]
(* The URI of the request line is parsed; no message has a new_uri.          *)
parse_sip_msg_uri ==
  \/ UriStart(msg.uri)
  \/ /\ msg.uri[2] < 5 \/ UriScheme(msg.uri[1]).type = "ERROR_URI_T"
     /\ fn' = "refused" /\ UNCHANGED <<p, st, sv, loc>>

(* The labels at the end of parse_uri: the message is of no use.             *)
error_exit == Refuse

At(S) == fn = "uri" /\ p < loc.end /\ st \in S
UriStep(nst, nloc) == Step(nst, sv, nloc) /\ UNCHANGED fn
(* The part that ends here, and the next one starts behind this byte.        *)
Here == Span(loc.s, p)
Past(l) == [l EXCEPT !.s = p + 1]
(* The number the digits of a port spell: an int, stored as a short.         *)
PortNo(s) ==
  LET no[k \in 0..s[2]] == IF k = 0 THEN 0 ELSE (no[k - 1] * 10 + DigitOf(Byte(s[1] + k - 1))) % ShortMod
  IN no[s[2]]

-----------------------------------------------------------------------------
(* User, password, host and port.                                            *)
UriInit ==
  /\ At({"URI_INIT"})
  /\ \/ Byte(p) = "[" /\ UriStep("URI_HOST6_P", [loc EXCEPT !.s = p])
     \/ Byte(p) \in {"]", ":", "@"} /\ error_exit
     \/ Byte(p) \notin {"[", "]", ":", "@"} /\ UriStep("URI_USER", loc)

WithUser(l) == Past([l EXCEPT !.uri.user = Here])
WithHost(l) == Past([l EXCEPT !.uri.host = Here])
Found(l) == [l EXCEPT !.found_user = TRUE]
AfterHost == (";" :> "URI_PARAM") @@ ("?" :> "URI_HEADERS")
UriUser ==
  /\ At({"URI_USER"})
  /\ \/ Byte(p) = "@" /\ UriStep("URI_HOST", Found(WithUser(loc)))
     \/ Byte(p) = ":" /\ UriStep("URI_PASSWORD", WithUser(loc))
     \/ Byte(p) \in DOMAIN AfterHost /\ UriStep(AfterHost[Byte(p)], WithHost(loc))
     \/ Byte(p) \in {"[", "]"} /\ error_exit
     \/ Byte(p) \notin {"@", ":", ";", "?", "[", "]"} /\ UriStep(st, loc)

(* What follows "user:" is a password, or a port when the user is a host.    *)
PortAt(l, s) == [l EXCEPT !.uri.port = s, !.uri.port_no = PortNo(s)]
UserIsHost(l) == [l EXCEPT !.uri.host = l.uri.user, !.uri.user = Null]
UriPassword ==
  /\ At({"URI_PASSWORD"})
  /\ \/ Byte(p) = "@" /\ UriStep("URI_HOST", Past(Found([loc EXCEPT !.uri.passwd = Here])))
     \/ Byte(p) \in DOMAIN AfterHost /\ UriStep(AfterHost[Byte(p)], Past(Found(UserIsHost(PortAt(loc, Here)))))
     \/ Byte(p) \in Digits /\ UriStep(st, loc)
     \/ Byte(p) \in {"[", "]", ":"} /\ error_exit
     \/ Byte(p) \notin Digits \cup {"@", ";", "?", "[", "]", ":"} /\ UriStep("URI_PASSWORD_ALPHA", loc)
UriPasswordAlpha ==
  /\ At({"URI_PASSWORD_ALPHA"})
  /\ \/ Byte(p) = "@" /\ UriStep("URI_HOST", Past(Found([loc EXCEPT !.uri.passwd = Here])))
     \/ Byte(p) \in {";", "?", "[", "]", ":"} /\ error_exit
     \/ Byte(p) \notin {"@", ";", "?", "[", "]", ":"} /\ UriStep(st, loc)

UriHost ==
  /\ At({"URI_HOST"})
  /\ \/ Byte(p) = "[" /\ UriStep("URI_HOST6_P", loc)
     \/ Byte(p) \in {":", ";", "?", "&", "@"} /\ error_exit
     \/ Byte(p) \notin {"[", ":", ";", "?", "&", "@"} /\ UriStep("URI_HOST_P", loc)
(* check_host_end *)
HostEnd == (":" :> "URI_PORT") @@ AfterHost
UriHostEnd ==
  /\ At({"URI_HOST_P", "URI_HOST6_END"})
  /\ \/ Byte(p) \in DOMAIN HostEnd /\ UriStep(HostEnd[Byte(p)], WithHost(loc))
     \/ (Byte(p) \in {"&", "@"} \/ (st = "URI_HOST6_END" /\ Byte(p) \notin DOMAIN HostEnd)) /\ error_exit
     \/ st = "URI_HOST_P" /\ Byte(p) \notin DOMAIN HostEnd \cup {"&", "@"} /\ UriStep(st, loc)
UriHost6 ==
  /\ At({"URI_HOST6_P"})
  /\ \/ Byte(p) = "]" /\ UriStep("URI_HOST6_END", loc)
     \/ Byte(p) \in {"[", "&", "@", ";", "?"} /\ error_exit
     \/ Byte(p) \notin {"]", "[", "&", "@", ";", "?"} /\ UriStep(st, loc)
UriPort ==
  /\ At({"URI_PORT"})
  /\ \/ Byte(p) \in DOMAIN AfterHost /\ UriStep(AfterHost[Byte(p)], Past(PortAt(loc, Here)))
     \/ Byte(p) \in Digits /\ UriStep(st, loc)
     \/ Byte(p) \notin Digits \cup DOMAIN AfterHost /\ error_exit

-----------------------------------------------------------------------------
(* The names of the parameters the parser knows, letter by letter.           *)
Transport == {<<"PT_T", "r", "PT_R">>, <<"PT_R", "a", "PT_A">>, <<"PT_A", "n", "PT_N">>,
              <<"PT_N", "s", "PT_S">>, <<"PT_S", "p", "PT_P">>, <<"PT_P", "o", "PT_O">>,
              <<"PT_O", "r", "PT_R2">>, <<"PT_R2", "t", "PT_T2">>, <<"PT_T2", "=", "PT_eq">>}
Ttl == {<<"PT_T", "t", "PTTL_T2">>, <<"PTTL_T2", "l", "PTTL_L">>, <<"PTTL_L", "=", "PTTL_eq">>}
User == {<<"PU_U", "s", "PU_S">>, <<"PU_S", "e", "PU_E">>, <<"PU_E", "r", "PU_R">>, <<"PU_R", "=", "PU_eq">>}
Method == {<<"PM_M", "e", "PM_E">>, <<"PM_E", "t", "PM_T">>, <<"PM_T", "h", "PM_H">>,
           <<"PM_H", "o", "PM_O">>, <<"PM_O", "d", "PM_D">>, <<"PM_D", "=", "PM_eq">>}
Maddr == {<<"PM_M", "a", "PMA_A">>, <<"PMA_A", "d", "PMA_D">>, <<"PMA_D", "d", "PMA_D2">>,
          <<"PMA_D2", "r", "PMA_R">>, <<"PMA_R", "=", "PMA_eq">>}
Lr == {<<"PLR_L", "r", "PLR_R_FIN">>, <<"PLR_R_FIN", "=", "PLR_eq">>}
R2 == {<<"PR2_R", "2", "PR2_2_FIN">>, <<"PR2_2_FIN", "=", "PR2_eq">>}
Gr == {<<"PG_G", "r", "PG_G_FIN">>, <<"PG_G_FIN", "=", "PG_eq">>}
Pn == {<<"PN_P", "n", "PN_N">>, <<"PN_N", "-", "PN_dash">>, <<"PN_dash", "p", "PN_P2">>,
       <<"PN_P2", "r", "PN_PR">>, <<"PN_P2", "a", "PN3_A">>, <<"PN_P2", "u", "PN4_U">>,
       <<"PN_PR", "o", "PN1_O">>, <<"PN_PR", "i", "PN2_I">>}
PnProvider == {<<"PN1_O", "v", "PN1_V">>, <<"PN1_V", "i", "PN1_I">>, <<"PN1_I", "d", "PN1_D">>,
               <<"PN1_D", "e", "PN1_E">>, <<"PN1_E", "r", "PN1_FIN">>, <<"PN1_FIN", "=", "PN1_eq">>}
PnPrid == {<<"PN2_I", "d", "PN2_D">>, <<"PN2_D", "=", "PN2_eq">>}
PnParam == {<<"PN3_A", "r", "PN3_R">>, <<"PN3_R", "a", "PN3_A2">>, <<"PN3_A2", "m", "PN3_M">>,
            <<"PN3_M", "=", "PN3_eq">>}
PnPurr == {<<"PN4_U", "r", "PN4_R">>, <<"PN4_R", "r", "PN4_R2">>, <<"PN4_R2", "=", "PN4_eq">>}
ParamNames == Transport \cup Ttl \cup User \cup Method \cup Maddr \cup Lr \cup R2 \cup Gr \cup Pn
              \cup PnProvider \cup PnPrid \cup PnParam \cup PnPurr
FirstLetter == [t |-> "PT_T", u |-> "PU_U", m |-> "PM_M", l |-> "PLR_L", g |-> "PG_G",
                r |-> "PR2_R", p |-> "PN_P"]

(* The values of transport.                                                  *)
TransportValues ==
  {<<"VU_U", "d", "VU_D">>, <<"VU_D", "p", "VU_P_FIN">>, <<"VT_T", "c", "VT_C">>,
   <<"VT_C", "p", "VT_P_FIN">>, <<"VT_T", "l", "VTLS_L">>, <<"VTLS_L", "s", "VTLS_S_FIN">>,
   <<"VS_S", "c", "VS_C">>, <<"VS_C", "t", "VS_T">>, <<"VS_T", "p", "VS_P_FIN">>,
   <<"VW_W", "s", "VW_S">>, <<"VW_S", "s", "VWS_S_FIN">>}
FirstOfValue == [u |-> "VU_U", t |-> "VT_T", s |-> "VS_S", w |-> "VW_W"]
ProtoOfValue == [VU_P_FIN |-> "PROTO_UDP", VT_P_FIN |-> "PROTO_TCP", VTLS_S_FIN |-> "PROTO_TLS",
                 VS_P_FIN |-> "PROTO_SCTP", VW_S |-> "PROTO_WS", VWS_S_FIN |-> "PROTO_WSS"]

(* The states behind a name that may stand alone, behind the "=" of a known  *)
(* name, and the field of each.                                              *)
FinField == [PLR_R_FIN |-> "lr", PR2_2_FIN |-> "r2", PG_G_FIN |-> "gr", PN1_FIN |-> "pn_provider"]
EqField == [PT_eq |-> "transport", PTTL_eq |-> "ttl", PU_eq |-> "user_param", PM_eq |-> "method",
            PMA_eq |-> "maddr", PLR_eq |-> "lr", PR2_eq |-> "r2", PG_eq |-> "gr",
            PN1_eq |-> "pn_provider", PN2_eq |-> "pn_prid", PN3_eq |-> "pn_param", PN4_eq |-> "pn_purr"]
(* Here only "=" may follow; here a parameter that ends is not remembered.   *)
NeedsValue == {"PN2_D", "PN3_M", "PN4_R2"}
Forgotten == {"PT_T2", "PTTL_L", "PU_R", "PM_D", "PMA_R", "PR2_R", "PN_N", "URI_PARAM"} \cup DOMAIN EqField
NameStates == {t[1] : t \in ParamNames}
UnknownStates == {"URI_PARAM_P", "URI_PARAM_VAL_P"}
                 \cup (NameStates \ (Forgotten \cup DOMAIN FinField \cup NeedsValue))
ValueStates == {"URI_VAL_P"} \cup {t[1] : t \in TransportValues} \cup DOMAIN ProtoOfValue
ParamStates == (UnknownStates \cup Forgotten \cup DOMAIN FinField \cup ValueStates) \ NeedsValue

(* param_set, u_param_set: what is remembered of the parameter that ends     *)
(* here.  A value is one of this name only if it starts behind it.           *)
param_set(u) ==
  [u EXCEPT !.param[loc.param] = Span(loc.b, p), !.val[loc.param] = Span(loc.v, p),
            !.proto = IF st \in DOMAIN ProtoOfValue THEN ProtoOfValue[st] ELSE @]
u_param_set(u) ==
  LET entry == IF loc.v > loc.b
               THEN <<Span(loc.b, loc.v - 1), IF p > loc.v THEN Span(loc.v, p) ELSE Null>>
               ELSE <<Span(loc.b, p), Null>>
  IN [u EXCEPT !.u_params = IF Len(@) < URI_MAX_U_PARAMS THEN Append(@, entry) ELSE @]
Remembered(u) ==
  CASE st \in UnknownStates -> u_param_set(u)
    [] st \in DOMAIN FinField -> [u EXCEPT !.param[FinField[st]] = Span(loc.b, p)]
    [] st \in ValueStates -> param_set(u)
    [] OTHER -> u

(* still_at_user: all that was read is the user, and perhaps a password.     *)
\* Mutant: the fields of what was taken for the host are not reset.
StillAtUser_Keeps ==
  \/ /\ ~loc.found_user
     /\ LET user == Span(loc.uri.host[1], IF loc.pass # 0 THEN loc.pass ELSE p)
            passwd == IF loc.pass # 0 THEN Span(loc.pass + 1, p) ELSE Null
        IN UriStep("URI_HOST", [Past(Found(loc)) EXCEPT !.uri.user = user, !.uri.passwd = passwd,
                                                        !.error_headers = FALSE])
  \/ loc.found_user /\ error_exit
StillAtUser ==
  \/ /\ ~loc.found_user
     /\ LET user == Span(loc.uri.host[1], IF loc.pass # 0 THEN loc.pass ELSE p)
            passwd == IF loc.pass # 0 THEN Span(loc.pass + 1, p) ELSE Null
            uri == [NoUri EXCEPT !.type = loc.uri.type, !.user = user, !.passwd = passwd]
        IN UriStep("URI_HOST", [Past(Found(loc)) EXCEPT !.uri = uri, !.error_headers = FALSE])
  \/ loc.found_user /\ error_exit
(* A second colon, a semicolon or a question mark: there was no password,    *)
(* and so no user.                                                           *)
NoPass(l) == IF l.pass # 0 THEN [l EXCEPT !.found_user = TRUE, !.pass = 0] ELSE l
MaybePass(l) == IF l.found_user THEN l ELSE IF l.pass # 0 THEN NoPass(l) ELSE [l EXCEPT !.pass = p]

(* The locals once the switch has been entered: behind "=" the fields of the *)
(* parameter are chosen.                                                     *)
Entered ==
  IF st \in DOMAIN EqField
  THEN [loc EXCEPT !.param = EqField[st], !.uri.proto = IF st = "PT_eq" THEN "PROTO_OTHER" ELSE @]
  ELSE loc
Ended == [Entered EXCEPT !.uri = Remembered(Entered.uri)]
UriParamEnd ==
  /\ At(ParamStates)
  /\ \/ Byte(p) = "@" /\ StillAtUser
     \/ Byte(p) = ";" /\ UriStep("URI_PARAM", NoPass(Ended))
     \/ Byte(p) = "?" /\ UriStep("URI_HEADERS", NoPass(Past([Ended EXCEPT !.uri.params = Here])))
     \/ /\ Byte(p) = ":"
        /\ UriStep(IF st \in ValueStates THEN "URI_VAL_P" ELSE "URI_PARAM_P", MaybePass(Entered))

Follows(table) == {t[3] : t \in {u \in table : u[1] = st /\ u[2] = LowerOf(Byte(p))}}
Lead(first, other) == IF LowerOf(Byte(p)) \in DOMAIN first THEN first[LowerOf(Byte(p))] ELSE other
UriName ==
  /\ At(ParamStates \ (ValueStates \cup DOMAIN EqField)) /\ Byte(p) \notin {"@", ";", "?", ":"}
  /\ \/ \E s \in Follows(ParamNames) : UriStep(s, loc)
     \/ st = "URI_PARAM" /\ UriStep(Lead(FirstLetter, "URI_PARAM_P"), [loc EXCEPT !.b = p])
     \/ st = "URI_PARAM_P" /\ Byte(p) = "=" /\ UriStep("URI_PARAM_VAL_P", [loc EXCEPT !.v = p + 1])
     \/ st = "URI_PARAM_VAL_P" /\ UriStep(st, loc)
     \/ /\ st \notin {"URI_PARAM", "URI_PARAM_VAL_P"} /\ Follows(ParamNames) = {}
        /\ ~(st = "URI_PARAM_P" /\ Byte(p) = "=")
        /\ UriStep("URI_PARAM_P", loc)
UriNeedsValue ==
  /\ At(NeedsValue)
  /\ \/ \E s \in Follows(ParamNames) : UriStep(s, loc)
     \/ Follows(ParamNames) = {} /\ error_exit
UriValue ==
  /\ At(ValueStates \cup DOMAIN EqField) /\ Byte(p) \notin {"@", ";", "?", ":"}
  /\ \/ st = "PT_eq" /\ UriStep(Lead(FirstOfValue, "URI_VAL_P"), [Entered EXCEPT !.v = p])
     \/ st \in DOMAIN EqField \ {"PT_eq"} /\ UriStep("URI_VAL_P", [Entered EXCEPT !.v = p])
     \/ \E s \in Follows(TransportValues) : UriStep(s, loc)
     \/ st \in ValueStates /\ Follows(TransportValues) = {} /\ UriStep("URI_VAL_P", loc)

UriHeaders ==
  /\ At({"URI_HEADERS"})
  /\ \/ Byte(p) = "@" /\ StillAtUser
     \/ Byte(p) = ";" /\ (loc.found_user \/ loc.pass # 0) /\ error_exit
     \/ Byte(p) = ";" /\ ~loc.found_user /\ loc.pass = 0 /\ UriStep(st, [loc EXCEPT !.error_headers = TRUE])
     \/ Byte(p) = ":" /\ UriStep(st, MaybePass(loc))
     \/ Byte(p) = "?" /\ UriStep(st, NoPass(loc))
     \/ Byte(p) \notin {"@", ";", ":", "?"} /\ UriStep(st, loc)

-----------------------------------------------------------------------------
(* The end of the URI.  The states of "maddr" are missing in the switch.     *)
MaddrStates == {t[3] : t \in Maddr}
EndRefused ==
  {"URI_INIT", "URI_PASSWORD_ALPHA", "URI_HOST", "URI_HOST6_P"} \cup MaddrStates \cup NeedsValue
  \cup {"PN2_eq", "PN3_eq", "PN4_eq"}
EndField == FinField @@ [s \in {"PLR_eq", "PR2_eq", "PG_eq", "PN1_eq"} |-> EqField[s]]
EndUri ==
  LET u == loc.uri
      q == [u EXCEPT !.params = Here]
  IN CASE st \in {"URI_USER", "URI_HOST_P", "URI_HOST6_END"} -> [u EXCEPT !.host = Here]
       [] st = "URI_PASSWORD" -> UserIsHost(PortAt(loc, Here)).uri
       [] st = "URI_PORT" -> PortAt(loc, Here).uri
       [] st = "URI_HEADERS" -> [u EXCEPT !.headers = Here]
       [] st \in {"URI_PARAM", "URI_PARAM_P", "URI_PARAM_VAL_P"} -> u_param_set(q)
       [] st \in DOMAIN EndField -> [q EXCEPT !.param[EndField[st]] = Span(loc.b, p)]
       [] st \in ValueStates -> param_set(q)
       [] OTHER -> q
(* The number of a tel URI is its user; a nena service has neither.          *)
TypeFixed(u) ==
  CASE u.type = "TEL_URI_T" -> [u EXCEPT !.user = u.host, !.host = Null]
    [] u.type = "URN_NENA_SERVICE_URI_T" -> [u EXCEPT !.user = Null, !.host = Null]
    [] OTHER -> u
UriEnd ==
  /\ fn = "uri" /\ p >= loc.end
  /\ LET bad == st \in EndRefused \/ (st = "URI_HEADERS" /\ loc.error_headers) IN
     \/ bad /\ error_exit
     \/ /\ ~bad /\ fn' = "accepted"
        /\ msg' = [msg EXCEPT !.parsed_uri = TypeFixed(EndUri)]
        /\ UNCHANGED <<datagram, p, st, sv, loc, hdr>>

parse_uri ==
  \/ UriInit \/ UriUser \/ UriPassword \/ UriPasswordAlpha \/ UriHost \/ UriHostEnd \/ UriHost6
  \/ UriPort \/ UriParamEnd \/ UriName \/ UriNeedsValue \/ UriValue \/ UriHeaders \/ UriEnd
=============================================================================
