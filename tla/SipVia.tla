-------------------------------- MODULE SipVia --------------------------------
(* parse_via.c: the Via header.  The parser is an automaton that runs in     *)
(* three loops: the protocol ("SIP/2.0/UDP"), the rest of the body, and the  *)
(* name and value of a parameter (parse_via_param).  A state is named as in  *)
(* the code; each table below is the switch over the states under one or     *)
(* more `case '<byte>'` labels, and a state it does not list is an error.    *)
EXTENDS SipScanner, TLC

Folding == {"F_LF", "F_CR", "F_CRLF"}

(* The states of the name "alias" have the numbers of the first final states *)
(* (ALIAS1 = FIN_HIDDEN = 230 and so on): they are the same states.          *)
ALIAS1 == "FIN_HIDDEN"
ALIAS2 == "FIN_TTL"
ALIAS3 == "FIN_BRANCH"
ALIAS4 == "FIN_MADDR"

Shortcuts == {"FIN_BRANCH", "FIN_RECEIVED", "FIN_RPORT", "FIN_I", "FIN_ALIAS", "FIN_MADDR"}
NoVia ==
  [proto |-> "", transport |-> Null, host |-> Null, port_str |-> Null, port |-> 0,
   params |-> Null, comment |-> Null, param_lst |-> <<>>, short |-> [k \in Shortcuts |-> 0]]
NoParam(start) ==
  [type |-> "PARAM_ERROR", name |-> Null, value |-> Null, start |-> start, size |-> 0]

(* The body being read is the last of the header's list.                     *)
Vb == loc.vbs[Len(loc.vbs)]
WithVb(v) == [loc EXCEPT !.vbs[Len(loc.vbs)] = v]
WithPrm(q) == [loc EXCEPT !.prm = q]

(* parse_again: the start of a body.                                         *)
StartVia(bodies) ==
  /\ fn' = "via_first" /\ st' = "F_SIP" /\ sv' = ""
  /\ loc' = [vbs |-> Append(bodies, NoVia), prm |-> NoParam(0), start |-> 0, nest |-> 0]

-----------------------------------------------------------------------------
(* The protocol.  A word is spelt letter by letter; a transport that leaves  *)
(* the known words goes on as another protocol, but only the bytes without a *)
(* case of their own may start one.                                          *)
SpellSIP == {<<"F_SIP", "s", "SIP1">>, <<"TLS2", "s", "FIN_TLS">>, <<"F_PROTO", "s", "SCTP1">>,
             <<"WS1", "s", "WS_WSS">>, <<"WS_WSS", "s", "FIN_WSS">>,
             <<"SIP1", "i", "SIP2">>, <<"SIP2", "p", "FIN_SIP">>,
             <<"UDP2", "p", "FIN_UDP">>, <<"TCP2", "p", "FIN_TCP">>, <<"SCTP3", "p", "FIN_SCTP">>}
SpellUDTC == {<<"F_PROTO", "u", "UDP1">>, <<"UDP1", "d", "UDP2">>, <<"F_PROTO", "t", "TCP_TLS1">>,
              <<"SCTP2", "t", "SCTP3">>, <<"TCP_TLS1", "c", "TCP2">>, <<"SCTP1", "c", "SCTP2">>}
SpellLW == {<<"TCP_TLS1", "l", "TLS2">>, <<"F_PROTO", "w", "WS1">>}
SpellVersion == {<<"F_VER", "2", "VER1">>, <<"VER1", ".", "VER2">>, <<"VER2", "0", "FIN_VER">>}
Spelling == SpellSIP \cup SpellUDTC \cup SpellLW \cup SpellVersion
SpeltBytes == {t[2] : t \in Spelling}

ProtoStates == {"UDP1", "UDP2", "FIN_UDP", "TCP_TLS1", "TCP2", "FIN_TCP", "TLS2", "FIN_TLS",
                "SCTP1", "SCTP2", "SCTP3", "FIN_SCTP", "WS1", "WS_WSS", "FIN_WS", "FIN_WSS",
                "OTHER_PROTO"}
(* The states a byte of a word leads to: one, or none.                       *)
SpellStep(c) ==
  LET known == {t[3] : t \in {u \in Spelling : u[1] = st /\ u[2] = LowerOf(c)}} IN
  IF known # {} THEN known
  ELSE IF st \in ProtoStates \/ (st = "F_PROTO" /\ LowerOf(c) \notin SpeltBytes)
       THEN {"OTHER_PROTO"} ELSE {}

(* The transport a finished word stands for when a blank follows.            *)
ProtoOf == [FIN_UDP |-> "udp", FIN_TCP |-> "tcp", FIN_TLS |-> "tls", FIN_SCTP |-> "sctp",
            FIN_WS |-> "ws", WS_WSS |-> "ws", FIN_WSS |-> "wss", OTHER_PROTO |-> "other"]
(* Before a line end SCTP is not accepted, and before a line feed WSS is     *)
(* taken for WS.                                                             *)
ProtoBeforeCR == [s \in DOMAIN ProtoOf \ {"FIN_SCTP"} |-> ProtoOf[s]]
ProtoBeforeLF == [ProtoBeforeCR EXCEPT !.FIN_WSS = "ws"]
Waiting == {"L_VER", "F_SIP", "F_VER", "F_PROTO", "L_PROTO"}
AfterWord == [FIN_SIP |-> "L_VER", FIN_VER |-> "L_PROTO"]

(* main_via: the protocol is known, look for the host from the next byte on. *)
ProtoFound(table, nst, nsv) ==
  /\ st \in DOMAIN table
  /\ fn' = "via_main"
  /\ Step(nst, nsv, WithVb([Vb EXCEPT !.transport = Span(Vb.transport[1], p), !.proto = table[st]]))

ViaFirstBlank ==
  /\ fn = "via_first" /\ p < End /\ Byte(p) \in SP
  /\ \/ st \in Waiting /\ Step(st, sv, loc) /\ UNCHANGED fn
     \/ ProtoFound(ProtoOf, "F_HOST", sv)
     \/ st \in DOMAIN AfterWord /\ Step(AfterWord[st], sv, loc) /\ UNCHANGED fn
     \/ st \in Folding /\ Step(sv, sv, loc) /\ UNCHANGED fn
     \/ st \notin Waiting \cup DOMAIN ProtoOf \cup DOMAIN AfterWord \cup Folding /\ Refuse

(* A line may be folded before and after every word.  A second line end, or  *)
(* a line that does not start with a blank, ends the header too early.       *)
ViaFirstLF ==
  /\ fn = "via_first" /\ p < End /\ Byte(p) = "\n"
  /\ \/ st \in Waiting /\ Step("F_LF", st, loc) /\ UNCHANGED fn
     \/ ProtoFound(ProtoBeforeLF, "F_LF", "F_HOST")
     \/ st \in DOMAIN AfterWord /\ Step("F_LF", AfterWord[st], loc) /\ UNCHANGED fn
     \/ st = "F_CR" /\ Step("F_CRLF", sv, loc) /\ UNCHANGED fn
     \/ st \notin Waiting \cup DOMAIN ProtoBeforeLF \cup DOMAIN AfterWord \cup {"F_CR"} /\ Refuse

ViaFirstCR ==
  /\ fn = "via_first" /\ p < End /\ Byte(p) = "\r"
  /\ \/ st \in Waiting /\ Step("F_CR", st, loc) /\ UNCHANGED fn
     \/ ProtoFound(ProtoBeforeCR, "F_CR", "F_HOST")
     \/ st \in DOMAIN AfterWord /\ Step("F_CR", AfterWord[st], loc) /\ UNCHANGED fn
     \/ st \notin Waiting \cup DOMAIN ProtoBeforeCR \cup DOMAIN AfterWord /\ Refuse

AfterSlash == [FIN_SIP |-> "F_VER", L_VER |-> "F_VER", FIN_VER |-> "F_PROTO", L_PROTO |-> "F_PROTO"]
ViaFirstSlash ==
  /\ fn = "via_first" /\ p < End /\ Byte(p) = "/"
  /\ \/ st \in DOMAIN AfterSlash /\ Step(AfterSlash[st], sv, loc) /\ UNCHANGED fn
     \/ st \notin DOMAIN AfterSlash /\ Refuse

ViaFirstWord ==
  /\ fn = "via_first" /\ p < End /\ Byte(p) \notin SP \cup EOL \cup {"/"}
  /\ \/ \E s \in SpellStep(Byte(p)) :
          /\ Step(s, sv, IF st = "F_PROTO" THEN WithVb([Vb EXCEPT !.transport = Span(p, p)]) ELSE loc)
          /\ UNCHANGED fn
     \/ SpellStep(Byte(p)) = {} /\ Refuse

(* The datagram ends within the protocol.                                    *)
ViaFirstEnd == fn = "via_first" /\ p >= End /\ Refuse

-----------------------------------------------------------------------------
(* main_via: host, port, comment and next body.  This loop runs to a NUL.    *)
MainBlank ==
  [F_HOST |-> "F_HOST", P_HOST |-> "L_PORT", L_PORT |-> "L_PORT", F_PORT |-> "F_PORT",
   P_PORT |-> "L_PARAM", L_PARAM |-> "L_PARAM", F_PARAM |-> "F_PARAM", P_PARAM |-> "L_PARAM",
   L_VIA |-> "L_VIA", F_VIA |-> "F_VIA", F_COMMENT |-> "F_COMMENT", P_COMMENT |-> "P_COMMENT"]
(* The state to go on in when the line is continued.                         *)
MainFold == [F_IP6HOST |-> "F_IP6HOST", P_IP6HOST |-> "P_IP6HOST"] @@ MainBlank
MainColon ==
  [F_HOST |-> "P_IP6HOST", F_IP6HOST |-> "P_IP6HOST", P_IP6HOST |-> "P_IP6HOST",
   P_HOST |-> "F_PORT", L_PORT |-> "F_PORT", F_COMMENT |-> "P_COMMENT", P_COMMENT |-> "P_COMMENT"]
MainSemicolon ==
  [P_HOST |-> "F_PARAM", P_PORT |-> "F_PARAM", L_PORT |-> "F_PARAM", L_PARAM |-> "F_PARAM",
   P_PARAM |-> "F_PARAM", F_COMMENT |-> "P_COMMENT", P_COMMENT |-> "P_COMMENT"]
MainComma ==
  [P_HOST |-> "F_VIA", P_PORT |-> "F_VIA", L_PORT |-> "F_VIA", L_PARAM |-> "F_VIA",
   P_PARAM |-> "F_VIA", L_VIA |-> "F_VIA", F_VIA |-> "F_VIA",
   F_COMMENT |-> "P_COMMENT", P_COMMENT |-> "P_COMMENT"]
MainOpen ==
  [P_HOST |-> "F_COMMENT", P_PORT |-> "F_COMMENT", P_PARAM |-> "F_COMMENT", L_PORT |-> "F_COMMENT",
   L_PARAM |-> "F_COMMENT", L_VIA |-> "F_COMMENT", P_COMMENT |-> "P_COMMENT", F_COMMENT |-> "F_COMMENT"]
(* The closing parenthesis of the outermost comment ends it.                 *)
MainClose ==
  IF loc.nest = 1 THEN [F_COMMENT |-> "L_VIA", P_COMMENT |-> "L_VIA"]
  ELSE [F_COMMENT |-> "F_COMMENT", P_COMMENT |-> "P_COMMENT"]
MainOpen6 == [F_HOST |-> "F_IP6HOST", F_COMMENT |-> "P_COMMENT", P_COMMENT |-> "P_COMMENT"]
MainClose6 == [P_IP6HOST |-> "L_PORT", F_COMMENT |-> "P_COMMENT", P_COMMENT |-> "P_COMMENT"]
(* Any other byte; F_PARAM and F_VIA have actions of their own.              *)
HostBytes == Letters \cup Digits \cup {"-", "."}
Ip6Bytes == Digits \cup CharsOf("abcdefABCDEF") \cup {":"}
MainOther(c) ==
  (IF c \in HostBytes THEN [F_HOST |-> "P_HOST", P_HOST |-> "P_HOST"] ELSE <<>>)
  @@ (IF c \in Digits THEN [F_PORT |-> "P_PORT", P_PORT |-> "P_PORT"] ELSE <<>>)
  @@ (IF c \in Ip6Bytes THEN [F_IP6HOST |-> "P_IP6HOST", P_IP6HOST |-> "P_IP6HOST"] ELSE <<>>)
  @@ [P_PARAM |-> "P_PARAM", F_COMMENT |-> "P_COMMENT", P_COMMENT |-> "P_COMMENT"]

(* What the byte at p means for the fields when the automaton goes from st   *)
(* to next: where the host, port and comment start and end.                  *)
Marked(c, next) ==
  LET v == Vb IN
  [v EXCEPT
    !.host = IF st = "F_HOST" /\ next \in {"P_HOST", "F_IP6HOST"} THEN Span(p, p)
             ELSE IF st = "P_HOST" /\ next # "P_HOST" THEN Span(@[1], p)
             ELSE IF c = "]" /\ st = "P_IP6HOST" THEN Span(@[1], p + 1) ELSE @,
    !.port_str = IF st = "F_PORT" /\ next = "P_PORT" THEN Span(p, p)
                 ELSE IF st = "P_PORT" /\ next # "P_PORT" THEN Span(@[1], p) ELSE @,
    !.params = IF c = "(" /\ st \in {"P_PARAM", "L_PORT", "L_PARAM", "L_VIA"} THEN Span(@[1], p) ELSE @,
    !.comment = IF st = "F_COMMENT" /\ next = "P_COMMENT" THEN Span(p, p)
                ELSE IF next = "L_VIA" /\ c = ")" THEN Span(@[1], p) ELSE @]
MainStep(c, next, nsv) ==
  /\ Step(IF c \in EOL THEN (IF c = "\n" THEN "F_LF" ELSE "F_CR") ELSE next, nsv,
          [WithVb(Marked(c, next)) EXCEPT
             !.start = IF next = "F_PARAM" /\ c = ";" THEN p + 1 ELSE @,
             !.nest = IF c = "(" THEN @ + 1 ELSE IF c = ")" THEN @ - 1 ELSE @])
  /\ UNCHANGED fn
(* endofheader: p is at the first byte of the next line.                     *)
MainEnd == fn' = "via_end" /\ st' = sv /\ UNCHANGED <<datagram, p, sv, loc, hdr, msg>>
Follow(c, table) ==
  \/ st \in DOMAIN table /\ MainStep(c, table[st], sv)
  \/ st \in Folding /\ MainEnd
  \/ st \notin DOMAIN table \cup Folding /\ Refuse

ViaBlank ==
  /\ fn = "via_main" /\ Byte(p) \in SP
  /\ \/ st \in DOMAIN MainBlank /\ MainStep(Byte(p), MainBlank[st], sv)
     \/ st \in Folding /\ Step(sv, sv, loc) /\ UNCHANGED fn
     \/ st \notin DOMAIN MainBlank \cup Folding /\ Refuse
ViaLF ==
  /\ fn = "via_main" /\ Byte(p) = "\n"
  /\ \/ st \in DOMAIN MainFold /\ MainStep("\n", MainFold[st], MainFold[st])
     \/ st = "F_CR" /\ Step("F_CRLF", sv, loc) /\ UNCHANGED fn
     \/ st \in {"F_LF", "F_CRLF"} /\ MainEnd
\* Mutant: a carriage return behind a line end is one more line end.
ViaCR_Continues ==
  /\ fn = "via_main" /\ Byte(p) = "\r"
  /\ \/ st \in DOMAIN MainFold /\ MainStep("\r", MainFold[st], MainFold[st])
     \/ st \in Folding /\ Step("F_CR", sv, loc) /\ UNCHANGED fn
ViaCR ==
  /\ fn = "via_main" /\ Byte(p) = "\r"
  /\ \/ st \in DOMAIN MainFold /\ MainStep("\r", MainFold[st], MainFold[st])
     \/ st \in Folding /\ MainEnd
ViaPunctuation ==
  /\ fn = "via_main"
  /\ \/ Byte(p) = ":" /\ Follow(":", MainColon)
     \/ Byte(p) = ";" /\ Follow(";", MainSemicolon)
     \/ Byte(p) = "," /\ Follow(",", MainComma)
     \/ Byte(p) = "(" /\ Follow("(", MainOpen)
     \/ Byte(p) = ")" /\ Follow(")", MainClose)
     \/ Byte(p) = "[" /\ Follow("[", MainOpen6)
     \/ Byte(p) = "]" /\ Follow("]", MainClose6)
Punctuation == {":", ";", ",", "(", ")", "[", "]"}
ViaOther ==
  /\ fn = "via_main" /\ Byte(p) \notin SP \cup EOL \cup Punctuation \cup {NUL}
  /\ st \notin {"F_PARAM", "F_VIA"}
  /\ Follow(Byte(p), MainOther(Byte(p)))

(* F_PARAM: call parse_via_param at the first byte of the parameter.         *)
ViaParam ==
  /\ fn = "via_main" /\ st = "F_PARAM" /\ Byte(p) \notin SP \cup EOL \cup Punctuation \cup {NUL}
  /\ fn' = "via_name"
  /\ LET v == [Vb EXCEPT !.params = IF @[1] = 0 THEN <<loc.start, 0>> ELSE @]
     IN loc' = [WithVb(v) EXCEPT !.prm = NoParam(loc.start)]
  /\ UNCHANGED <<datagram, p, st, sv, hdr, msg>>

(* The end of a body: the port is converted, the states in which a body may  *)
(* end are checked.                                                          *)
EndStates == {"P_HOST", "L_PORT", "P_PORT", "L_PARAM", "P_PARAM", "P_VALUE", "GEN_PARAM",
              "FIN_HIDDEN", "L_VIA"}
PortRead == IF Vb.port_str[1] = 0 THEN [err |-> FALSE, val |-> 0] ELSE str2s(Vb.port_str)
Closed == [Vb EXCEPT !.port = PortRead.val]
ViaNext ==
  /\ fn = "via_main" /\ st = "F_VIA" /\ Byte(p) \notin SP \cup EOL \cup Punctuation \cup {NUL}
  /\ \/ /\ ~PortRead.err
        /\ StartVia(WithVb(Closed).vbs)
        /\ UNCHANGED <<datagram, p, hdr, msg>>
     \/ PortRead.err /\ Refuse
(* endofpacket: a NUL.                                                       *)
ViaPacketEnd ==
  /\ fn = "via_main" /\ Byte(p) = NUL
  /\ fn' = "via_end" /\ UNCHANGED <<datagram, p, st, sv, loc, hdr, msg>>
ViaEnd ==
  /\ fn = "via_end"
  /\ \/ /\ st \in EndStates /\ ~PortRead.err
        /\ fn' = "hdr_end" /\ loc' = WithVb(Closed) /\ UNCHANGED <<datagram, p, st, sv, hdr, msg>>
     \/ ~(st \in EndStates /\ ~PortRead.err) /\ Refuse

-----------------------------------------------------------------------------
(* parse_via_param.  It is called at a byte that starts a name, so that it   *)
(* never meets a blank or a line end before one.                             *)
NamesHIDEN == {<<"F_PARAM", "h", "HIDDEN1">>, <<"BRANCH5", "h", "FIN_BRANCH">>,
               <<"F_PARAM", "i", "FIN_I">>, <<"HIDDEN1", "i", "HIDDEN2">>,
               <<"RECEIVED4", "i", "RECEIVED5">>, <<ALIAS2, "i", ALIAS3>>,
               <<"HIDDEN2", "d", "HIDDEN3">>, <<"HIDDEN3", "d", "HIDDEN4">>,
               <<"MADDR2", "d", "MADDR3">>, <<"MADDR3", "d", "MADDR4">>,
               <<"RECEIVED7", "d", "FIN_RECEIVED">>, <<"HIDDEN4", "e", "HIDDEN5">>,
               <<"RECEIVED1", "e", "RECEIVED2">>, <<"RECEIVED3", "e", "RECEIVED4">>,
               <<"RECEIVED6", "e", "RECEIVED7">>, <<"HIDDEN5", "n", "FIN_HIDDEN">>,
               <<"BRANCH3", "n", "BRANCH4">>}
NamesTLMAR == {<<"F_PARAM", "t", "TTL1">>, <<"TTL1", "t", "TTL2">>, <<"RPORT3", "t", "FIN_RPORT">>,
               <<"TTL2", "l", "FIN_TTL">>, <<ALIAS1, "l", ALIAS2>>, <<"F_PARAM", "m", "MADDR1">>,
               <<"F_PARAM", "a", ALIAS1>>, <<"MADDR1", "a", "MADDR2">>, <<"BRANCH2", "a", "BRANCH3">>,
               <<ALIAS3, "a", ALIAS4>>, <<"MADDR4", "r", "FIN_MADDR">>, <<"F_PARAM", "r", "RECEIVED1">>,
               <<"BRANCH1", "r", "BRANCH2">>, <<"RPORT2", "r", "RPORT3">>}
NamesCVBPOS == {<<"RECEIVED2", "c", "RECEIVED3">>, <<"BRANCH4", "c", "BRANCH5">>,
                <<"RECEIVED5", "v", "RECEIVED6">>, <<"F_PARAM", "b", "BRANCH1">>,
                <<"RECEIVED1", "p", "RPORT1">>, <<"RPORT1", "o", "RPORT2">>, <<ALIAS4, "s", "FIN_ALIAS">>}
Names == NamesHIDEN \cup NamesTLMAR \cup NamesCVBPOS
NameStep(c) ==
  LET known == {t \in Names : t[1] = st /\ t[2] = LowerOf(c)}
  IN IF known = {} THEN "GEN_PARAM" ELSE (CHOOSE t \in known : TRUE)[3]

(* Parameters without a value, and those that must have one (rport need not).*)
Flags == {"FIN_HIDDEN", "FIN_ALIAS"}
Valued == {"FIN_BRANCH", "FIN_TTL", "FIN_MADDR", "FIN_RECEIVED", "FIN_RPORT", "FIN_I"}
Named == [loc.prm EXCEPT !.type = IF st \in Flags \cup Valued THEN st ELSE "GEN_PARAM",
                         !.name = Span(@[1], p)]
Sized(q) == [q EXCEPT !.size = p - q.start]
Valued0(q) == [q EXCEPT !.value = Span(@[1], p)]

(* The return to parse_via: the parameter joins the list, the shortcut of    *)
(* its type points to it; END_OF_HEADER ends the body at once.               *)
ParamReturn(nst, nsv, q) ==
  LET lst == Append(Vb.param_lst, q)
      v == [Vb EXCEPT
              !.param_lst = lst,
              !.params = Span(@[1], IF nst \in {"F_VIA", "END_OF_HEADER"} THEN q.start + q.size ELSE p),
              !.short = IF q.type \in Shortcuts THEN [@ EXCEPT ![q.type] = Len(lst)] ELSE @]
  IN /\ loc' = [WithVb(v) EXCEPT !.prm = q, !.start = IF nst = "F_PARAM" THEN p + 1 ELSE @]
     /\ IF nst = "END_OF_HEADER"
        THEN fn' = "via_end" /\ p' = p /\ st' = nsv
        ELSE fn' = "via_main" /\ p' = p + 1 /\ st' = nst
     /\ sv' = nsv /\ UNCHANGED <<datagram, hdr, msg>>
FindValue(nst, nsv, q) == fn' = "via_value" /\ Step(nst, nsv, WithPrm(q))
LineState == IF Byte(p) = "\n" THEN "F_LF" ELSE "F_CR"

NameBlank ==
  /\ fn = "via_name" /\ p < End /\ Byte(p) \in SP
  /\ \/ st \in Flags /\ ParamReturn("L_PARAM", sv, Sized(Named))
     \/ st \notin Flags /\ FindValue("L_VALUE", sv, Named)
NameLine ==
  /\ fn = "via_name" /\ p < End /\ Byte(p) \in EOL
  /\ \/ st \in Flags /\ ParamReturn(LineState, "L_PARAM", Sized(Named))
     \/ st \notin Flags /\ FindValue(LineState, "L_VALUE", Sized(Named))
NameEquals ==
  /\ fn = "via_name" /\ p < End /\ Byte(p) = "="
  /\ \/ st \notin Flags \cup {"F_PARAM"} /\ FindValue("F_VALUE", sv, Named)
     \/ st \in Flags \cup {"F_PARAM"} /\ Refuse
NameStop ==
  /\ fn = "via_name" /\ p < End /\ Byte(p) \in {";", ","}
  /\ \/ /\ st \notin Valued \ {"FIN_RPORT"}
        /\ ParamReturn(IF Byte(p) = ";" THEN "F_PARAM" ELSE "F_VIA", sv, Sized(Named))
     \/ st \in Valued \ {"FIN_RPORT"} /\ Refuse
NameLetter ==
  /\ fn = "via_name" /\ p < End /\ Byte(p) \notin SP \cup EOL \cup {"=", ";", ","}
  /\ Step(NameStep(Byte(p)), sv,
          IF st = "F_PARAM" THEN [loc EXCEPT !.prm.name = Span(p, p)] ELSE loc)
  /\ UNCHANGED fn
NameEnd == fn = "via_name" /\ p >= End /\ Refuse

(* The value.  Like main_via this loop runs to a NUL.  A body may end here   *)
(* without a value only for a parameter of no known type, or rport; a comma  *)
(* in a quoted string is taken for such an end.                              *)
EndVia ==
  \/ loc.prm.type \in {"GEN_PARAM", "FIN_RPORT"} /\ ParamReturn("END_OF_HEADER", "L_PARAM", loc.prm)
  \/ loc.prm.type \notin {"GEN_PARAM", "FIN_RPORT"} /\ Refuse
Stay == Step(st, sv, loc) /\ UNCHANGED fn
NoValue == st = "L_VALUE" /\ loc.prm.type = "FIN_RPORT"

ValueBlank ==
  /\ fn = "via_value" /\ Byte(p) \in SP
  /\ \/ st \in {"L_VALUE", "F_VALUE", "P_STRING"} /\ Stay
     \/ st = "P_VALUE" /\ ParamReturn("L_PARAM", sv, Sized(Valued0(loc.prm)))
     \/ st \in Folding /\ Step(sv, sv, loc) /\ UNCHANGED fn
ValueLine ==
  /\ fn = "via_value" /\ Byte(p) \in EOL
  /\ \/ st \in {"L_VALUE", "F_VALUE", "P_STRING"} /\ Step(LineState, st, WithPrm(Sized(loc.prm))) /\ UNCHANGED fn
     \/ st = "P_VALUE" /\ ParamReturn(LineState, "L_PARAM", Sized(Valued0(loc.prm)))
     \/ st = "F_CR" /\ Byte(p) = "\n" /\ Step("F_CRLF", sv, loc) /\ UNCHANGED fn
     \/ st \in Folding /\ ~(st = "F_CR" /\ Byte(p) = "\n") /\ EndVia
ValueEquals ==
  /\ fn = "via_value" /\ Byte(p) = "="
  /\ \/ st = "L_VALUE" /\ Step("F_VALUE", sv, loc) /\ UNCHANGED fn
     \/ st = "P_STRING" /\ Stay
     \/ st \in Folding /\ EndVia
     \/ st \in {"F_VALUE", "P_VALUE"} /\ Refuse
ValueSemicolon ==
  /\ fn = "via_value" /\ Byte(p) = ";"
  /\ \/ st = "P_VALUE" /\ ParamReturn("F_PARAM", sv, Sized(Valued0(loc.prm)))
     \/ (st = "F_VALUE" \/ NoValue) /\ ParamReturn("F_PARAM", sv, Sized(loc.prm))
     \/ st = "P_STRING" /\ Stay
     \/ st \in Folding /\ EndVia
     \/ st = "L_VALUE" /\ ~NoValue /\ Refuse
ValueComma ==
  /\ fn = "via_value" /\ Byte(p) = ","
  /\ \/ st = "P_VALUE" /\ ParamReturn("F_VIA", sv, Sized(Valued0(loc.prm)))
     \/ NoValue /\ ParamReturn("F_VIA", sv, Sized(loc.prm))
     \/ st \in Folding \cup {"P_STRING"} /\ EndVia
     \/ st \in {"F_VALUE", "L_VALUE"} /\ ~NoValue /\ Refuse
ValueQuote ==
  /\ fn = "via_value" /\ Byte(p) = "\""
  /\ \/ st = "F_VALUE" /\ Step("P_STRING", sv, [loc EXCEPT !.prm.value = Span(p + 1, p + 1)]) /\ UNCHANGED fn
     \/ st = "P_STRING" /\ ParamReturn("L_PARAM", sv, Sized(Valued0(loc.prm)))
     \/ st \in Folding /\ EndVia
     \/ st \in {"L_VALUE", "P_VALUE"} /\ Refuse
ValueByte ==
  /\ fn = "via_value" /\ Byte(p) \notin SP \cup EOL \cup {"=", ";", ",", "\"", NUL}
  /\ \/ st = "F_VALUE" /\ Step("P_VALUE", sv, [loc EXCEPT !.prm.value = Span(p, p)]) /\ UNCHANGED fn
     \/ st \in {"P_VALUE", "P_STRING"} /\ Stay
     \/ st \in Folding /\ EndVia
     \/ st = "L_VALUE" /\ Refuse
ValueEnd == fn = "via_value" /\ Byte(p) = NUL /\ Refuse

parse_via_param ==
  \/ NameBlank \/ NameLine \/ NameEquals \/ NameStop \/ NameLetter \/ NameEnd
  \/ ValueBlank \/ ValueLine \/ ValueEquals \/ ValueSemicolon \/ ValueComma \/ ValueQuote
  \/ ValueByte \/ ValueEnd
parse_via ==
  \/ ViaFirstBlank \/ ViaFirstLF \/ ViaFirstCR \/ ViaFirstSlash \/ ViaFirstWord \/ ViaFirstEnd
  \/ ViaBlank \/ ViaLF \/ ViaCR \/ ViaPunctuation \/ ViaOther
  \/ ViaParam \/ ViaNext \/ ViaPacketEnd \/ ViaEnd
  \/ parse_via_param
=============================================================================
