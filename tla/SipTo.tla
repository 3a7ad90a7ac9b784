--------------------------------- MODULE SipTo ---------------------------------
(* parse_to.c: the To header, a name-addr or a URI with parameters, read by  *)
(* parse_to (the header holds one part: multi is 0).  States and statuses    *)
(* have the code's names; a table is the switch under the `case` of a byte.  *)
EXTENDS SipVia

NoToParam == [type |-> "NONE", name |-> Null, value |-> Null]
NewToParam == [NoToParam EXCEPT !.type = "GENERAL_PARAM"]
StartTo ==
  /\ fn' = "to" /\ st' = "START_TO" /\ sv' = "START_TO"
  /\ loc' = [to |-> [uri |-> Null, display |-> Null, body |-> Null, tag |-> Null, param_lst |-> <<>>],
             prm |-> NoToParam, mark |-> 0]

Kept(S) == [s \in S |-> s]
ToBlankTable == [URI_ENCLOSED |-> "E_URI_ENCLOSED", URI_OR_TOKEN |-> "MAYBE_URI_END",
                 DISPLAY_TOKEN |-> "DISPLAY_TOKEN2"]
ToFold == [URI_OR_TOKEN |-> "MAYBE_URI_END"]
          @@ Kept({"MAYBE_URI_END", "DISPLAY_TOKEN", "DISPLAY_TOKEN2", "E_DISPLAY_QUOTED", "END"})
ToLess == [START_TO |-> "S_URI_ENCLOSED", E_DISPLAY_QUOTED |-> "S_URI_ENCLOSED",
           URI_OR_TOKEN |-> "S_URI_ENCLOSED", DISPLAY_TOKEN |-> "S_URI_ENCLOSED",
           DISPLAY_TOKEN2 |-> "S_URI_ENCLOSED", MAYBE_URI_END |-> "S_URI_ENCLOSED"]
          @@ Kept({"DISPLAY_QUOTED"})
ToGreater == [URI_ENCLOSED |-> "END", E_URI_ENCLOSED |-> "END"] @@ Kept({"DISPLAY_QUOTED"})
ToQuote == [START_TO |-> "DISPLAY_QUOTED", DISPLAY_QUOTED |-> "E_DISPLAY_QUOTED"]
ToSemicolon == [URI_OR_TOKEN |-> "PARAMS", MAYBE_URI_END |-> "PARAMS", END |-> "PARAMS"]
               @@ Kept({"DISPLAY_QUOTED", "DISPLAY_TOKEN", "URI_ENCLOSED"})
ToOtherTable == [START_TO |-> "URI_OR_TOKEN", S_URI_ENCLOSED |-> "URI_ENCLOSED",
                 MAYBE_URI_END |-> "DISPLAY_TOKEN", DISPLAY_TOKEN2 |-> "DISPLAY_TOKEN"]
                @@ Kept({"DISPLAY_QUOTED", "DISPLAY_TOKEN", "URI_ENCLOSED", "URI_OR_TOKEN"})

(* end_mark: where a token ended that may have been the URI or the name.     *)
ToMark(next) == IF st \in {"URI_OR_TOKEN", "DISPLAY_TOKEN"} /\ next # st THEN p ELSE loc.mark
(* Where the parts start and end when the automaton goes from st to next.    *)
ToMarked(c, next) ==
  [loc EXCEPT
    !.mark = ToMark(next),
    !.to.body = IF st = "START_TO" /\ next # st THEN Span(p, p)
                ELSE IF next = "PARAMS" THEN Span(@[1], p) ELSE @,
    !.to.uri = IF <<st, next>> \in {<<"START_TO", "URI_OR_TOKEN">>, <<"S_URI_ENCLOSED", "URI_ENCLOSED">>}
               THEN Span(p, p)
               ELSE IF st = "URI_ENCLOSED" /\ next # st THEN Span(@[1], p)
               ELSE IF next = "PARAMS" /\ st # "END" THEN Span(@[1], ToMark(next)) ELSE @,
    !.to.display = IF st = "START_TO" /\ next \in {"URI_OR_TOKEN", "DISPLAY_QUOTED"} THEN Span(p, p)
                   ELSE IF st = "DISPLAY_QUOTED" /\ next # st THEN Span(@[1], p + 1)
                   ELSE IF next = "S_URI_ENCLOSED" /\ st \notin {"START_TO", "E_DISPLAY_QUOTED"}
                        THEN Span(@[1], ToMark(next)) ELSE @]
ToStep(c, next, nst, nsv) == Step(nst, nsv, ToMarked(c, next)) /\ UNCHANGED fn
(* endofheader, at the first byte of the next line.                          *)
ToEndAt(status) == fn' = "to_end" /\ st' = status /\ UNCHANGED <<datagram, p, sv, loc, hdr, msg>>
ToFollow(c, table) ==
  \/ st \in DOMAIN table /\ ToStep(c, table[st], table[st], sv)
  \/ st \in Folding /\ ToEndAt(sv)
  \/ st \notin DOMAIN table \cup Folding /\ Refuse
To(c) == fn = "to" /\ p < End /\ Byte(p) = c

ToBlank ==
  /\ To(" ") \/ To("\t")
  /\ \/ st \in DOMAIN ToBlankTable /\ ToStep(" ", ToBlankTable[st], ToBlankTable[st], sv)
     \/ st \in Folding /\ ToStep(" ", st, sv, sv)
     \/ st \notin DOMAIN ToBlankTable \cup Folding /\ ToStep(" ", st, st, sv)
ToLine ==
  /\ To("\n") \/ To("\r")
  /\ \/ st \in DOMAIN ToFold /\ ToStep(Byte(p), ToFold[st], LineState, ToFold[st])
     \/ st = "F_CR" /\ To("\n") /\ ToStep("\n", st, "F_CRLF", sv)
     \/ st \in Folding /\ ~(st = "F_CR" /\ To("\n")) /\ ToEndAt(sv)
     \/ st \notin DOMAIN ToFold \cup Folding /\ Refuse
(* A comma belongs to a name or a URI, or the header has two parts.          *)
ToComma ==
  /\ To(",")
  /\ \/ st \in {"DISPLAY_QUOTED", "URI_ENCLOSED", "URI_OR_TOKEN"} /\ ToStep(",", st, st, sv)
     \/ st \notin {"DISPLAY_QUOTED", "URI_ENCLOSED", "URI_OR_TOKEN"} /\ Refuse
(* A backslash hides the next byte of a quoted name.                         *)
\* Mutant: the escaped byte is skipped, the backslash is not.
ToBackslash_Stays ==
  /\ To("\\")
  /\ \/ st = "DISPLAY_QUOTED" /\ UNCHANGED scan
     \/ st # "DISPLAY_QUOTED" /\ Refuse
ToBackslash ==
  /\ To("\\")
  /\ \/ st = "DISPLAY_QUOTED" /\ p' = p + 2 /\ UNCHANGED <<datagram, fn, st, sv, loc, hdr, msg>>
     \/ st # "DISPLAY_QUOTED" /\ Refuse
ToAngle ==
  \/ To("<") /\ ToFollow("<", ToLess)
  \/ To(">") /\ ToFollow(">", ToGreater)
ToQuoted == To("\"") /\ ToFollow("\"", ToQuote)
(* A semicolon behind the URI starts the parameters: parse_to_param is       *)
(* called at it.                                                             *)
ToParams ==
  /\ To(";")
  /\ \/ /\ st \in DOMAIN ToSemicolon /\ ToSemicolon[st] = "PARAMS"
        /\ fn' = "to_param" /\ st' = "E_PARA_VALUE" /\ sv' = "E_PARA_VALUE" /\ loc' = ToMarked(";", "PARAMS")
        /\ UNCHANGED <<datagram, p, hdr, msg>>
     \/ /\ ~(st \in DOMAIN ToSemicolon /\ ToSemicolon[st] = "PARAMS")
        /\ ToFollow(";", ToSemicolon)
ToOther ==
  /\ fn = "to" /\ p < End /\ Byte(p) \notin SP \cup EOL \cup {",", "\\", "<", ">", "\"", ";"}
  /\ ToFollow(Byte(p), ToOtherTable)
ToText == fn = "to" /\ p >= End /\ ToEndAt(sv)

(* The checks at the end of the header.                                      *)
ToEnd ==
  /\ fn = "to_end"
  /\ \/ /\ st \in {"MAYBE_URI_END", "END", "E_PARA_VALUE"}
        /\ fn' = "hdr_end"
        /\ loc' = [loc EXCEPT
                     !.to.display = IF @[2] = 0 THEN Null ELSE @,
                     !.to.uri = IF st = "MAYBE_URI_END" THEN Span(@[1], loc.mark) ELSE @,
                     !.to.body = IF st # "E_PARA_VALUE" THEN Span(@[1], p) ELSE @]
        /\ UNCHANGED <<datagram, p, st, sv, hdr, msg>>
     \/ st \notin {"MAYBE_URI_END", "END", "E_PARA_VALUE"} /\ Refuse

-----------------------------------------------------------------------------
(* parse_to_param.  "tag" is spelt by TAG1, TAG2 and TAG3.                   *)
Pending == loc.prm.type # "NONE"
TagStates == {"TAG1", "TAG2", "TAG3"}
InName == TagStates \cup {"PARA_NAME"}
InValue == {"PARA_VALUE_TOKEN", "PARA_VALUE_QUOTED"}
Between == {"S_PARA_NAME", "S_EQUAL", "S_PARA_VALUE", "E_PARA_VALUE"}
TP(c) == fn = "to_param" /\ p < End /\ LowerOf(Byte(p)) = c
TpStep(nst, nsv, nloc) == Step(nst, nsv, nloc) /\ UNCHANGED fn

NameDone == [loc EXCEPT !.prm.name = Span(@[1], p),
                        !.prm.type = IF st = "TAG3" THEN "TAG_PARAM" ELSE @]
(* add_param: the parameter joins the list; a tag is remembered.             *)
Added(l, q) ==
  [l EXCEPT !.to.param_lst = Append(@, q), !.prm = NoToParam,
            !.to.tag = IF q.type = "TAG_PARAM" THEN q.value ELSE @]
ValueDone == Added(loc, [loc.prm EXCEPT !.value = Span(@[1], p)])

TpBlank ==
  /\ TP(" ") \/ TP("\t")
  /\ \/ st \in InName /\ TpStep("S_EQUAL", sv, NameDone)
     \/ st = "PARA_VALUE_TOKEN" /\ TpStep("E_PARA_VALUE", sv, ValueDone)
     \/ st \in Folding /\ TpStep(sv, sv, loc)
     \/ st \in Between \cup {"PARA_VALUE_QUOTED"} /\ TpStep(st, sv, loc)
(* endofheader of parse_to_param: a parameter whose value is missing is      *)
(* added without one, unless it is the tag.                                  *)
Unvalued == Pending /\ sv \in {"S_EQUAL", "S_PARA_VALUE"}
TpEnd ==
  \/ Unvalued /\ loc.prm.type = "TAG_PARAM" /\ Refuse
  \/ /\ ~(Unvalued /\ loc.prm.type = "TAG_PARAM")
     /\ fn' = "to_end"
     /\ loc' = IF Unvalued THEN Added(loc, [loc.prm EXCEPT !.value = Null]) ELSE [loc EXCEPT !.prm = NoToParam]
     /\ st' = IF Unvalued THEN "E_PARA_VALUE" ELSE sv
     /\ UNCHANGED <<datagram, p, sv, hdr, msg>>
TpLine ==
  /\ TP("\n") \/ TP("\r")
  /\ \/ st \in Between /\ TpStep(LineState, st, loc)
     \/ st \in InName /\ TpStep(LineState, "S_EQUAL", NameDone)
     \/ st = "PARA_VALUE_TOKEN" /\ TpStep(LineState, "E_PARA_VALUE", ValueDone)
     \/ st = "F_CR" /\ TP("\n") /\ TpStep("F_CRLF", sv, loc)
     \/ st \in Folding /\ ~(st = "F_CR" /\ TP("\n")) /\ TpEnd
     \/ st = "PARA_VALUE_QUOTED" /\ Refuse
TpComma ==
  /\ TP(",")
  /\ \/ st = "PARA_VALUE_QUOTED" /\ TpStep(st, sv, loc)
     \/ st # "PARA_VALUE_QUOTED" /\ Refuse
TpBackslash ==
  /\ TP("\\")
  /\ \/ /\ st = "PARA_VALUE_QUOTED"
        /\ p' = IF Byte(p + 1) \in EOL THEN p + 1 ELSE p + 2
        /\ UNCHANGED <<datagram, fn, st, sv, loc, hdr, msg>>
     \/ st # "PARA_VALUE_QUOTED" /\ Refuse
TpQuote ==
  /\ TP("\"")
  /\ \/ st = "S_PARA_VALUE" /\ TpStep("PARA_VALUE_QUOTED", sv, [loc EXCEPT !.prm.value = Span(p + 1, p + 1)])
     \/ st = "PARA_VALUE_QUOTED" /\ TpStep("E_PARA_VALUE", sv, ValueDone)
     \/ st \in Folding /\ TpEnd
     \/ st \notin Folding \cup {"S_PARA_VALUE", "PARA_VALUE_QUOTED"} /\ Refuse
(* A semicolon ends the parameter, with or without a value (a tag needs      *)
(* one, and the spelling of "tag" may not be left off), and starts another.  *)
Opened(l) == [l EXCEPT !.prm = NewToParam]
TpSemicolon ==
  /\ TP(";")
  /\ \/ st = "PARA_VALUE_QUOTED" /\ TpStep(st, sv, loc)
     \/ /\ st \in {"PARA_NAME", "S_EQUAL", "S_PARA_VALUE"} /\ loc.prm.type # "TAG_PARAM"
        /\ LET q == (IF st = "PARA_NAME" THEN NameDone ELSE loc).prm
           IN TpStep("S_PARA_NAME", sv, Opened(Added(loc, [q EXCEPT !.value = Span(p, p)])))
     \/ st = "PARA_VALUE_TOKEN" /\ TpStep("S_PARA_NAME", sv, Opened(ValueDone))
     \/ st = "E_PARA_VALUE" /\ TpStep("S_PARA_NAME", sv, Opened(loc))
     \/ st \in Folding /\ TpEnd
     \/ st \in TagStates \cup {"S_PARA_NAME"} /\ Refuse
     \/ st \in {"S_EQUAL", "S_PARA_VALUE"} /\ loc.prm.type = "TAG_PARAM" /\ Refuse
TpEquals ==
  /\ TP("=")
  /\ \/ st = "PARA_VALUE_QUOTED" /\ TpStep(st, sv, loc)
     \/ st \in InName /\ TpStep("S_PARA_VALUE", sv, NameDone)
     \/ st = "S_EQUAL" /\ TpStep("S_PARA_VALUE", sv, loc)
     \/ st \in Folding /\ TpEnd
     \/ st \in {"S_PARA_NAME", "S_PARA_VALUE", "E_PARA_VALUE", "PARA_VALUE_TOKEN"} /\ Refuse
(* A letter: the next state of a name.                                       *)
TagSpelt == {<<"S_PARA_NAME", "t", "TAG1">>, <<"TAG1", "a", "TAG2">>, <<"TAG2", "g", "TAG3">>}
TpNext(c) ==
  LET known == {t \in TagSpelt : t[1] = st /\ t[2] = LowerOf(c)}
  IN IF known = {} THEN "PARA_NAME" ELSE (CHOOSE t \in known : TRUE)[3]
TpLetter ==
  /\ fn = "to_param" /\ p < End /\ Byte(p) \notin SP \cup EOL \cup {",", "\\", "\"", ";", "="}
  /\ \/ st \in InValue /\ TpStep(st, sv, loc)
     \/ st \in InName /\ TpStep(TpNext(Byte(p)), sv, loc)
     \/ st = "S_PARA_NAME" /\ TpStep(TpNext(Byte(p)), sv, [loc EXCEPT !.prm.name = Span(p, p)])
     \/ st = "S_PARA_VALUE" /\ TpStep("PARA_VALUE_TOKEN", sv, [loc EXCEPT !.prm.value = Span(p, p)])
     \/ st \in Folding /\ TpEnd
     \/ st \in {"S_EQUAL", "E_PARA_VALUE"} /\ Refuse
TpText == fn = "to_param" /\ p >= End /\ TpEnd

parse_to ==
  \/ ToBlank \/ ToLine \/ ToComma \/ ToBackslash \/ ToAngle \/ ToQuoted \/ ToParams \/ ToOther
  \/ ToText \/ ToEnd
  \/ TpBlank \/ TpLine \/ TpComma \/ TpBackslash \/ TpQuote \/ TpSemicolon \/ TpEquals \/ TpLetter
  \/ TpText
=============================================================================
