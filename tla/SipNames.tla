------------------------------- MODULE SipNames -------------------------------
(* parse_hname2.c, the case_*.h files it includes and keys.h: which header a *)
(* name is.  The code compares four bytes at a time, in lower case; what a   *)
(* name may be followed by depends on where its last group of four ends.     *)
EXTENDS SipTo

(* How a name ends: in a byte test (any blank may follow), with a group that *)
(* holds the colon or a space (then blanks, or a test of the next byte), or  *)
(* as the two last ones do, which take any byte for a blank and then have no *)
(* type.                                                                     *)
Cont(name, type) == [name |-> name, type |-> type, ends |-> "cont"]
Quad(name, type) == [name |-> name, type |-> type, ends |-> "quad"]
QuadCont(name, type) == [name |-> name, type |-> type, ends |-> "quadcont"]
Colon(name, type) == [name |-> name, type |-> type, ends |-> "colon"]

case_via == {Quad("via", "VIA")}
case_from == {Cont("from", "FROM")}
case_to == {Cont("to", "TO")}
case_cseq == {Cont("cseq", "CSEQ")}
case_call == {Quad("call-id", "CALLID"), Cont("call-info", "CALL_INFO")}
case_cont == {Quad("contact", "CONTACT"), Cont("content-length", "CONTENTLENGTH"),
              Cont("content-type", "CONTENTTYPE"), Quad("content-disposition", "CONTENTDISPOSITION")}
case_rout == {Cont("route", "ROUTE")}
case_max == {Cont("max-forwards", "MAXFORWARDS")}
case_reco == {Cont("record-route", "RECORDROUTE")}
case_path == {Cont("path", "PATH")}
case_auth == {Cont("authorization", "AUTHORIZATION")}
case_expi == {QuadCont("expires", "EXPIRES")}
case_prox == {QuadCont("proxy-authorization", "PROXYAUTH"), Cont("proxy-require", "PROXYREQUIRE"),
              Cont("proxy-authenticate", "PROXY_AUTHENTICATE")}
case_allo == {Cont("allow", "ALLOW")}
case_unsu == {QuadCont("unsupported", "UNSUPPORTED")}
case_even == {Cont("event", "EVENT")}
(* The group "pt-d" has the number of "ptad" (keys.h).                       *)
case_acce == {Cont("accept", "ACCEPT"), QuadCont("accept-language", "ACCEPTLANGUAGE"),
              Cont("acceptadisposition", "ACCEPTDISPOSITION")}
case_orga == {Cont("organization", "ORGANIZATION")}
case_prio == {Cont("priority", "PRIORITY")}
case_subj == {QuadCont("subject", "SUBJECT")}
case_user == {Cont("user-agent", "USERAGENT")}
case_supp == {Cont("supported", "SUPPORTED")}
case_dive == {Cont("diversion", "DIVERSION")}
case_remo == {QuadCont("remote-party-id", "RPID")}
case_refe == {Cont("refer-to", "REFER_TO")}
case_sess == {QuadCont("session-expires", "SESSION_EXPIRES")}
case_min == {Cont("min-se", "MIN_SE"), QuadCont("min-expires", "MIN_EXPIRES")}
case_p_pr == {Cont("p-preferred-identity", "PPI")}
case_p_as == {QuadCont("p-asserted-identity", "PAI")}
case_priv == {QuadCont("privacy", "PRIVACY")}
case_retr == {QuadCont("retry-after", "RETRY_AFTER")}
case_www == {Cont("www-authenticate", "WWW_AUTHENTICATE")}
case_feat == {Colon("feature-caps", "FEATURE_CAPS")}
case_repl == {Colon("replaces", "REPLACES")}
FIRST_QUATERNIONS ==
  case_via \cup case_from \cup case_to \cup case_cseq \cup case_call \cup case_cont \cup case_rout
  \cup case_max \cup case_reco \cup case_path \cup case_auth \cup case_expi \cup case_prox
  \cup case_allo \cup case_unsu \cup case_even \cup case_acce \cup case_orga \cup case_prio
  \cup case_subj \cup case_user \cup case_supp \cup case_dive \cup case_remo \cup case_refe
  \cup case_sess \cup case_min \cup case_p_pr \cup case_p_as \cup case_priv \cup case_retr
  \cup case_www \cup case_feat \cup case_repl
(* The one-letter names.                                                     *)
Compact == [t |-> "TO", v |-> "VIA", f |-> "FROM", i |-> "CALLID", m |-> "CONTACT",
            l |-> "CONTENTLENGTH", k |-> "SUPPORTED", c |-> "CONTENTTYPE", o |-> "EVENT",
            x |-> "SESSION_EXPIRES"]

(* Setting bit 0x20 also turns a carriage return into a hyphen.              *)
Spells(b, name) ==
  \A k \in 1..Len(name) :
    LET c == Byte(b + k - 1) IN
    LowerOf(c) = SubSeq(name, k, k) \/ (c = "\r" /\ SubSeq(name, k, k) = "-")

HName(type, b, len, next) == [type |-> type, name |-> <<b, len>>, next |-> next]
BadName(b) == HName("ERROR", b, 0, b)
(* Blanks and the colon; anything else is an error.                          *)
ColonAfter(type, b, len, q) ==
  LET c == Skip(q, SP) IN
  IF q < End /\ Byte(c) = ":" THEN HName(type, b, len, c + 1) ELSE BadName(b)
(* other: the name ends at the next colon or blank.                          *)
OtherName(b, q) ==
  LET c == Find(q, SP \cup {":"}) IN
  IF c >= End THEN BadName(b)
  ELSE IF Byte(c) = ":" THEN HName("OTHER", b, c - b, c + 1)
  ELSE ColonAfter("OTHER", b, c - b, c)
(* dc_cont: the byte behind the known part decides.                          *)
ContName(type, b, len, q) ==
  CASE q >= End -> BadName(b)
    [] Byte(q) = ":" -> HName(type, b, len, q + 1)
    [] Byte(q) \in SP -> ColonAfter(type, b, len, q)
    [] OTHER -> OtherName(b, q)

KnownName(b, k) ==
  LET len == Len(k.name)
      q == b + len
  IN CASE k.ends = "cont" -> ContName(k.type, b, len, q)
       [] Byte(q) = ":" -> HName(k.type, b, len, q + 1)
       [] k.ends = "quad" /\ Byte(q) = " " -> ColonAfter(k.type, b, len, q + 1)
       [] k.ends = "quadcont" /\ Byte(q) = " " -> ContName(k.type, b, len, q + 1)
       [] k.ends = "colon" -> ContName("ERROR", b, len, q + 1)
       [] OTHER -> OtherName(b, q)

(* The longest known name the bytes spell, or a compact one, or another.     *)
parse_hname2(b) ==
  LET known == {k \in FIRST_QUATERNIONS : Spells(b, k.name)}
      one == LowerOf(Byte(b))
  IN CASE End - b < 4 -> BadName(b)
       [] known # {} ->
            KnownName(b, CHOOSE k \in known : \A j \in known : Len(j.name) <= Len(k.name))
       [] known = {} /\ one \in DOMAIN Compact /\ Byte(b + 1) \in SP \cup {":"} ->
            IF Byte(b + 1) = ":" THEN HName(Compact[one], b, 1, b + 2)
            ELSE ColonAfter(Compact[one], b, 1, b + 2)
       [] OTHER -> OtherName(b, b)
=============================================================================
