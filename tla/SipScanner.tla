------------------------------ MODULE SipScanner ------------------------------
(* The text the SIP parser (lib/osips_parser) works on, and the state its    *)
(* functions share.  A datagram lies at the start of the receive buffer of   *)
(* its handler (SipHandler.cpp:42-45); the buffer is reused, so behind the   *)
(* datagram lie the bytes an earlier, longer one left there, and then NULs.  *)
(* Some loops of the parser stop at `end`, others at the first NUL.          *)
(*                                                                           *)
(* Text is a string and a byte a one-character string; positions count from *)
(* 1.  `loc` holds the locals of the running function, `msg` the sip_msg.    *)
EXTENDS Integers, Sequences, FiniteSets, FiniteSetsExt

CONSTANT
  Datagrams     \* what may arrive: records with the fields text and stale

VARIABLES
  datagram,     \* what was received
  fn,           \* the function, or the loop of a function, that runs
  p,            \* its read pointer
  st, sv,       \* its state and saved_state
  loc,          \* its other locals
  hdr,          \* the struct hdr_field being filled
  msg           \* struct sip_msg

scan == <<datagram, fn, p, st, sv, loc, hdr, msg>>

NUL == ""
SP == {" ", "\t"}
EOL == {"\r", "\n"}
CharsOf(s) == {SubSeq(s, i, i) : i \in 1..Len(s)}
Digits == CharsOf("0123456789")
lower == "abcdefghijklmnopqrstuvwxyz"
upper == "ABCDEFGHIJKLMNOPQRSTUVWXYZ"
Letters == CharsOf(lower) \cup CharsOf(upper)
Lower == [c \in CharsOf(upper) |->
            LET i == CHOOSE j \in 1..26 : SubSeq(upper, j, j) = c IN SubSeq(lower, i, i)]
LowerOf(c) == IF c \in DOMAIN Lower THEN Lower[c] ELSE c

(* One byte of the receive buffer, and one past the last of the datagram.    *)
Len0 == Len(datagram.text)
End == Len0 + 1
Byte(i) ==
  LET j == i - Len0 IN
  IF j <= 0 THEN SubSeq(datagram.text, i, i)
  ELSE IF j <= Len(datagram.stale) THEN SubSeq(datagram.stale, j, j) ELSE NUL

(* A `str`: where it starts and its length; <<0, 0>> is the null string.     *)
Null == <<0, 0>>
Span(from, to) == <<from, to - from>>
Text(s) ==
  LET buf == datagram.text \o datagram.stale IN
  IF s[1] = 0 \/ s[2] <= 0 \/ s[1] + s[2] - 1 > Len(buf) THEN ""
  ELSE SubSeq(buf, s[1], s[1] + s[2] - 1)

(* strncasecmp of the bytes from i on with a word in lower case.             *)
IsWord(i, word) ==
  \A k \in 1..Len(word) : LowerOf(Byte(i + k - 1)) = SubSeq(word, k, k)

(* The helpers of parser_f.h: the first position from i on, at most End,     *)
(* whose byte is not one of S, or is one of S.                               *)
Skip(i, S) == Min({j \in i..Max({i, End}) : j >= End \/ Byte(j) \notin S})
Find(i, S) == Min({j \in i..Max({i, End}) : j >= End \/ Byte(j) \in S})
eat_space_end(i) == Skip(i, SP)
eat_token_end(i) == Find(i, SP \cup EOL)
eat_token2_end(i) == Find(i, EOL)
is_empty_end(i) == LET e == eat_space_end(i) IN e < End /\ Byte(e) \in EOL

(* A fold: a line end and the blank that continues the line.                 *)
Fold(i) ==
  CASE Byte(i) = "\n" /\ i + 1 < End /\ Byte(i + 1) \in SP -> 2
    [] Byte(i) = "\r" /\ i + 2 < End /\ Byte(i + 1) = "\n" /\ Byte(i + 2) \in SP -> 3
    [] OTHER -> 0
(* eat_lws_end: blanks and folds.  Every byte before the result belongs to   *)
(* one, and none starts at the result.                                       *)
eat_lws_end(i) ==
  LET Blank[j \in i..Max({i, End})] ==
        IF j >= End THEN j
        ELSE IF Byte(j) \in SP THEN Blank[j + 1]
        ELSE IF Fold(j) > 0 THEN Blank[j + Fold(j)] ELSE j
  IN Blank[i]

(* The start of the line after position i, as parser_f.c finds it.           *)
eat_line(i) ==
  LET lf == Find(i, {"\n"})
      a == IF lf + 1 < End THEN lf + 1 ELSE lf
  IN IF lf = End THEN End
     ELSE IF a + 1 < End /\ Byte(a) = "\r" THEN a + 1 ELSE a

(* The message is refused: parse_msg returns -1.                             *)
Refuse == fn' = "refused" /\ UNCHANGED <<datagram, p, st, sv, loc, hdr, msg>>
(* One turn of a scanning loop.                                              *)
Step(nst, nsv, nloc) ==
  /\ p' = p + 1 /\ st' = nst /\ sv' = nsv /\ loc' = nloc
  /\ UNCHANGED <<datagram, hdr, msg>>

(* trim_r: line ends at the end of a body do not belong to it.               *)
trim_r(s) ==
  LET last == {k \in 1..s[2] : Byte(s[1] + k - 1) \notin EOL \cup {NUL}}
  IN <<s[1], Max(last \cup {0})>>

(* str2s: the number a string of digits spells, as an unsigned short; no     *)
(* more than five digits.                                                    *)
ShortMod == 65536
DigitOf(c) == CHOOSE d \in 0..9 : SubSeq("0123456789", d + 1, d + 1) = c
str2s(s) ==
  LET val[k \in 0..s[2]] == IF k = 0 THEN 0
                            ELSE (val[k - 1] * 10 + DigitOf(Byte(s[1] + k - 1))) % ShortMod
      ok == s[2] <= 5 /\ \A k \in 1..s[2] : Byte(s[1] + k - 1) \in Digits
  IN IF ok THEN [err |-> FALSE, val |-> val[s[2]]] ELSE [err |-> TRUE, val |-> 0]
=============================================================================
