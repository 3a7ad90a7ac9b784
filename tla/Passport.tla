------------------------------ MODULE Passport ------------------------------
(***************************************************************************)
(* The tokens of the STIR/SHAKEN service (src/stir/Passport.cpp): what     *)
(* makePassport signs for a caller, and what verifyPassport says of an     *)
(* identity header that comes with a call.                                 *)
(*                                                                         *)
(* An identity is the text "header.payload.signature;info=<URI>;n=v...".   *)
(* Its parts stand for what decoding makes of them, and a signature for    *)
(* the key and the text it was made from.  Telephone numbers are numbers   *)
(* in the lexicographic order of their texts.                              *)
(*                                                                         *)
(* An "origid" is whether its text up to a NUL is a UUID, and what it has  *)
(* behind that: nothing, or a rest that nothing validates or escapes.      *)
(* Such a rest can change what the payload it is formatted into decodes    *)
(* to, and stands for that.                                                *)
(***************************************************************************)
EXTENDS Integers, Sequences, TLC

CONSTANTS
  Period,   \* FLAGS_valid_iat_period
  IntLimit, \* 2^63: an integer that JSON cannot have
  NoPart,   \* an empty part of an identity, or one without the parameter
  Garbled,  \* a part that does not decode
  BadNumber, \* JSON with a number that cannot be converted
  Scalar,   \* a JSON value that is not an object
  NoClaim,  \* a claim that is missing
  NoTn,     \* an object as "orig" or "dest" claim, without "tn"
  NotInt    \* an "iat" claim that is not an integer

ASSUME PeriodAssumption == Period \in Nat /\ IntLimit \in Nat

\* The URI of the certificate, a constant of makePassport; a text that is no URI.
Cert == "cert"
NotUri == "<>"

\* A UUID and no more.
Plain == [uuid |-> TRUE, rest |-> NoPart]

Signed(key, header, payload) == [key |-> key, header |-> header, payload |-> payload]

PassportHeader == [alg |-> "ES256", ppt |-> "shaken", typ |-> "passport", x5u |-> Cert]

\* Mutant: destinations stay in the order of the request.
Canonical_AsGiven(dest) == dest

\* Destinations are sorted before they are signed.
Canonical(dest) == SortSeq(dest, <)

makePassport(req) ==
  LET payload == [attest |-> req.attest, dest |-> Canonical(req.dest), iat |-> req.iat,
                  orig |-> req.orig, origid |-> req.origid]
  IN  [header |-> PassportHeader, payload |-> payload,
       signature |-> Signed("ec256", PassportHeader, payload),
       info |-> Cert, params |-> <<>>]

-----------------------------------------------------------------------------
(* Verification.  Each part of it is a verdict or OK; the first one that   *)
(* is not OK is the answer.                                                *)

Verdict(code, verStat) == [code |-> code, verStat |-> verStat]

VF_STALE_DATE == Verdict(403, "No-TN-Validation")
VF_INVALID_IDENTITY == Verdict(438, "No-TN-Validation")
VF_BAD_IDENTITY_INFO == Verdict(436, "No-TN-Validation")
VF_UNSUPPORTED_CREDENTIAL == Verdict(437, "No-TN-Validation")
BadSignature == Verdict(438, "TN-Validation-Failed")
Passed == Verdict(0, "TN-Validation-Passed")
OK == Verdict(0, "not decided")
Throws == Verdict(0, "exception")

Then(verdict, rest) == IF verdict = OK THEN rest ELSE verdict

Drift(a, b) == IF a > b THEN a - b ELSE b - a
Fresh(a, b) == Drift(a, b) <= Period

\* A "compact" identity has neither header nor payload.
CheckForm(id) ==
  IF id.header = NoPart /\ id.payload = NoPart THEN VF_INVALID_IDENTITY ELSE OK

\* Missing, or not a URI.
CheckInfo(id) == IF id.info \in {NoPart, NotUri} THEN VF_BAD_IDENTITY_INFO ELSE OK

\* The loop over the parameters behind info=<...>.  The name of the first one is
\* read with the semicolon before it and is never "ppt".
CheckParams(id) ==
  IF \E i \in 2..Len(id.params) : id.params[i].name = "ppt" /\ id.params[i].value # "shaken"
    THEN VF_INVALID_IDENTITY ELSE OK

\* What parseJson has no value for.  What it throws for a number that cannot be
\* converted is no parse_error: it is not caught.
Undecoded == {NoPart, Garbled, BadNumber, Scalar}

CheckHeader(id) ==
  LET header == id.header IN
  IF header = BadNumber THEN Throws
  ELSE IF header \in {NoPart, Garbled, Scalar} THEN VF_BAD_IDENTITY_INFO
  ELSE IF \E claim \in {"ppt", "typ", "alg", "x5u"} : header[claim] = NoClaim
    THEN VF_BAD_IDENTITY_INFO
  ELSE IF header.typ # "passport" \/ header.alg # "ES256" THEN VF_UNSUPPORTED_CREDENTIAL
  ELSE IF header.x5u # id.info THEN VF_BAD_IDENTITY_INFO
  ELSE IF header.ppt # "shaken" THEN VF_INVALID_IDENTITY
  ELSE OK

\* The claims in the text of a payload.
Claims(payload) ==
  IF payload \in Undecoded THEN payload
  ELSE IF payload.origid = NoClaim THEN payload
  ELSE IF payload.origid.rest = NoPart THEN payload ELSE payload.origid.rest

\* An "iat" is signed as the uint64_t of the request.
Unconvertible(claims) ==
  \/ claims = BadNumber
  \/ claims \notin Undecoded /\ claims.iat \notin {NoClaim, NotInt} /\ claims.iat >= IntLimit

CheckPayload(claims, time) ==
  IF Unconvertible(claims) THEN Throws
  ELSE IF claims \in Undecoded THEN VF_BAD_IDENTITY_INFO
  ELSE IF \E claim \in {"dest", "orig", "attest", "origid", "iat"} : claims[claim] = NoClaim
    THEN VF_INVALID_IDENTITY
  ELSE IF claims.iat = NotInt \/ (claims.iat # NotInt /\ claims.iat < 0)
    THEN VF_INVALID_IDENTITY
  ELSE IF ~Fresh(claims.iat, time) THEN VF_STALE_DATE
  ELSE IF claims.attest \notin {"A", "B", "C"} THEN VF_INVALID_IDENTITY
  ELSE OK

\* payload["orig"]["tn"] and payload["dest"]["tn"]: a claim that is no object throws,
\* one without "tn" gets a null that is no number.  Lists of destinations are
\* compared in order.
CheckNumbers(claims, from, to) ==
  IF claims.orig = Scalar THEN Throws
  ELSE IF claims.orig # from THEN VF_INVALID_IDENTITY
  ELSE IF claims.dest = Scalar THEN Throws
  ELSE IF claims.dest # to THEN VF_INVALID_IDENTITY
  ELSE OK

\* ECDSA_do_verify with the public key of the service; a signature that is not
\* 64 octets is replaced by zeros.
Authentic(id) == id.signature = Signed("ec256", id.header, id.payload)

CheckSignature(id) == IF Authentic(id) THEN Passed ELSE BadSignature

verifyPassport(req, now) ==
  LET id == req.identity
      claims == Claims(id.payload)
  IN
  IF ~Fresh(req.time, now) THEN VF_STALE_DATE
  ELSE Then(CheckForm(id),
       Then(CheckInfo(id),
       Then(CheckParams(id),
       Then(CheckHeader(id),
       Then(CheckPayload(claims, req.time),
       Then(CheckNumbers(claims, req.from, req.to),
            CheckSignature(id)))))))

=============================================================================
