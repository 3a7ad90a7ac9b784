----------------------------- MODULE MCStirApi -----------------------------
(***************************************************************************)
(* Documents for the STIR service: a good call, and copies of it with one  *)
(* thing wrong.                                                            *)
(***************************************************************************)
EXTENDS StirApi

Call == [attest |-> "A", dest |-> <<2, 1>>, orig |-> 1, origid |-> Plain, iat |-> 4]

\* What the payload of a call can read as when its origid is more than a UUID.
Rests == {Garbled, BadNumber, [Call EXCEPT !.dest = <<2>>, !.orig = 2]}

Doc(wrapper, msg) == [wrapper |-> wrapper, msg |-> msg]

SigningMsgs ==
  {Call, [Call EXCEPT !.dest = <<1>>],
   [Call EXCEPT !.attest = "D"], [Call EXCEPT !.origid.uuid = FALSE], [Call EXCEPT !.iat = IntLimit],
   [Call EXCEPT !.dest = <<>>], [Call EXCEPT !.orig = 9], [Call EXCEPT !.dest = <<1, 9>>]}
  \cup {[Call EXCEPT !.origid.rest = v] : v \in Rests}
  \cup {[Call EXCEPT ![p] = v] : p \in {"dest", "iat"}, v \in {NoClaim, BadType}}

MCSigningDocs == {Garbled, BadNumber, Scalar} \cup {Doc("signingRequest", m) : m \in SigningMsgs}

Ppt(value) == [name |-> "ppt", value |-> value]

\* Token t with one thing changed.
Changed(t) ==
  {[t EXCEPT !.header = v] : v \in Undecoded}
  \cup {[t EXCEPT !.header[p] = v] : p \in {"ppt", "typ", "x5u"}, v \in {NoClaim, "other"}}
  \cup {[t EXCEPT !.header = NoPart, !.payload = NoPart]}
  \cup {[t EXCEPT !.info = v] : v \in {NoPart, NotUri, "other"}}
  \cup {[t EXCEPT !.payload = v] : v \in Undecoded}
  \cup {[t EXCEPT !.payload.iat = v] : v \in {NoClaim, NotInt, -1, 5, IntLimit}}
  \cup {[t EXCEPT !.payload.orig = v] : v \in {NoTn, Scalar, 2}}
  \cup {[t EXCEPT !.payload.dest = v] : v \in {NoTn, Scalar, <<2>>}}
  \cup {[t EXCEPT !.payload.origid = v] : v \in {NoClaim} \cup {[uuid |-> TRUE, rest |-> w] : w \in Rests}}
  \cup {[t EXCEPT !.payload.attest = v] : v \in {"B", "D"}}
  \cup {[t EXCEPT !.signature = v] : v \in {NoPart, Garbled, Signed("other", t.header, t.payload)}}
  \cup {[t EXCEPT !.params = p] : p \in {<<Ppt("div")>>, <<Ppt("shaken"), Ppt("div")>>, <<Ppt("div"), Ppt("shaken")>>}}

\* A call reported as it was signed, or not quite, with token t.
Report(t, r, time) ==
  [identity |-> t, from |-> r.orig, to |-> SortSeq(r.dest, <), time |-> time]

Reports(r, clock) ==
  LET token == makePassport(r)
      right == Report(token, r, clock)
  IN  {Report(t, r, clock) : t \in IF r = Call THEN Changed(token) ELSE {}}
      \cup {[right EXCEPT !.time = v] : v \in {clock - 1, clock, clock + 1, clock + 2, NoClaim}}
      \cup {[right EXCEPT !.from = v] : v \in {2, 9}}
      \cup {[right EXCEPT !.to = v] : v \in {<<>>, <<2, 1>>, <<9>>, BadType}}

Foreign == [makePassport(Call) EXCEPT !.signature.key = "other"]

\* The call that a rest of r's origid speaks of.
Restated(r) ==
  IF r.origid.rest \in Undecoded THEN {}
  ELSE {[identity |-> makePassport(r), from |-> r.origid.rest.orig, to |-> r.origid.rest.dest,
         time |-> Call.iat]}

\* Calls that were signed, one that was not, and no report at all.
MCVerifyingDocs(calls, clock) ==
  {Doc("verificationRequest", m) :
     m \in {Report(t, Call, Call.iat) : t \in {Foreign, makePassport(Call)}} \cup UNION {Reports(r, clock) \cup Restated(r) : r \in calls}}
  \cup {Doc("signingRequest", Call)}

=============================================================================
