--------------------------- MODULE StirApi_proofs ---------------------------
(***************************************************************************)
(* Proofs about StirApi and Passport for any connections, documents,       *)
(* numbers and periods: verifyPassport passes exactly the calls that the   *)
(* tokens signed by the service speak of.                                  *)
(***************************************************************************)
EXTENDS StirApi, TLAPS

-----------------------------------------------------------------------------
(* verifyPassport.                                                         *)

\* A verdict Passed means that every check was passed.
LEMMA PassedMeans ==
  ASSUME NEW doc, NEW at, verifyPassport(doc, at) = Passed
  PROVE  LET claims == Claims(doc.identity.payload)
         IN  /\ claims \notin Undecoded
             /\ Fresh(doc.time, at) /\ Fresh(claims.iat, doc.time)
             /\ claims.orig = doc.from /\ claims.dest = doc.to
             /\ Authentic(doc.identity)
<1>. DEFINE claims == Claims(doc.identity.payload)
<1>0. PICK c : c = claims
  OBVIOUS
<1>. HIDE DEF claims
<1>. USE DEF Passed, OK, Throws, BadSignature, VF_STALE_DATE, VF_INVALID_IDENTITY,
             VF_BAD_IDENTITY_INFO, VF_UNSUPPORTED_CREDENTIAL, Verdict
<1>1. CheckForm(doc.identity) # Passed /\ CheckInfo(doc.identity) # Passed
      /\ CheckParams(doc.identity) # Passed
  BY DEF CheckForm, CheckInfo, CheckParams
<1>2. CheckHeader(doc.identity) # Passed
  BY ZenonT(60) DEF CheckHeader
<1>3. CheckPayload(c, doc.time) # Passed
  BY ZenonT(60) DEF CheckPayload
<1>4. CheckNumbers(c, doc.from, doc.to) # Passed
  BY DEF CheckNumbers
<1>5. /\ Fresh(doc.time, at)
      /\ CheckPayload(c, doc.time) = OK
      /\ CheckNumbers(c, doc.from, doc.to) = OK
      /\ CheckSignature(doc.identity) = Passed
  BY <1>0, <1>1, <1>2, <1>3, <1>4 DEF verifyPassport, Then, claims
<1>6. c \notin Undecoded /\ Fresh(c.iat, doc.time)
  BY <1>5 DEF CheckPayload
<1>7. c.orig = doc.from /\ c.dest = doc.to
  BY <1>5 DEF CheckNumbers
<1>8. Authentic(doc.identity)
  BY <1>5 DEF CheckSignature
<1>. QED
  BY <1>0, <1>5, <1>6, <1>7, <1>8 DEF claims

\* Destinations are signed in order.
LEMMA Order == \A dest : Canonical(dest) = Ascending(dest)
BY Zenon DEF Canonical, Ascending

\* What the service signs: the requests that validate() accepts.
Accepted(r) ==
  r.attest \in {"A", "B", "C"} /\ r.origid # NoClaim /\ r.origid.uuid /\ r.iat \in Nat

\* A token that the service makes for a request with a UUID and no more passes for
\* the call it was made for, unless its time is one that parseJson throws for.
LEMMA TokensPass ==
  ASSUME NEW r, Accepted(r), r.origid = Plain, NEW doc, NEW at, Matches(doc, r, at),
         doc.identity = makePassport(r), doc.from \in ValidTNs, doc.to \in Seq(Nat),
         doc.to # NoClaim
  PROVE  verifyPassport(doc, at) = IF r.iat < IntLimit THEN Passed ELSE Throws
<1>. DEFINE id == doc.identity
            payload == [attest |-> r.attest, dest |-> Canonical(r.dest), iat |-> r.iat,
                        orig |-> r.orig, origid |-> r.origid]
<1>1. /\ id.header = PassportHeader /\ id.payload = payload
      /\ id.signature = Signed("ec256", PassportHeader, payload)
      /\ id.info = Cert /\ id.params = <<>>
  BY DEF makePassport
<1>2. /\ Canonical(r.dest) = doc.to /\ r.orig = doc.from
      /\ Fresh(r.iat, doc.time) /\ Fresh(doc.time, at)
  BY Order DEF Matches, Speaks, Plain
<1>3. payload \in Payload
  BY <1>2, StirAssumption DEF Payload, Accepted
<1>4. id.header \notin Undecoded /\ id.payload \notin Undecoded
  BY <1>1, <1>3, StirAssumption
<1>5. CheckForm(id) = OK
  BY <1>4 DEF CheckForm, Undecoded
<1>d. Claims(id.payload) = payload
  <2>1. payload.origid = Plain /\ Plain.rest = NoPart
    BY DEF Plain
  <2>. QED
    BY <1>1, <1>4, <2>1 DEF Claims
<1>a. NoPart # Cert /\ NotInt \notin Nat /\ Scalar \notin Nat
      /\ Scalar \notin Seq(Nat) /\ doc.from \in Nat
  BY StirAssumption
<1>b. Cert # NoPart /\ Cert # NotUri
  BY <1>a DEF Cert, NotUri
<1>c. NoClaim \notin Nat \cup {"A", "B", "C", Plain, "ES256", "shaken", "passport", Cert}
  BY StirAssumption
<1>6. CheckInfo(id) = OK
  BY <1>1, <1>b DEF CheckInfo
<1>7. CheckParams(id) = OK
  BY <1>1 DEF CheckParams
<1>8. CheckHeader(id) = OK
  <2>1. \A claim \in {"ppt", "typ", "alg", "x5u"} : PassportHeader[claim] # NoClaim
    BY <1>c DEF PassportHeader
  <2>2. PassportHeader.typ = "passport" /\ PassportHeader.alg = "ES256"
        /\ PassportHeader.x5u = Cert /\ PassportHeader.ppt = "shaken"
    BY DEF PassportHeader
  <2>. QED
    BY <1>1, <1>4, <2>1, <2>2 DEF CheckHeader, Undecoded
<1>9. CheckPayload(payload, doc.time) = IF r.iat < IntLimit THEN OK ELSE Throws
  <2>1. /\ payload.dest = doc.to /\ payload.orig = doc.from /\ payload.attest = r.attest
        /\ payload.origid = r.origid /\ payload.iat = r.iat
    BY <1>2
  <2>2. \A claim \in {"dest", "orig", "attest", "origid", "iat"} : payload[claim] # NoClaim
    BY <1>a, <1>c, <2>1 DEF Accepted
  <2>3. payload \notin Undecoded
    BY <1>1, <1>4
  <2>4. payload # BadNumber
    BY <2>3 DEF Undecoded
  <2>5. Unconvertible(payload) <=> ~(r.iat < IntLimit)
    BY <1>a, <1>c, <2>1, <2>3, <2>4, PeriodAssumption DEF Unconvertible, Accepted
  <2>. QED
    BY <1>2, <1>a, <2>1, <2>2, <2>3, <2>5 DEF CheckPayload, Accepted
<1>10. CheckNumbers(payload, doc.from, doc.to) = OK
  <2>1. payload.orig = doc.from /\ payload.dest = doc.to
    BY <1>2
  <2>2. doc.from # Scalar /\ doc.to # Scalar
    BY <1>a
  <2>. QED
    BY <2>1, <2>2 DEF CheckNumbers
<1>12. OK # Throws
  BY DEF OK, Throws, Verdict
<1>11. CheckSignature(id) = Passed
  BY <1>1 DEF CheckSignature, Authentic
<1>. QED
  BY <1>2, <1>d, <1>5, <1>6, <1>7, <1>8, <1>9, <1>10, <1>11, <1>12 DEF verifyPassport, Then

-----------------------------------------------------------------------------
(* fromJson.                                                               *)

\* A document to be signed without an error.
LEMMA GoodSigning ==
  ASSUME NEW doc, fromJson("SIGN", doc) = Nothing
  PROVE  /\ doc \notin NoMessage /\ doc.wrapper = "signingRequest"
         /\ doc.msg.iat \notin {NoClaim, BadType}
         /\ doc.msg.attest \in {"A", "B", "C"} /\ doc.msg.origid # NoClaim /\ doc.msg.origid.uuid
<1>0. Nothing # "SVC4001" /\ Nothing # "SVC4005" /\ Nothing # "SVC4006" /\ Nothing # Crash
  BY ErrorAssumption DEF ErrorClass
<1>1. doc # Garbled /\ doc # BadNumber /\ doc # Scalar /\ doc.wrapper = "signingRequest"
  BY <1>0 DEF fromJson, Wrapper
<1>2. \A i \in DOMAIN Parameters["SIGN"] : doc.msg[Parameters["SIGN"][i]] \notin {NoClaim, BadType}
  BY <1>0, <1>1 DEF fromJson, Wrapper
<1>3. /\ 5 \in DOMAIN Parameters["SIGN"] /\ Parameters["SIGN"][5] = "iat"
      /\ 4 \in DOMAIN Parameters["SIGN"] /\ Parameters["SIGN"][4] = "origid"
  BY DEF Parameters
<1>4. ~Invalid("SIGN", doc.msg)
  BY <1>0, <1>1, <1>2 DEF fromJson
<1>. QED
  BY <1>1, <1>2, <1>3, <1>4 DEF NoMessage, Invalid

\* A document to be verified without an error.
LEMMA GoodVerification ==
  ASSUME NEW doc, fromJson("VERIFY", doc) = Nothing
  PROVE  /\ doc \notin NoMessage /\ doc.wrapper = "verificationRequest"
         /\ doc.msg.to \notin {NoClaim, BadType} /\ doc.msg.identity \notin {NoClaim, BadType}
         /\ doc.msg.from \in ValidTNs
<1>0. Nothing # "SVC4001" /\ Nothing # "SVC4005" /\ Nothing # "SVC4006" /\ Nothing # Crash
  BY ErrorAssumption DEF ErrorClass
<1>1. doc # Garbled /\ doc # BadNumber /\ doc # Scalar /\ doc.wrapper = "verificationRequest"
  BY <1>0 DEF fromJson, Wrapper
<1>2. \A i \in DOMAIN Parameters["VERIFY"] :
        doc.msg[Parameters["VERIFY"][i]] \notin {NoClaim, BadType}
  BY <1>0, <1>1 DEF fromJson, Wrapper
<1>3. /\ 1 \in DOMAIN Parameters["VERIFY"] /\ Parameters["VERIFY"][1] = "identity"
      /\ 4 \in DOMAIN Parameters["VERIFY"] /\ Parameters["VERIFY"][4] = "to"
  BY DEF Parameters
<1>4. ~Invalid("VERIFY", doc.msg)
  BY <1>0, <1>1, <1>2 DEF fromJson
<1>. QED
  BY <1>1, <1>2, <1>3, <1>4 DEF NoMessage, Invalid, validateTN

-----------------------------------------------------------------------------
(* The inductive invariant.                                                *)

TypeOK ==
  /\ pc \in [Conns -> {"none", "body", "answered"}]
  /\ endpoint \in [Conns -> {"SIGN", "VERIFY"}]
  /\ error \in [Conns -> DOMAIN ErrorClass \cup {Nothing}]
  /\ DOMAIN sent = Conns /\ DOMAIN body = Conns /\ DOMAIN left = Conns
  /\ DOMAIN status = Conns /\ DOMAIN reply = Conns

\* A body comes from the clients of its endpoint.
Received(c) ==
  pc[c] = "body" =>
    /\ endpoint[c] = "SIGN" => sent[c] \in SigningDocs \cup {Garbled}
    /\ endpoint[c] = "VERIFY" => sent[c] = Garbled \/ Possible(sent[c])

\* A verdict is the one on the document that is still there.
Answered(c) ==
  (pc[c] = "answered" /\ status[c] = 200 /\ endpoint[c] = "VERIFY") =>
    /\ fromJson("VERIFY", sent[c]) = Nothing /\ Possible(sent[c])
    /\ reply[c].verdict = verifyPassport(sent[c].msg, reply[c].at)
    /\ reply[c].verdict # Throws

IInv ==
  /\ TypeOK
  /\ \A r \in signed : Accepted(r)
  /\ \A c \in Conns : Received(c) /\ Answered(c)

\* What a client can post stays possible when more has been signed.
LEMMA PossibleStays ==
  ASSUME NEW doc, Possible(doc), signed \subseteq signed'
  PROVE  Possible(doc)'
BY DEF Possible

\* A connection whose state does not change.
LEMMA Idle ==
  ASSUME NEW d, Received(d), Answered(d), signed \subseteq signed',
         pc'[d] = pc[d], sent'[d] = sent[d], endpoint'[d] = endpoint[d],
         status'[d] = status[d], reply'[d] = reply[d]
  PROVE  Received(d)' /\ Answered(d)'
<1>1. PICK doc : doc = sent[d] /\ doc = sent'[d]
  OBVIOUS
<1>2. Possible(doc) => Possible(doc)'
  BY PossibleStays
<1>3. Possible(sent[d]) => Possible(sent[d])'
  BY <1>1, <1>2, Zenon DEF Possible
<1>4. Received(d)'
  BY <1>3, Zenon DEF Received
<1>5. Answered(d)'
  BY <1>3, ZenonT(60) DEF Answered
<1>. QED
  BY <1>4, <1>5

-----------------------------------------------------------------------------
(* The steps.                                                              *)

\* The service starts without requests and signatures.
LEMMA InitInv == Init => IInv
<1>. SUFFICES ASSUME Init PROVE IInv
  OBVIOUS
<1>1. TypeOK
  BY DEF Init, TypeOK
<1>2. \A c \in Conns : Received(c) /\ Answered(c)
  BY DEF Init, Received, Answered
<1>. QED
  BY <1>1, <1>2 DEF Init, IInv

\* A step that only the connection c takes part in.
LEMMA OneConnection ==
  ASSUME IInv, NEW c \in Conns, TypeOK', signed \subseteq signed',
         \A r \in signed' : Accepted(r), Received(c)', Answered(c)',
         \A d \in Conns \ {c} :
           /\ pc'[d] = pc[d] /\ sent'[d] = sent[d] /\ endpoint'[d] = endpoint[d]
           /\ status'[d] = status[d] /\ reply'[d] = reply[d]
  PROVE  IInv'
<1>1. ASSUME NEW d \in Conns PROVE Received(d)' /\ Answered(d)'
  <2>1. CASE d = c
    BY <2>1
  <2>2. CASE d # c
    BY <2>2, Idle DEF IInv
  <2>. QED
    BY <2>1, <2>2
<1>. QED
  BY <1>1 DEF IInv

\* The errors a head can have.
LEMMA HeadErrorType ==
  ASSUME NEW head
  PROVE  HeadError(head) \in DOMAIN ErrorClass \cup {Nothing}
BY DEF HeadError, finalize, ErrorClass

\* The head of a request and its document.
LEMMA OnRequestStep ==
  ASSUME IInv, NEW c \in Conns, NEW head, NEW doc, NEW n, onRequest(c, head, doc, n),
         head.path = "signing" => doc \in SigningDocs \cup {Garbled},
         head.path # "signing" => doc = Garbled \/ Possible(doc)
  PROVE  IInv'
<1>. USE DEF process, IInv, TypeOK
<1>1. /\ pc' = [pc EXCEPT ![c] = "body"] /\ sent' = [sent EXCEPT ![c] = doc]
      /\ endpoint' = [endpoint EXCEPT ![c] = IF head.path = "signing" THEN "SIGN" ELSE "VERIFY"]
      /\ error' = [error EXCEPT ![c] = HeadError(head)]
      /\ left' = [left EXCEPT ![c] = n] /\ body' = [body EXCEPT ![c] = 0]
      /\ UNCHANGED <<signed, status, reply>>
  BY DEF onRequest
<1>2. TypeOK'
  BY <1>1, HeadErrorType
<1>3. Possible(doc) => Possible(doc)'
  BY <1>1, PossibleStays
<1>4. pc'[c] = "body" /\ sent'[c] = doc
      /\ endpoint'[c] = IF head.path = "signing" THEN "SIGN" ELSE "VERIFY"
  BY <1>1
<1>5. Possible(doc)' => Possible(sent[c])'
  BY <1>4 DEF Possible
<1>6. Received(c)' /\ Answered(c)'
  BY <1>3, <1>4, <1>5 DEF Received, Answered
<1>7. \A d \in Conns \ {c} :
        /\ pc'[d] = pc[d] /\ sent'[d] = sent[d] /\ endpoint'[d] = endpoint[d]
        /\ status'[d] = status[d] /\ reply'[d] = reply[d]
  BY <1>1
<1>. QED
  BY <1>1, <1>2, <1>6, <1>7, OneConnection

\* A request arrives on an idle connection.
LEMMA ArrivalStep ==
  ASSUME IInv, NEW c \in Conns, Arrival(c)
  PROVE  IInv'
<1>1. CASE NotFound(c)
  <2>. USE DEF process, request, IInv, TypeOK
  <2>1. /\ pc' = [pc EXCEPT ![c] = "answered"] /\ status' = [status EXCEPT ![c] = 404]
        /\ UNCHANGED <<signed, sent, left, body, endpoint, error, reply>>
    BY <1>1 DEF NotFound
  <2>2. TypeOK'
    BY <2>1
  <2>3. pc'[c] = "answered" /\ status'[c] = 404
    BY <2>1
  <2>4. Received(c)' /\ Answered(c)'
    BY <2>3 DEF Received, Answered
  <2>. QED
    BY <2>1, <2>2, <2>4, OneConnection
<1>2. ASSUME NEW head \in RequestHead, NEW n \in Lengths, onRequest(c, head, Garbled, n)
      PROVE  IInv'
  BY <1>2, OnRequestStep
<1>3. ASSUME NEW doc \in SigningDocs, onRequest(c, GoodHead("signing", 1), doc, 1)
      PROVE  IInv'
  <2>1. GoodHead("signing", 1).path = "signing"
    BY DEF GoodHead
  <2>. QED
    BY <1>3, <2>1, OnRequestStep
<1>4. ASSUME NEW doc \in VerifyingDocs(signed, now), Possible(doc),
             onRequest(c, GoodHead("verification", 1), doc, 1)
      PROVE  IInv'
  <2>1. GoodHead("verification", 1).path # "signing"
    BY DEF GoodHead
  <2>. QED
    BY <1>4, <2>1, OnRequestStep
<1>. QED
  BY <1>1, <1>2, <1>3, <1>4 DEF Arrival

\* A refused request signs nothing.
LEMMA ReplyErrorStep ==
  ASSUME IInv, NEW c \in Conns, ReplyError(c)
  PROVE  IInv'
<1>. USE DEF process, request, IInv, TypeOK
<1>1. FinalError(c) \in DOMAIN ErrorClass
  <2>1. ASSUME NEW kind, NEW doc PROVE fromJson(kind, doc) \in DOMAIN ErrorClass \cup {Nothing, Crash}
    BY DEF fromJson, ErrorClass
  <2>. QED
    BY <2>1 DEF ReplyError, FinalError
<1>2. http_status(FinalError(c)) # 200
  BY <1>1 DEF http_status, ErrorClass
<1>3. /\ pc' = [pc EXCEPT ![c] = "answered"]
      /\ status' = [status EXCEPT ![c] = http_status(FinalError(c))]
      /\ reply' = [reply EXCEPT ![c] = toBody(FinalError(c))]
      /\ UNCHANGED <<signed, sent, left, body, endpoint, error>>
  BY DEF ReplyError, Respond
<1>4. TypeOK'
  BY <1>3
<1>5. pc'[c] = "answered" /\ status'[c] # 200
  BY <1>2, <1>3
<1>6. Received(c)' /\ Answered(c)'
  BY <1>5 DEF Received, Answered
<1>7. \A d \in Conns \ {c} :
        /\ pc'[d] = pc[d] /\ sent'[d] = sent[d] /\ endpoint'[d] = endpoint[d]
        /\ status'[d] = status[d] /\ reply'[d] = reply[d]
  BY <1>3
<1>. QED
  BY <1>3, <1>4, <1>6, <1>7, OneConnection

\* A body that is read without an error is the document that was sent.
LEMMA ReadWell ==
  ASSUME NEW c \in Conns, FinalError(c) = Nothing
  PROVE  fromJson(endpoint[c], sent[c]) = Nothing /\ sent[c] # Garbled
<1>0. Nothing # "SVC4006" /\ Nothing # Crash
  BY ErrorAssumption DEF ErrorClass
<1>1. \A kind : fromJson(kind, Garbled) # Nothing
  BY <1>0 DEF fromJson
<1>2. fromJson(endpoint[c], Text(c)) = Nothing
  BY DEF FinalError
<1>. QED
  BY <1>1, <1>2 DEF Text

\* What is signed was accepted.
LEMMA SigningStep ==
  ASSUME IInv, NEW c \in Conns, doSigning(c)
  PROVE  IInv'
<1>. USE DEF process, request, IInv, TypeOK
<1>1. /\ pc[c] = "body" /\ endpoint[c] = "SIGN" /\ FinalError(c) = Nothing
      /\ UNCHANGED <<sent, left, body, endpoint, error>>
  BY DEF doSigning, Complete
<1>2. fromJson("SIGN", sent[c]) = Nothing /\ sent[c] \in SigningDocs
  BY <1>1, ReadWell DEF Received
<1>3. Accepted(sent[c].msg)
  BY <1>2, GoodSigning, StirAssumption DEF Accepted
<1>4. CASE Respond(c, 200, makePassport(sent[c].msg)) /\ signed' = signed \cup {sent[c].msg}
  <2>1. /\ pc' = [pc EXCEPT ![c] = "answered"] /\ status' = [status EXCEPT ![c] = 200]
        /\ reply' = [reply EXCEPT ![c] = makePassport(sent[c].msg)]
    BY <1>4 DEF Respond
  <2>2. TypeOK'
    BY <1>1, <2>1
  <2>3. Received(c)' /\ Answered(c)'
    BY <1>1, <2>1 DEF Received, Answered
  <2>4. signed \subseteq signed' /\ \A r \in signed' : Accepted(r)
    BY <1>3, <1>4
  <2>5. \A d \in Conns \ {c} :
          /\ pc'[d] = pc[d] /\ sent'[d] = sent[d] /\ endpoint'[d] = endpoint[d]
          /\ status'[d] = status[d] /\ reply'[d] = reply[d]
    BY <1>1, <2>1
  <2>. QED
    BY <2>2, <2>3, <2>4, <2>5, OneConnection
<1>5. CASE UNCHANGED <<pc, status, reply, signed>>
  <2>1. TypeOK'
    BY <1>1, <1>5
  <2>2. \A d \in Conns : Received(d)' /\ Answered(d)'
    BY <1>1, <1>5, Idle
  <2>. QED
    BY <1>5, <2>1, <2>2
<1>. QED
  BY <1>4, <1>5 DEF doSigning, Terminate

\* A verdict is that of verifyPassport.
LEMMA VerificationStep ==
  ASSUME IInv, NEW c \in Conns, doVerification(c)
  PROVE  IInv'
<1>. USE DEF process, request, IInv, TypeOK
<1>1. /\ pc[c] = "body" /\ endpoint[c] = "VERIFY" /\ FinalError(c) = Nothing
      /\ UNCHANGED <<sent, left, body, endpoint, error>>
  BY DEF doVerification, Complete
<1>2. fromJson("VERIFY", sent[c]) = Nothing /\ Possible(sent[c])
  BY <1>1, ReadWell DEF Received
<1>3. \/ UNCHANGED <<pc, status, reply, signed>>
      \/ /\ Respond(c, 200, [verdict |-> verifyPassport(sent[c].msg, now), at |-> now])
         /\ UNCHANGED signed /\ verifyPassport(sent[c].msg, now) # Throws
  BY DEF doVerification, Terminate
<1>4. CASE /\ Respond(c, 200, [verdict |-> verifyPassport(sent[c].msg, now), at |-> now])
           /\ UNCHANGED signed /\ verifyPassport(sent[c].msg, now) # Throws
  <2>1. /\ pc' = [pc EXCEPT ![c] = "answered"] /\ status' = [status EXCEPT ![c] = 200]
        /\ reply' = [reply EXCEPT ![c] =
                       [verdict |-> verifyPassport(sent[c].msg, now), at |-> now]]
    BY <1>4 DEF Respond
  <2>2. TypeOK'
    BY <1>1, <2>1
  <2>3. pc'[c] = "answered" /\ sent'[c] = sent[c]
        /\ reply'[c] = [verdict |-> verifyPassport(sent[c].msg, now), at |-> now]
    BY <1>1, <2>1
  <2>4. PICK doc, t : doc = sent[c] /\ doc = sent'[c] /\ t = now
    BY <2>3
  <2>5. reply'[c].verdict = verifyPassport(doc.msg, t) /\ reply'[c].at = t
    BY <2>3, <2>4
  <2>a. reply'[c].verdict # Throws
    BY <1>4, <2>3
  <2>6. Possible(doc)' /\ fromJson("VERIFY", doc) = Nothing
    BY <1>2, <1>4, <2>4, PossibleStays
  <2>7. Answered(c)'
    <3>1. Possible(sent[c])'
      BY <2>4, <2>6, Zenon DEF Possible
    <3>2. fromJson("VERIFY", sent'[c]) = Nothing
      BY <2>4, <2>6
    <3>3. reply'[c].verdict = verifyPassport(sent'[c].msg, reply'[c].at)
      BY <2>4, <2>5
    <3>. QED
      BY <2>a, <3>1, <3>2, <3>3, Zenon DEF Answered
  <2>8. Received(c)'
    BY <2>3 DEF Received
  <2>9. \A d \in Conns \ {c} :
          /\ pc'[d] = pc[d] /\ sent'[d] = sent[d] /\ endpoint'[d] = endpoint[d]
          /\ status'[d] = status[d] /\ reply'[d] = reply[d]
    BY <1>1, <2>1
  <2>. QED
    BY <1>4, <2>2, <2>7, <2>8, <2>9, OneConnection
<1>5. CASE UNCHANGED <<pc, status, reply, signed>>
  <2>1. TypeOK'
    BY <1>1, <1>5
  <2>2. \A d \in Conns : Received(d)' /\ Answered(d)'
    BY <1>1, <1>5, Idle
  <2>. QED
    BY <1>5, <2>1, <2>2
<1>. QED
  BY <1>3, <1>4, <1>5

\* A process that crashes answers nothing.
LEMMA CrashStep ==
  ASSUME IInv, NEW c \in Conns, CrashOnError(c)
  PROVE  IInv'
<1>. USE DEF process, request, IInv, TypeOK
<1>1. UNCHANGED <<sent, left, body, endpoint, error, pc, status, reply, signed>>
  BY DEF CrashOnError, Terminate
<1>2. TypeOK'
  BY <1>1
<1>3. \A d \in Conns : Received(d)' /\ Answered(d)'
  BY <1>1, Idle
<1>. QED
  BY <1>1, <1>2, <1>3

\* A finished connection is forgotten.
LEMMA ForgetStep ==
  ASSUME IInv, NEW c \in Conns, Forget(c)
  PROVE  IInv'
<1>. USE DEF process, IInv, TypeOK
<1>1. /\ pc' = [pc EXCEPT ![c] = "none"] /\ sent' = [sent EXCEPT ![c] = Nothing]
      /\ left' = [left EXCEPT ![c] = 0] /\ body' = [body EXCEPT ![c] = 0]
      /\ endpoint' = [endpoint EXCEPT ![c] = "SIGN"] /\ error' = [error EXCEPT ![c] = Nothing]
      /\ status' = [status EXCEPT ![c] = 0] /\ reply' = [reply EXCEPT ![c] = Nothing]
      /\ UNCHANGED signed
  BY DEF Forget
<1>2. TypeOK'
  BY <1>1
<1>3. pc'[c] = "none"
  BY <1>1
<1>4. Received(c)' /\ Answered(c)'
  BY <1>3 DEF Received, Answered
<1>5. \A d \in Conns \ {c} :
        /\ pc'[d] = pc[d] /\ sent'[d] = sent[d] /\ endpoint'[d] = endpoint[d]
        /\ status'[d] = status[d] /\ reply'[d] = reply[d]
  BY <1>1
<1>. QED
  BY <1>1, <1>2, <1>4, <1>5, OneConnection

\* Steps in which no answer, document or endpoint changes.
LEMMA QuietStep ==
  ASSUME IInv, TypeOK', signed \subseteq signed', \A r \in signed' : Accepted(r),
         UNCHANGED <<pc, sent, endpoint, status, reply>>
  PROVE  IInv'
<1>1. \A d \in Conns : Received(d)' /\ Answered(d)'
  BY Idle DEF IInv
<1>. QED
  BY <1>1 DEF IInv

\* The service keeps its inductive invariant: what it has signed is well formed,
\* and a verdict is that of verifyPassport on a document that can exist.
THEOREM Invariance == Spec => []IInv
<1>1. IInv /\ [Next]_vars => IInv'
  <2>. SUFFICES ASSUME IInv, [Next]_vars PROVE IInv'
    OBVIOUS
  <2>. USE DEF process, request
  <2>1. CASE Tick \/ Over \/ UNCHANGED vars
    <3>1. UNCHANGED <<signed, pc, sent, left, body, endpoint, error, status, reply>>
      BY <2>1 DEF Tick, Over, vars
    <3>2. TypeOK'
      BY <3>1 DEF IInv, TypeOK
    <3>. QED
      BY <3>1, <3>2, QuietStep DEF IInv
  <2>2. CASE Sandbox
    <3>1. /\ UNCHANGED <<pc, sent, left, body, endpoint, error, status, reply>>
          /\ signed' = signed \cup {SandboxRequest}
      BY <2>2 DEF Sandbox
    <3>2. TypeOK'
      BY <3>1 DEF IInv, TypeOK
    <3>3. Accepted(SandboxRequest)
      BY StirAssumption DEF Accepted, SandboxRequest, Plain
    <3>4. \A r \in signed' : Accepted(r)
      BY <3>1, <3>3 DEF IInv
    <3>. QED
      BY <3>1, <3>2, <3>4, QuietStep
  <2>3. ASSUME NEW c \in Conns, onBody(c) PROVE IInv'
    <3>1. /\ UNCHANGED <<signed, pc, sent, endpoint, error, status, reply>>
          /\ left' = [left EXCEPT ![c] = @ - 1]
          /\ body' = [body EXCEPT ![c] = IF error[c] = Nothing THEN @ + 1 ELSE @]
      BY <2>3 DEF onBody
    <3>2. TypeOK'
      BY <3>1 DEF IInv, TypeOK
    <3>. QED
      BY <3>1, <3>2, QuietStep DEF IInv
  <2>. QED
    BY <2>1, <2>2, <2>3, ArrivalStep, ReplyErrorStep, CrashStep, SigningStep, VerificationStep, ForgetStep
    DEF Next, onEOM
<1>. QED
  BY <1>1, InitInv, PTL DEF Spec

\* verifyPassport passes a call only if the service has signed a token that speaks
\* of this very call, and passes every token for a request with a UUID and no more
\* for its call while it is fresh, whatever is signed or arrives meanwhile.
THEOREM PassedCallsWereSigned == Spec => []PassedIffSigned
<1>1. IInv => PassedIffSigned
  <2>. SUFFICES ASSUME IInv, NEW c \in Conns,
                       pc[c] = "answered", status[c] = 200, endpoint[c] = "VERIFY"
                PROVE  LET doc == sent[c].msg
                           passed == reply[c].verdict = Passed
                           matches(r) == Matches(doc, r, reply[c].at)
                       IN  /\ passed => \E r \in signed : matches(r)
                           /\ \A r \in signed :
                                (r.origid = Plain /\ matches(r)
                                   /\ doc.identity = makePassport(r)) => passed
    BY DEF PassedIffSigned
  <2>. DEFINE doc == sent[c].msg
              at == reply[c].at
  <2>1. /\ fromJson("VERIFY", sent[c]) = Nothing /\ Possible(sent[c])
        /\ reply[c].verdict = verifyPassport(doc, at) /\ reply[c].verdict # Throws
    BY DEF IInv, Answered
  <2>2. /\ sent[c] \notin NoMessage /\ sent[c].wrapper = "verificationRequest"
        /\ doc.to \notin {NoClaim, BadType} /\ doc.identity \notin {NoClaim, BadType}
        /\ doc.from \in ValidTNs
    BY <2>1, GoodVerification
  <2>3. /\ doc.to \in Seq(Nat)
        /\ Authentic(doc.identity) =>
             \E call \in signed : makePassport(call).signature = doc.identity.signature
    BY <2>1, <2>2 DEF Possible
  <2>4. ASSUME verifyPassport(doc, at) = Passed PROVE \E r \in signed : Matches(doc, r, at)
    <3>. DEFINE p == doc.identity.payload
    <3>1. /\ Claims(p) \notin Undecoded
          /\ Fresh(doc.time, at) /\ Fresh(Claims(p).iat, doc.time)
          /\ Claims(p).orig = doc.from /\ Claims(p).dest = doc.to
          /\ Authentic(doc.identity)
      BY <2>4, PassedMeans
    <3>2. PICK r \in signed : makePassport(r).signature = doc.identity.signature
      BY <2>3, <3>1
    <3>3. doc.identity.signature.payload = p
      BY <3>1 DEF Authentic, Signed
    <3>4. /\ p.iat = r.iat /\ p.orig = r.orig /\ p.dest = Canonical(r.dest)
          /\ p.origid = r.origid
      BY <3>2, <3>3 DEF makePassport, Signed
    <3>5. p \notin Undecoded /\ r.origid # NoClaim
      BY <3>1 DEF Claims, IInv, Accepted
    <3>6. Claims(p) = IF r.origid.rest = NoPart THEN p ELSE r.origid.rest
      BY <3>4, <3>5 DEF Claims
    <3>7. /\ r.origid.rest \notin Undecoded \ {NoPart}
          /\ Claims(p).orig = Speaks(r).orig /\ Claims(p).dest = Speaks(r).dest
          /\ Claims(p).iat = Speaks(r).iat
      <4>1. CASE r.origid.rest = NoPart
        BY <3>4, <3>6, <4>1, Order DEF Speaks
      <4>2. CASE r.origid.rest # NoPart
        BY <3>1, <3>6, <4>2 DEF Speaks
      <4>. QED
        BY <4>1, <4>2
    <3>8. Matches(doc, r, at)
      BY <3>1, <3>7, Zenon DEF Matches
    <3>. QED
      BY <3>8
  <2>5. ASSUME NEW r \in signed, r.origid = Plain, Matches(doc, r, at),
               doc.identity = makePassport(r)
        PROVE  verifyPassport(doc, at) = Passed
    <3>1. Accepted(r)
      BY DEF IInv
    <3>. QED
      BY <2>1, <2>2, <2>3, <2>5, <3>1, TokensPass DEF Throws, Passed, Verdict
  <2>. QED
    BY <2>1, <2>4, <2>5
<1>. QED
  BY <1>1, Invariance, PTL

=============================================================================
