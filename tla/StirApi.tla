------------------------------ MODULE StirApi ------------------------------
(***************************************************************************)
(* The STIR/SHAKEN service (src/stir): an HTTP server with one handler per *)
(* request (StirApiHandler.cpp) that reads a JSON document                 *)
(* (StirApiTypes.cpp), signs or verifies it (Passport.cpp) and answers.    *)
(* Handlers share nothing but the process, which dies if an exception      *)
(* leaves a callback or a key file cannot be read, and the clock.          *)
(***************************************************************************)
EXTENDS Passport, FiniteSets, SequencesExt

CONSTANTS
  Conns,           \* connections
  ValidTNs,        \* telephone numbers of characters that validateTN accepts
  SigningDocs,     \* bodies posted to be signed
  VerifyingDocs(_, _), \* bodies to be verified, for what was signed and the clock
  Lengths,         \* lengths of bodies, in pieces
  BodyLimit,       \* FLAGS_stir_api_body_limit, in pieces
  LengthWidth,     \* 2^32, in pieces: what uint32_t does not hold
  NoLength,        \* no Content-Length header
  BadType,         \* a parameter whose value has the wrong type
  Nothing,         \* no error, no answer
  StartTime, MaxTime, \* bounds: the clock
  MaxRequests      \* bound: requests

\* The payloads of the tokens for requests with a UUID and no more.
Payload ==
  [attest : {"A", "B", "C"}, dest : Seq(Nat), iat : Nat, orig : Nat, origid : {Plain}]

\* Bodies that are no JSON objects.
NoMessage == {Garbled, BadNumber, Scalar}

\* What stands for a part, claim or parameter that is not there is nothing else.
\* A parameter "iat" is a uint64_t.
ASSUME StirAssumption ==
  /\ Lengths \subseteq Nat /\ BodyLimit \in Nat /\ LengthWidth \in Nat
  /\ StartTime \in Nat /\ MaxTime \in Nat /\ MaxRequests \in Nat
  /\ NoPart # Cert
  /\ NoClaim \notin Nat \cup {"A", "B", "C", Plain, "ES256", "shaken", "passport", Cert}
  /\ NotInt \notin Nat /\ Scalar \notin Nat \cup Seq(Nat) /\ ValidTNs \subseteq Nat
  /\ Undecoded \cap (Payload \cup {PassportHeader}) = {}
  /\ \A doc \in SigningDocs \ NoMessage :
       doc.wrapper = "signingRequest" => doc.msg.iat \in Nat \cup {NoClaim, BadType}

VARIABLES
  now,       \* the clock
  alive,     \* the process runs
  keys,      \* the key files are there
  signed,    \* what was signed with the service's key (history)
  requests,  \* requests so far
  pc,        \* pc[c]: what the handler of c waits for
  sent,      \* sent[c]: the document that arrives on c
  left,      \* left[c]: pieces of it that have not arrived
  body,      \* body[c]: pieces in body_
  endpoint,  \* endpoint[c]: endpoint_
  error,     \* error[c]: error_
  status,    \* status[c]: status of the answer, 0 before
  reply      \* reply[c]: what the answer says

process == <<now, alive, keys, signed>>
request == <<sent, left, body, endpoint, error>>
vars == <<process, requests, pc, request, status, reply>>

Init ==
  /\ now = StartTime /\ alive = TRUE /\ keys \in BOOLEAN /\ signed = {}
  /\ requests = 0
  /\ pc = [c \in Conns |-> "none"]
  /\ sent = [c \in Conns |-> Nothing]
  /\ left = [c \in Conns |-> 0] /\ body = [c \in Conns |-> 0]
  /\ endpoint = [c \in Conns |-> "SIGN"]
  /\ error = [c \in Conns |-> Nothing]
  /\ status = [c \in Conns |-> 0] /\ reply = [c \in Conns |-> Nothing]

Tick ==
  /\ now < MaxTime
  /\ now' = now + 1
  /\ UNCHANGED <<alive, keys, signed, requests, pc, request, status, reply>>

\* The tool of Sandbox.cpp signs one old call with the same key.
SandboxRequest ==
  [attest |-> "A", dest |-> <<2>>, orig |-> 1, iat |-> 0, origid |-> Plain]

Sandbox ==
  /\ keys /\ signed' = signed \cup {SandboxRequest}
  /\ UNCHANGED <<now, alive, keys, requests, pc, request, status, reply>>

-----------------------------------------------------------------------------
(* A request's headers.                                                    *)

ErrorClass ==
  [SVC4001 |-> 400, SVC4002 |-> 406, SVC4003 |-> 404, SVC4004 |-> 415, SVC4005 |-> 400,
   SVC4006 |-> 400, SVC4007 |-> 411, POL4050 |-> 405]

\* putVariable() of a null pointer, which is no answer.
Crash == "crash"

ASSUME ErrorAssumption == Nothing \notin DOMAIN ErrorClass \cup {Crash}

http_status(err) == ErrorClass[err]

\* StirApiError::toBody: the answer tells faults of the request from policy.
toBody(err) ==
  [exception |-> IF err = "POL4050" THEN "policyException" ELSE "serviceException", messageId |-> err]

RequestHead == [method : {"POST", "other"}, path : {"signing", "verification", "other"},
                json : BOOLEAN, accept : BOOLEAN, length : Lengths \cup {NoLength}]

\* tryTo<uint32_t>: a length it does not hold is taken for 0.
ContentLength(length) == IF length >= LengthWidth THEN 0 ELSE length

\* StirApiHeaderVisitor: an Accept header that is not met is reported only if
\* there is nothing else to report.
finalize(head) ==
  IF ~head.json THEN "SVC4004"
  ELSE IF head.length = NoLength THEN "SVC4007"
  ELSE IF ContentLength(head.length) >= BodyLimit THEN "SVC4006"
  ELSE IF ~head.accept THEN "SVC4002"
  ELSE Nothing

\* StirApiHandler::onRequest
HeadError(head) ==
  IF head.method # "POST" THEN "POL4050"
  ELSE IF head.path = "other" THEN "SVC4003"
  ELSE finalize(head)

\* A path below /stir/v1/ gets a StirApiHandler; doc arrives in n pieces.
onRequest(c, head, doc, n) ==
  /\ alive /\ pc[c] = "none" /\ requests < MaxRequests
  /\ head.length \in {NoLength, n}
  /\ requests' = requests + 1
  /\ pc' = [pc EXCEPT ![c] = "body"]
  /\ sent' = [sent EXCEPT ![c] = doc]
  /\ left' = [left EXCEPT ![c] = n]
  /\ body' = [body EXCEPT ![c] = 0]
  /\ endpoint' = [endpoint EXCEPT ![c] = IF head.path = "signing" THEN "SIGN" ELSE "VERIFY"]
  /\ error' = [error EXCEPT ![c] = HeadError(head)]
  /\ UNCHANGED <<process, status, reply>>

\* Any other path: HttpNotFound's DirectResponseHandler.
NotFound(c) ==
  /\ alive /\ pc[c] = "none" /\ requests < MaxRequests
  /\ requests' = requests + 1
  /\ pc' = [pc EXCEPT ![c] = "answered"]
  /\ status' = [status EXCEPT ![c] = 404]
  /\ UNCHANGED <<process, request, reply>>

\* Nothing limits a body that gets here.
onBody(c) ==
  /\ alive /\ pc[c] = "body" /\ left[c] > 0
  /\ left' = [left EXCEPT ![c] = @ - 1]
  /\ body' = [body EXCEPT ![c] = IF error[c] = Nothing THEN @ + 1 ELSE @]
  /\ UNCHANGED <<process, requests, pc, sent, endpoint, error, status, reply>>

-----------------------------------------------------------------------------
(* The document.                                                           *)

Wrapper == [SIGN |-> "signingRequest", VERIFY |-> "verificationRequest"]

\* The parameters in the order in which visit() reads them.
Parameters ==
  [SIGN |-> <<"attest", "dest", "orig", "origid", "iat">>,
   VERIFY |-> <<"identity", "time", "from", "to">>]

validateTN(tn) == tn \in ValidTNs

Invalid(kind, m) ==
  \/ kind = "SIGN" /\ \/ m.attest \notin {"A", "B", "C"} \/ ~m.origid.uuid
                      \/ m.dest = <<>> \/ ~validateTN(m.orig)
                      \/ \E tn \in ToSet(m.dest) : ~validateTN(tn)
  \/ kind = "VERIFY" /\ \/ m.to = <<>> \/ ~validateTN(m.from)
                        \/ \E tn \in ToSet(m.to) : ~validateTN(tn)

\* StirApiType::fromJson of the body_ of kind's endpoint: an error, or Nothing.
\* What is wrong first decides: visit() stops there.  A number that parseJson
\* cannot convert is reported with the name of the parameter it belongs to, which
\* is not known yet.
fromJson(kind, doc) ==
  IF doc = BadNumber THEN Crash
  ELSE IF doc = Garbled THEN "SVC4006"
  ELSE IF doc = Scalar THEN "SVC4005"
  ELSE IF doc.wrapper # Wrapper[kind] THEN "SVC4001"
  ELSE LET value(i) == doc.msg[Parameters[kind][i]]
           wrong == {i \in DOMAIN Parameters[kind] : value(i) \in {NoClaim, BadType}}
       IN  IF wrong # {} THEN IF value(Min(wrong)) = NoClaim THEN "SVC4001" ELSE "SVC4005"
           ELSE IF Invalid(kind, doc.msg) THEN "SVC4005" ELSE Nothing

\* An empty body is no JSON.
Text(c) == IF body[c] = 0 THEN Garbled ELSE sent[c]

-----------------------------------------------------------------------------
(* The end of a request.                                                   *)

Respond(c, code, what) ==
  /\ status' = [status EXCEPT ![c] = code]
  /\ reply' = [reply EXCEPT ![c] = what]
  /\ pc' = [pc EXCEPT ![c] = "answered"]

\* assert(pemfile), a null pointer, or an exception that nothing catches: onEOM is
\* noexcept.
Terminate == alive' = FALSE /\ UNCHANGED <<pc, status, reply, signed>>

\* The error of onRequest, or else of fromJson.
FinalError(c) == IF error[c] # Nothing THEN error[c] ELSE fromJson(endpoint[c], Text(c))

\* The last octet has arrived: onEOM is due.
Complete(c) == pc[c] = "body" /\ left[c] = 0

\* Mutant: an error found before the body is not reported at its end.
ReplyError_Late(c) ==
  /\ alive /\ Complete(c) /\ error[c] = Nothing /\ FinalError(c) \notin {Nothing, Crash}
  /\ Respond(c, http_status(FinalError(c)), toBody(FinalError(c)))
  /\ UNCHANGED <<process, requests, request>>

ReplyError(c) ==
  /\ alive /\ Complete(c) /\ FinalError(c) \notin {Nothing, Crash}
  /\ Respond(c, http_status(FinalError(c)), toBody(FinalError(c)))
  /\ UNCHANGED <<process, requests, request>>

CrashOnError(c) ==
  /\ alive /\ Complete(c) /\ FinalError(c) = Crash
  /\ Terminate
  /\ UNCHANGED <<now, keys, requests, request>>

doSigning(c) ==
  /\ alive /\ Complete(c) /\ FinalError(c) = Nothing /\ endpoint[c] = "SIGN"
  /\ \/ /\ keys
        /\ signed' = signed \cup {sent[c].msg}
        /\ Respond(c, 200, makePassport(sent[c].msg))
        /\ UNCHANGED alive
     \/ ~keys /\ Terminate
  /\ UNCHANGED <<now, keys, requests, request>>

\* The public key is read when nothing is left to check but the signature;
\* an assert() tests that its file is there.
NoPublicKey(verdict) == verdict \in {Passed, BadSignature} /\ ~keys

doVerification(c) ==
  /\ alive /\ Complete(c) /\ FinalError(c) = Nothing /\ endpoint[c] = "VERIFY"
  /\ LET verdict == verifyPassport(sent[c].msg, now)
         dies == verdict = Throws \/ NoPublicKey(verdict)
     IN  \/ dies /\ Terminate
         \/ ~dies /\ Respond(c, 200, [verdict |-> verdict, at |-> now]) /\ UNCHANGED <<alive, signed>>
  /\ UNCHANGED <<now, keys, requests, request>>

\* requestComplete(), or onError() before that, deletes the handler.
Forget(c) ==
  /\ alive
  /\ \/ pc[c] = "answered"
     \/ pc[c] = "body" /\ left[c] > 0
  /\ pc' = [pc EXCEPT ![c] = "none"]
  /\ sent' = [sent EXCEPT ![c] = Nothing]
  /\ left' = [left EXCEPT ![c] = 0] /\ body' = [body EXCEPT ![c] = 0]
  /\ endpoint' = [endpoint EXCEPT ![c] = "SIGN"]
  /\ error' = [error EXCEPT ![c] = Nothing]
  /\ status' = [status EXCEPT ![c] = 0] /\ reply' = [reply EXCEPT ![c] = Nothing]
  /\ UNCHANGED <<process, requests>>

-----------------------------------------------------------------------------
GoodHead(path, n) ==
  [method |-> "POST", path |-> path, json |-> TRUE, accept |-> TRUE, length |-> n]

\* What a client can post to be verified.  Only the service has its key: a signature
\* that verifies is one that it has made.
Possible(doc) ==
  (doc \notin NoMessage /\ doc.wrapper = "verificationRequest") =>
    /\ doc.msg.time \in Nat \cup {NoClaim, BadType}
    /\ doc.msg.to \in Seq(Nat) \cup {NoClaim, BadType}
    /\ doc.msg.identity \notin {NoClaim, BadType} /\ Authentic(doc.msg.identity) =>
         \E call \in signed : makePassport(call).signature = doc.msg.identity.signature

\* Heads of all kinds with a document that is no JSON, and documents with good heads.
Arrival(c) ==
  \/ NotFound(c)
  \/ \E head \in RequestHead, n \in Lengths : onRequest(c, head, Garbled, n)
  \/ \E doc \in SigningDocs : onRequest(c, GoodHead("signing", 1), doc, 1)
  \/ \E doc \in VerifyingDocs(signed, now) :
       Possible(doc) /\ onRequest(c, GoodHead("verification", 1), doc, 1)

onEOM(c) == ReplyError(c) \/ CrashOnError(c) \/ doSigning(c) \/ doVerification(c)

\* The process has died, or all requests of the bounded run are over.
Over == (~alive \/ requests = MaxRequests) /\ UNCHANGED vars

Next ==
  \/ Tick \/ Sandbox \/ Over
  \/ \E c \in Conns : Arrival(c) \/ onBody(c) \/ onEOM(c) \/ Forget(c)

Spec == Init /\ [][Next]_vars

\* The event loop of a connection runs the callback that is due.
FairSpec == Spec /\ \A c \in Conns : WF_vars(onEOM(c))

-----------------------------------------------------------------------------
(* Properties.                                                             *)

Ascending(dest) == SortSeq(dest, <)

\* The call that a token made for r speaks of: that of r, unless the origid of r has
\* a rest that makes it read otherwise.
Speaks(r) ==
  IF r.origid.rest = NoPart
  THEN [orig |-> r.orig, dest |-> Ascending(r.dest), iat |-> r.iat]
  ELSE r.origid.rest

\* doc reports the call that a token made for r speaks of, in time for an answer
\* given at at.
Matches(doc, r, at) ==
  /\ r.origid.rest \notin Undecoded \ {NoPart}
  /\ doc.from = Speaks(r).orig /\ doc.to = Speaks(r).dest
  /\ Fresh(Speaks(r).iat, doc.time) /\ Fresh(doc.time, at)

\* verifyPassport validates a caller only if the service has signed a token that
\* speaks of this very call: no change to what is signed, no token of another
\* call and no token that is out of date passes.  (The parameters behind
\* the token are not signed.)  For a request whose origid is a UUID and no more that
\* is the call that it asked to sign; the text behind a NUL in an origid is not
\* validated.  And the token of such a request passes for its call while it is fresh,
\* in whatever order its destinations were given to be signed.
PassedIffSigned ==
  \A c \in Conns : (pc[c] = "answered" /\ status[c] = 200 /\ endpoint[c] = "VERIFY") =>
    LET doc == sent[c].msg
        passed == reply[c].verdict = Passed
        matches(r) == Matches(doc, r, reply[c].at)
    IN  /\ passed => \E r \in signed : matches(r)
        /\ \A r \in signed :
             (r.origid = Plain /\ matches(r) /\ doc.identity = makePassport(r)) => passed

\* The document on c holds what the service does not survive: a number that
\* parseJson cannot convert, or a caller or destination that is no object.
Fatal(c) ==
  /\ Complete(c) /\ error[c] = Nothing
  /\ \/ Text(c) = BadNumber
     \/ /\ FinalError(c) = Nothing /\ endpoint[c] = "VERIFY"
        /\ LET id == sent[c].msg.identity
               claims == Claims(id.payload)
           IN  \/ id.header = BadNumber \/ Unconvertible(claims)
               \/ claims \notin Undecoded /\ Scalar \in {claims.orig, claims.dest}

DiedOfIt == ~alive /\ (~keys \/ \E c \in Conns : Fatal(c))

\* A request that has arrived completely is answered, unless the process has
\* died, of missing key files or of such a document: onEOM is noexcept, and nothing
\* catches what verifyPassport throws.  An "iat" of 2^63 or more in a token of the
\* service's own is such a number; a caller without "tn" is answered.
RequestsEnd == \A c \in Conns : Complete(c) ~> (pc[c] = "answered" \/ DiedOfIt)

=============================================================================
