------------------------- MODULE ApiHandler_proofs -------------------------
(***************************************************************************)
(* Proofs about ApiHandler for any queries, optional mappings, databases   *)
(* and limits: that a request gets one answer, with the status it          *)
(* deserves, that the lines of /target come from databases in service, and *)
(* that /reverse lists what starts with the prefixes asked for.            *)
(***************************************************************************)
EXTENDS ApiHandler, SequenceTheorems, FiniteSetTheorems, NaturalsInduction,
        WellFoundedInduction, TLAPS

-----------------------------------------------------------------------------
(* The inductive invariant.                                                *)

Param == Nat \cup {NONE} \cup [val : Nat, len : Nat]

\* The places where a handler has not answered yet.
Unanswered == {"idle", "made", "sample", "lookup", "get", "walk"}

TypeOK ==
  /\ store \in [Mappings -> Nat] /\ arrived \in [Mappings -> Nat]
  /\ req \in Requests
  /\ pc \in Unanswered \cup {"wait", "gone"}
  /\ kind \in {"none", "404", "503", "target", "reverse"}
  /\ need \in BOOLEAN /\ eom \in BOOLEAN
  /\ body \in Seq(Param) /\ rest \in Seq(Param)
  /\ column = [m \in Mappings |-> column[m]]
  /\ status \in {0, 200, 400, 404, 503} /\ responses \in Nat

\* The factory's choice.
Chosen ==
  /\ pc = "idle" <=> kind = "none"
  /\ kind = "target" => req.path = "/target" /\ arrived["us"] # 0 /\ arrived["ca"] # 0
  /\ kind = "reverse" => req.path = "/reverse" /\ arrived["us"] # 0 /\ arrived["ca"] # 0
  /\ pc \in {"sample", "lookup"} => kind = "target"
  /\ pc \in {"get", "walk"} => kind = "reverse"

\* An answer has been sent only where nothing else answers the request again.
Once ==
  /\ responses <= 1 /\ (status = 0 <=> responses = 0)
  /\ pc \in Unanswered => responses = 0
  /\ pc \in {"sample", "lookup"} => eom \/ ~need
  /\ (responses = 1 /\ ~eom) => kind \notin {"404", "503"} /\ ~(kind = "target" /\ need)
  /\ eom => rest = <<>>

\* A request to /target that is within the limits.
Admitted ==
  \/ req.method = "GET"
  \/ req.method = "POST" /\ req.form /\ Len(req.params) <= MaxQuery

\* What of a body has arrived and what has not are the query, as long as the
\* handler wants it.
Collected ==
  /\ pc \in {"idle", "made"} => ~eom /\ need /\ body = <<>>
  /\ pc = "made" => rest = IF req.method = "GET" THEN <<>> ELSE req.params
  /\ (pc = "wait" /\ kind = "target" /\ need /\ ~eom) =>
       /\ req.method = "POST" /\ req.form
       /\ body \o rest = req.params /\ Len(body) <= MaxQuery

Query ==
  /\ pc \in {"sample", "lookup"} => Admitted /\ pn = Numbers(req.params)
  /\ pc \in {"get", "walk"} => req.method = "GET"
  /\ status = 200 => \/ kind = "target" /\ Admitted
                     \/ kind = "reverse" /\ req.method = "GET"
  /\ status = 400 => \/ req.method = "other"
                     \/ kind = "target" /\ req.method = "POST" /\ ~Admitted

Forward == \A m \in Mappings : arrived[m] <= store[m]

\* A flag that is true stays true of the mapping, and one that is false was false
\* when the request came.
Flags ==
  /\ avail \subseteq ToSet(Optional) /\ \A m \in avail : store[m] # 0
  /\ pc = "sample" =>
       /\ todo \in Seq(ToSet(Optional))
       /\ \A m \in ToSet(Optional) : m \in avail \/ m \in ToSet(todo) \/ arrived[m] = 0
  /\ pc = "lookup" => \A m \in ToSet(Optional) : m \in avail \/ arrived[m] = 0

\* The column of m is what one database in service since answers.
Filled(m) == \E v \in InService(m) : v # 0 /\ column[m] = Answers(m, v)

\* How far the lookups have come: carrier records are looked up when the routing
\* numbers are known.
Looked ==
  pc = "lookup" =>
    \/ todo = <<"us", "ca">> \o Optional
    \/ todo = <<"ca">> \o Optional /\ Filled("us")
    \/ /\ todo \in Seq(ToSet(Optional))
       /\ Filled("us") /\ Filled("ca")
       /\ \A m \in avail : Filled(m) \/ m \in ToSet(todo)

\* The lines of an answer.
TrueLines ==
  (kind = "target" /\ status = 200) =>
    /\ DOMAIN sent = DOMAIN Numbers(req.params)
    /\ \A i \in DOMAIN sent : sent[i].pn = Numbers(req.params)[i]
    /\ \E u \in InService("us"), c \in InService("ca") :
         \A i \in DOMAIN sent :
           LET n == sent[i].pn IN
           sent[i].rn = IF Db["us"][u][n] # NONE THEN Db["us"][u][n] ELSE Db["ca"][c][n]
    /\ \A m \in ToSet(Optional) : \E v \in InService(m) :
         \A i \in DOMAIN sent :
           LET key == IF m = "lerg" /\ sent[i].rn # NONE THEN sent[i].rn ELSE sent[i].pn
           IN  sent[i].extra[m] = IF v = 0 THEN NONE ELSE Db[m][v][key]

\* A row of a mapping: a phone number and its routing number.
Pair == Nat \X Nat

\* What /reverse works with.
ReverseType ==
  /\ snap \in [{"us", "ca"} -> Nat]
  /\ cursor \in Seq(Pair) /\ record \in Seq(Pair)
  /\ kind # "target" => sent \in Seq(Pair)
  /\ \A m \in {"us", "ca"} : store[m] <= Len(Db[m])

\* The mapping has been got: it was loaded, and in service since.
Got(m) == snap[m] \in InService(m) /\ snap[m] # 0

\* The mappings are got one after the other, and nothing is walked before.
Getting ==
  /\ pc \in {"idle", "made", "get"} => sent = <<>> /\ record = <<>> /\ cursor = <<>>
  /\ pc \in {"get", "walk"} => pn = Ranges(req.params)
  /\ pc = "get" => \/ todo = <<"us", "ca">>
                   \/ todo = <<"ca">> /\ Got("us")
                   \/ todo = <<>> /\ Got("us") /\ Got("ca")

\* The rows with prefix p in version v of mapping m, and those of every prefix.
Part(p, m, v) == RowsWith(m, v, {rn \in 0 .. (Power[Width] - 1) : HasPrefix(rn, p)})

Parts(good, u, c) == [i \in DOMAIN good |-> Part(good[i], "us", u) \o Part(good[i], "ca", c)]

\* What the first k walks of a request go through: two for every prefix.
Listed(good, u, c, k) ==
  FlattenSeq(SubSeq(Parts(good, u, c), 1, k \div 2))
    \o (IF k % 2 = 1 THEN Part(good[(k + 1) \div 2], "us", u) ELSE <<>>)

\* What was sent, what is to be sent next and what the cursor still has are the rows
\* of the walks begun; the others are still to do.
LeftAfter(ranges, k, left) == left = [j \in 1..(2 * Len(ranges) - k) |-> Walk(ranges, j + k)]

Begun(ranges, left, done, next, open, good, u, c) ==
  \E k \in 0..(2 * Len(ranges)) :
    /\ LeftAfter(ranges, k, left)
    /\ (done \o next) \o open = Listed(good, u, c, k)

Walking ==
  pc = "walk" =>
    /\ Got("us") /\ Got("ca")
    /\ Begun(pn, todo, sent, record, cursor, PrefixesOf(req.params), snap["us"], snap["ca"])

\* The rows of an answer.
TrueRows ==
  (kind = "reverse" /\ status = 200) =>
    \E u \in InService("us"), c \in InService("ca") :
      sent = FlattenSeq(Parts(PrefixesOf(req.params), u, c))

StatusInv == TypeOK /\ Chosen /\ Once /\ Collected /\ Query
LinesInv == Forward /\ Flags /\ Looked /\ TrueLines
ReverseInv == ReverseType /\ Getting /\ Walking /\ TrueRows
IInv == StatusInv /\ LinesInv /\ ReverseInv

-----------------------------------------------------------------------------
(* Facts about sequences and requests.                                     *)

\* The names of the mappings are different.
LEMMA MappingsFacts ==
  /\ ToSet(Optional) \subseteq Mappings /\ "us" \in Mappings /\ "ca" \in Mappings
  /\ "us" \notin ToSet(Optional) /\ "ca" \notin ToSet(Optional)
  /\ Optional \in Seq(ToSet(Optional))
<1>1. Optional \in Seq(STRING \ {"us", "ca"})
  BY ApiAssumption
<1>2. ToSet(Optional) \subseteq STRING \ {"us", "ca"}
  BY <1>1 DEF ToSet
<1>3. Optional \in Seq(ToSet(Optional))
  BY <1>1 DEF ToSet
<1>. QED
  BY <1>2, <1>3 DEF Mappings

\* Taking the head of a list of mappings leaves the others on it.
LEMMA TailOfList ==
  ASSUME NEW S, NEW s \in Seq(S), s # <<>>
  PROVE  /\ Tail(s) \in Seq(S) /\ Head(s) \in S
         /\ \A m \in ToSet(s) : m = Head(s) \/ m \in ToSet(Tail(s))
<1>1. Tail(s) \in Seq(S) /\ Head(s) \in S /\ Len(s) \in Nat \ {0}
  OBVIOUS
<1>2. ASSUME NEW i \in 1..Len(s), i # 1
      PROVE  s[i] \in ToSet(Tail(s))
  <2>1. i - 1 \in DOMAIN Tail(s) /\ Tail(s)[i - 1] = s[i]
    BY <1>1, <1>2
  <2>. QED
    BY <2>1 DEF ToSet
<1>3. ASSUME NEW m \in ToSet(s)
      PROVE  m = Head(s) \/ m \in ToSet(Tail(s))
  <2>1. PICK i \in DOMAIN s : s[i] = m
    BY DEF ToSet
  <2>2. CASE i = 1
    BY <1>1, <2>1, <2>2
  <2>3. CASE i # 1
    BY <1>1, <1>2, <2>1, <2>3
  <2>. QED
    BY <2>2, <2>3
<1>. QED
  BY <1>1, <1>3

\* The lists of lookups before US and before CA.
LEMMA FirstLookups ==
  /\ <<"us", "ca">> \o Optional # <<>> /\ <<"ca">> \o Optional # <<>>
  /\ Head(<<"us", "ca">> \o Optional) = "us"
  /\ Tail(<<"us", "ca">> \o Optional) = <<"ca">> \o Optional
  /\ Head(<<"ca">> \o Optional) = "ca"
  /\ Tail(<<"ca">> \o Optional) = Optional
<1>1. Optional \in Seq(STRING)
  BY ApiAssumption
<1>. QED
  BY <1>1

\* Concatenation regrouped: what has come and what is missing make the body.
LEMMA Regrouped ==
  ASSUME NEW S, NEW b \in Seq(S), NEW r \in Seq(S), NEW p \in Seq(S), NEW q \in Seq(S),
         p \o q = r
  PROVE  (b \o p) \o q = b \o r
<1>1. (b \o p) \o q = b \o (p \o q)
  BY ONLY b \in Seq(S), p \in Seq(S), q \in Seq(S)
<1>2. b \o (p \o q) = b \o r
  BY ONLY p \o q = r
<1>. QED
  BY ONLY <1>1, <1>2

\* A piece of the body moves from what is missing to what has come.
LEMMA Moved ==
  ASSUME NEW b \in Seq(Param), NEW r \in Seq(Param), NEW n \in 1..Len(r)
  PROVE  /\ SubSeq(r, 1, n) \in Seq(Param) /\ SubSeq(r, n + 1, Len(r)) \in Seq(Param)
         /\ b \o SubSeq(r, 1, n) \in Seq(Param)
         /\ (b \o SubSeq(r, 1, n)) \o SubSeq(r, n + 1, Len(r)) = b \o r
         /\ Len(b \o SubSeq(r, 1, n)) <= Len(b \o r)
<1>1. SubSeq(r, 1, n) \in Seq(Param) /\ SubSeq(r, n + 1, Len(r)) \in Seq(Param)
  OBVIOUS
<1>2. SubSeq(r, 1, n) \o SubSeq(r, n + 1, Len(r)) = r
  OBVIOUS
<1>3. (b \o SubSeq(r, 1, n)) \o SubSeq(r, n + 1, Len(r)) = b \o r
  <2>1. \A p, q \in Seq(Param) : p \o q = r => (b \o p) \o q = b \o r
    BY Regrouped, ZenonT(60)
  <2>. QED
    BY ONLY <1>1, <1>2, <2>1
<1>4. Len(SubSeq(r, 1, n)) = n
  OBVIOUS
<1>5. /\ b \o SubSeq(r, 1, n) \in Seq(Param)
      /\ Len(b \o SubSeq(r, 1, n)) = Len(b) + n /\ Len(b \o r) = Len(b) + Len(r)
  BY <1>1, <1>4
<1>6. Len(b \o SubSeq(r, 1, n)) <= Len(b \o r)
  BY <1>5
<1>. QED
  BY <1>1, <1>3, <1>5, <1>6, Zenon

\* What every request that can come looks like.
LEMMA RequestFacts ==
  ASSUME NEW r \in Requests
  PROVE  /\ r.path \in {"/target", "/reverse", "elsewhere"}
         /\ r.path # "/target" => r.method \in {"GET", "other"}
         /\ r.method \in {"GET", "POST", "other"}
         /\ r.form \in BOOLEAN /\ r.declared \in BOOLEAN
         /\ r.params \in Seq(Param) /\ Len(r.params) \in Nat
<1>1. CASE r \in [path : {"/target"}, method : {"GET", "POST", "other"}, form : BOOLEAN,
                  declared : BOOLEAN, params : TargetQueries]
  <2>1. r.params \in Seq(Nat \cup {NONE})
    BY <1>1, ApiAssumption
  <2>2. r.params \in Seq(Param) /\ Len(r.params) \in Nat
    BY <2>1 DEF Param
  <2>. QED
    BY <1>1, <2>2
<1>2. CASE r \in [path : {"/reverse"}, method : {"GET", "other"}, form : {TRUE},
                  declared : {TRUE}, params : ReverseQueries]
  <2>1. r.params \in Seq([val : Nat, len : Nat] \cup {NONE})
    BY <1>2, ApiAssumption
  <2>2. r.params \in Seq(Param) /\ Len(r.params) \in Nat
    BY <2>1 DEF Param
  <2>. QED
    BY <1>2, <2>2
<1>3. CASE r \in [path : {"elsewhere"}, method : {"GET"}, form : {TRUE}, declared : {TRUE},
                  params : {<<>>}]
  <2>1. r.params = <<>>
    BY <1>3
  <2>2. r.params \in Seq(Param) /\ Len(r.params) \in Nat
    BY <2>1
  <2>. QED
    BY <1>3, <2>2
<1>. QED
  BY <1>1, <1>2, <1>3 DEF Requests

-----------------------------------------------------------------------------
(* One answer, with the right status.                                      *)

\* Before a request comes nothing is answered.
LEMMA InitStatus == Init => StatusInv
<1>. SUFFICES ASSUME Init PROVE StatusInv
  OBVIOUS
<1>1. TypeOK
  <2>1. column = [m \in Mappings |-> column[m]] /\ store \in [Mappings -> Nat]
    BY DEF Init
  <2>2. <<>> \in Seq(Param)
    OBVIOUS
  <2>. QED
    BY <2>1, <2>2 DEF Init, TypeOK, Unanswered
<1>2. Chosen /\ Once /\ Query
  BY DEF Init, Chosen, Once, Query, Unanswered
<1>3. Collected
  BY DEF Init, Collected
<1>. QED
  BY <1>1, <1>2, <1>3 DEF StatusInv

\* What onBody does with the part of the body that it knows then.
LEMMA PieceArrives ==
  ASSUME TypeOK, NEW n \in 1..Len(rest), onBody(n)
  PROVE  \E all \in Seq(Param), more \in Seq(Param) :
           /\ rest' = more /\ all \o more = body \o rest /\ Len(all) <= Len(body \o rest)
           /\ \/ /\ kind = "target" /\ need /\ ~TooLong(all)
                 /\ body' = all /\ UNCHANGED <<need, status, responses>>
              \/ /\ kind = "target" /\ need /\ TooLong(all)
                 /\ need' = FALSE /\ body' = <<>> /\ respond(400)
              \/ ~(kind = "target" /\ need) /\ UNCHANGED <<need, body, status, responses>>
<1>. DEFINE all == body \o SubSeq(rest, 1, n)
            more == SubSeq(rest, n + 1, Len(rest))
<1>1. body \in Seq(Param) /\ rest \in Seq(Param)
  BY DEF TypeOK
<1>2. all \in Seq(Param) /\ more \in Seq(Param) /\ all \o more = body \o rest
      /\ Len(all) <= Len(body \o rest)
  BY <1>1, Moved, Zenon
<1>3. rest' = more
  BY Zenon DEF onBody
<1>4. \/ /\ kind = "target" /\ need /\ ~TooLong(all)
         /\ body' = all /\ UNCHANGED <<need, status, responses>>
      \/ /\ kind = "target" /\ need /\ TooLong(all)
         /\ need' = FALSE /\ body' = <<>> /\ respond(400)
      \/ ~(kind = "target" /\ need) /\ UNCHANGED <<need, body, status, responses>>
  BY Zenon DEF onBody
<1>. HIDE DEF all, more
<1>. QED
  BY <1>2, <1>3, <1>4, Zenon

\* Every step keeps the types.
LEMMA TypeStep == TypeOK /\ Next => TypeOK'
<1>. SUFFICES ASSUME TypeOK, Next PROVE TypeOK'
  OBVIOUS
<1>. USE DEF TypeOK, Unanswered, input, ingress, target, reverse, output
<1>1. CASE Make
  <2>1. req.params \in Seq(Param) /\ HandlerFor(req) \in {"404", "503", "target", "reverse"}
    BY RequestFacts DEF HandlerFor
  <2>. QED
    BY <1>1, <2>1 DEF Make
<1>2. CASE TargetOnRequest
  <2>1. UNCHANGED <<input, body, rest, eom, column>> /\ need' \in BOOLEAN
    BY <1>2, ZenonT(60) DEF TargetOnRequest
  <2>2. pc' \in {"wait", "sample"}
    BY <1>2 DEF TargetOnRequest, Ask, BadRequest
  <2>3. status' \in {0, 200, 400, 404, 503} /\ responses' \in Nat
    BY <1>2 DEF TargetOnRequest, BadRequest, respond
  <2>. QED
    BY <2>1, <2>2, <2>3
<1>3. CASE ReverseOnRequest
  BY <1>3 DEF ReverseOnRequest, respond, BadRequest
<1>4. CASE DirectOnRequest
  BY <1>4 DEF DirectOnRequest
<1>5. CASE Sample
  BY <1>5 DEF Sample
<1>6. CASE Lookup
  <2>1. column' = [m \in Mappings |-> column'[m]]
    BY <1>6 DEF Lookup
  <2>. QED
    BY <1>6, <2>1 DEF Lookup
<1>7. CASE AnswerTarget
  BY <1>7 DEF AnswerTarget, respond
<1>8. CASE GetMapping
  BY <1>8 DEF GetMapping
<1>9. CASE OpenCursor
  BY <1>9 DEF OpenCursor
<1>10. CASE sendRow
  BY <1>10 DEF sendRow
<1>11. CASE AnswerReverse
  BY <1>11 DEF AnswerReverse, respond
<1>12. CASE onEOM
  BY <1>12 DEF onEOM, respond, Ask
<1>13. CASE requestComplete
  BY <1>13 DEF requestComplete
<1>14. CASE onError
  BY <1>14 DEF onError
<1>15. CASE Done
  BY <1>15 DEF Done, vars
<1>16. ASSUME NEW n \in 1..Len(rest), onBody(n) PROVE TypeOK'
  <2>1. UNCHANGED <<input, pc, eom, column>>
    BY <1>16 DEF onBody
  <2>2. PICK all \in Seq(Param), more \in Seq(Param) :
           /\ rest' = more
           /\ \/ body' = all /\ UNCHANGED <<need, status, responses>>
              \/ need' = FALSE /\ body' = <<>> /\ respond(400)
              \/ UNCHANGED <<need, body, status, responses>>
    BY <1>16, PieceArrives, ZenonT(60)
  <2>3. <<>> \in Seq(Param)
    OBVIOUS
  <2>4. body' \in Seq(Param) /\ rest' \in Seq(Param)
    BY <2>2, <2>3, ZenonT(60)
  <2>5. UNCHANGED <<need, status, responses>> \/ (need' = FALSE /\ respond(400))
    BY <2>2, ZenonT(60)
  <2>6. need' \in BOOLEAN /\ status' \in {0, 200, 400, 404, 503} /\ responses' \in Nat
    <3>1. need \in BOOLEAN /\ status \in {0, 200, 400, 404, 503} /\ responses \in Nat
      OBVIOUS
    <3>2. need' \in BOOLEAN
      BY <2>5, <3>1, Zenon
    <3>3. status' \in {0, 200, 400, 404, 503} /\ responses' \in Nat
      BY ONLY <2>5, <3>1 DEF respond
    <3>. QED
      BY <3>2, <3>3
  <2>. QED
    BY <2>1, <2>4, <2>6
<1>17. ASSUME NEW m \in Mappings, Commit(m) PROVE TypeOK'
  BY <1>17 DEF Commit
<1>. QED
  BY <1>1, <1>2, <1>3, <1>4, <1>5, <1>6, <1>7, <1>8, <1>9, <1>10, <1>11, <1>12, <1>13,
     <1>14, <1>15, <1>16, <1>17 DEF Next, Handler

\* Every step keeps the choice the factories made.
LEMMA ChosenStep == TypeOK /\ Chosen /\ Next => Chosen'
<1>. SUFFICES ASSUME TypeOK, Chosen, Next PROVE Chosen'
  OBVIOUS
<1>. USE DEF Chosen, Unanswered, input, ingress, target, reverse, output
<1>1. CASE Make
  <2>1. req.path \in {"/target", "/reverse", "elsewhere"}
    BY RequestFacts DEF TypeOK
  <2>. QED
    BY <1>1, <2>1 DEF Make, HandlerFor, isAvailable
<1>2. CASE TargetOnRequest
  BY <1>2 DEF TargetOnRequest, Ask, respond, BadRequest
<1>3. CASE ReverseOnRequest
  BY <1>3 DEF ReverseOnRequest, respond, BadRequest
<1>4. CASE DirectOnRequest
  BY <1>4 DEF DirectOnRequest
<1>5. CASE Sample
  BY <1>5 DEF Sample
<1>6. CASE Lookup
  BY <1>6 DEF Lookup
<1>7. CASE AnswerTarget
  BY <1>7 DEF AnswerTarget, respond
<1>8. CASE GetMapping
  BY <1>8 DEF GetMapping
<1>9. CASE OpenCursor
  BY <1>9 DEF OpenCursor
<1>10. CASE sendRow
  BY <1>10 DEF sendRow
<1>11. CASE AnswerReverse
  BY <1>11 DEF AnswerReverse, respond
<1>12. CASE onEOM
  BY <1>12 DEF onEOM, respond, Ask, WantsQuery
<1>13. CASE requestComplete
  BY <1>13 DEF requestComplete
<1>14. CASE onError
  BY <1>14 DEF onError
<1>15. CASE Done
  BY <1>15 DEF Done, vars
<1>16. ASSUME NEW n \in 1..Len(rest), onBody(n) PROVE Chosen'
  BY <1>16 DEF onBody
<1>17. ASSUME NEW m \in Mappings, Commit(m) PROVE Chosen'
  BY <1>17 DEF Commit
<1>. QED
  BY <1>1, <1>2, <1>3, <1>4, <1>5, <1>6, <1>7, <1>8, <1>9, <1>10, <1>11, <1>12, <1>13,
     <1>14, <1>15, <1>16, <1>17 DEF Next, Handler

\* No step answers a request that is answered.
LEMMA OnceStep == TypeOK /\ Chosen /\ Once /\ Collected /\ Next => Once'
<1>. SUFFICES ASSUME TypeOK, Chosen, Once, Collected, Next PROVE Once'
  OBVIOUS
<1>. USE DEF Once, Unanswered, input, ingress, target, reverse, output
<1>0. pc \in Unanswered \cup {"wait", "gone"} /\ need \in BOOLEAN /\ eom \in BOOLEAN
      /\ status \in {0, 200, 400, 404, 503} /\ responses \in Nat
  BY DEF TypeOK
<1>1. CASE Make
  BY <1>0, <1>1 DEF Chosen, Collected, Make
<1>2. CASE TargetOnRequest
  <2>1. pc = "made" /\ kind = "target" /\ UNCHANGED <<kind, rest, eom>> /\ responses = 0
        /\ ~eom /\ status = 0
    BY <1>0, <1>2 DEF TargetOnRequest, Collected
  <2>2. \/ need' = FALSE /\ pc' = "sample" /\ UNCHANGED <<status, responses>>
        \/ pc' = "wait" /\ UNCHANGED <<status, responses>>
        \/ need' = FALSE /\ pc' = "wait" /\ respond(400)
    BY <1>2 DEF TargetOnRequest, Ask, BadRequest
  <2>. QED
    BY <1>0, <2>1, <2>2 DEF respond
<1>3. CASE ReverseOnRequest
  BY <1>0, <1>3 DEF Chosen, Collected, ReverseOnRequest, respond, BadRequest
<1>4. CASE DirectOnRequest
  BY <1>0, <1>4 DEF Chosen, Collected, DirectOnRequest
<1>5. CASE Sample
  BY <1>0, <1>5 DEF Chosen, Collected, Sample
<1>6. CASE Lookup
  BY <1>0, <1>6 DEF Chosen, Collected, Lookup
<1>7. CASE AnswerTarget
  BY <1>0, <1>7 DEF Chosen, Collected, AnswerTarget, respond
<1>8. CASE GetMapping
  BY <1>0, <1>8 DEF Chosen, Collected, GetMapping
<1>9. CASE OpenCursor
  BY <1>0, <1>9 DEF Chosen, Collected, OpenCursor
<1>10. CASE sendRow
  BY <1>0, <1>10 DEF Chosen, Collected, sendRow
<1>11. CASE AnswerReverse
  BY <1>0, <1>11 DEF Chosen, Collected, AnswerReverse, respond
<1>12. CASE onEOM
  BY <1>0, <1>12 DEF Chosen, Collected, onEOM, respond, Ask, WantsQuery
<1>13. CASE requestComplete
  BY <1>0, <1>13 DEF Chosen, Collected, requestComplete
<1>14. CASE onError
  BY <1>0, <1>14 DEF Chosen, Collected, onError
<1>15. CASE Done
  BY <1>0, <1>15 DEF Chosen, Collected, Done, vars
<1>16. ASSUME NEW n \in 1..Len(rest), onBody(n) PROVE Once'
  <2>1. UNCHANGED <<pc, kind, eom>> /\ pc = "wait"
    BY <1>0, <1>16 DEF Chosen, Collected, onBody, input
  <2>2. \/ UNCHANGED <<need, status, responses>>
        \/ kind = "target" /\ need /\ need' = FALSE /\ respond(400)
    BY <1>16, PieceArrives, Zenon
  <2>3. eom => rest' = <<>>
    <3>1. eom => rest = <<>>
      OBVIOUS
    <3>2. rest # <<>>
      BY DEF TypeOK
    <3>. QED
      BY <3>1, <3>2
  <2>. QED
    BY <1>0, <2>1, <2>2, <2>3 DEF respond, Chosen
<1>17. ASSUME NEW m \in Mappings, Commit(m) PROVE Once'
  BY <1>0, <1>17 DEF Chosen, Collected, Commit
<1>. QED
  BY <1>1, <1>2, <1>3, <1>4, <1>5, <1>6, <1>7, <1>8, <1>9, <1>10, <1>11, <1>12, <1>13,
     <1>14, <1>15, <1>16, <1>17 DEF Next, Handler

\* The body is collected as long as it is wanted.
LEMMA CollectedStep == TypeOK /\ Chosen /\ Once /\ Collected /\ Next => Collected'
<1>. SUFFICES ASSUME TypeOK, Chosen, Once, Collected, Next PROVE Collected'
  OBVIOUS
<1>. USE DEF Collected, input, ingress, target, reverse, output
<1>0. /\ pc \in Unanswered \cup {"wait", "gone"} /\ need \in BOOLEAN /\ eom \in BOOLEAN
      /\ body \in Seq(Param) /\ rest \in Seq(Param) /\ req.params \in Seq(Param)
  BY RequestFacts DEF TypeOK
<1>1. CASE Make
  BY <1>0, <1>1 DEF Chosen, Make
<1>2. CASE TargetOnRequest
  <2>1. pc = "made" /\ kind = "target" /\ UNCHANGED <<req, kind, body, rest, eom>>
    BY <1>2 DEF TargetOnRequest
  <2>2. \/ need' = FALSE /\ pc' # "made" /\ pc' # "idle"
        \/ req.method = "POST" /\ req.form /\ pc' = "wait"
    BY <1>2 DEF TargetOnRequest, Ask, BadRequest, sanitizeHeaders
  <2>3. req.method = "POST" => rest = req.params
    BY <2>1
  <2>4. body = <<>> /\ Len(body) <= MaxQuery
    BY <2>1, ApiAssumption
  <2>5. req.method = "POST" => body \o rest = req.params
    BY <1>0, <2>3, <2>4
  <2>6. pc' # "made" /\ pc' # "idle"
    BY <2>2
  <2>. QED
    BY <2>1, <2>2, <2>4, <2>5, <2>6
<1>3. CASE ReverseOnRequest
  BY <1>0, <1>3 DEF Chosen, ReverseOnRequest, respond, BadRequest
<1>4. CASE DirectOnRequest
  BY <1>0, <1>4 DEF Chosen, DirectOnRequest
<1>5. CASE Sample
  BY <1>0, <1>5 DEF Chosen, Sample
<1>6. CASE Lookup
  BY <1>0, <1>6 DEF Chosen, Lookup
<1>7. CASE AnswerTarget
  <2>1. pc = "lookup" /\ pc' = "wait" /\ UNCHANGED <<need, eom>> /\ (eom \/ ~need)
    BY <1>7 DEF AnswerTarget, Once
  <2>. QED
    BY <2>1
<1>8. CASE GetMapping
  BY <1>0, <1>8 DEF Chosen, GetMapping
<1>9. CASE OpenCursor
  BY <1>0, <1>9 DEF Chosen, OpenCursor
<1>10. CASE sendRow
  BY <1>0, <1>10 DEF Chosen, sendRow
<1>11. CASE AnswerReverse
  BY <1>0, <1>11 DEF Chosen, AnswerReverse, respond
<1>12. CASE onEOM
  BY <1>0, <1>12 DEF Chosen, onEOM, respond, Ask, WantsQuery
<1>13. CASE requestComplete
  BY <1>0, <1>13 DEF Chosen, requestComplete
<1>14. CASE onError
  BY <1>0, <1>14 DEF Chosen, onError
<1>15. CASE Done
  BY <1>15 DEF Done, vars
<1>16. ASSUME NEW n \in 1..Len(rest), onBody(n) PROVE Collected'
  <2>1. UNCHANGED <<pc, kind, eom, req>> /\ pc = "wait"
    BY <1>16 DEF onBody
  <2>2. PICK all \in Seq(Param), more \in Seq(Param) :
          /\ rest' = more /\ all \o more = body \o rest
          /\ \/ /\ kind = "target" /\ need /\ ~TooLong(all)
                /\ body' = all /\ UNCHANGED <<need, status, responses>>
             \/ need' = FALSE
             \/ ~(kind = "target" /\ need) /\ UNCHANGED need
    BY <1>16, PieceArrives, Zenon
  <2>3. CASE need' = FALSE \/ (~(kind = "target" /\ need) /\ UNCHANGED need)
    BY <2>1, <2>3
  <2>4. CASE kind = "target" /\ need /\ ~TooLong(all) /\ body' = all
    <3>1. Len(all) <= MaxQuery
      BY <2>4, ApiAssumption DEF TooLong
    <3>2. body' \o rest' = body \o rest
      BY <2>2, <2>4, Zenon
    <3>. QED
      BY <2>1, <2>4, <3>1, <3>2
  <2>. QED
    BY <2>2, <2>3, <2>4
<1>17. ASSUME NEW m \in Mappings, Commit(m) PROVE Collected'
  BY <1>0, <1>17 DEF Chosen, Commit
<1>. QED
  BY <1>1, <1>2, <1>3, <1>4, <1>5, <1>6, <1>7, <1>8, <1>9, <1>10, <1>11, <1>12, <1>13,
     <1>14, <1>15, <1>16, <1>17 DEF Next, Handler

\* Numbers looked up are those of the query.
LEMMA QueryStep == TypeOK /\ Chosen /\ Once /\ Collected /\ Query /\ Next => Query'
<1>. SUFFICES ASSUME TypeOK, Chosen, Once, Collected, Query, Next PROVE Query'
  OBVIOUS
<1>. USE DEF Query, Unanswered, input, ingress, target, reverse, output
<1>0. /\ pc \in Unanswered \cup {"wait", "gone"}
      /\ status \in {0, 200, 400, 404, 503} /\ responses \in Nat
      /\ kind \in {"none", "404", "503", "target", "reverse"}
      /\ req.method \in {"GET", "POST", "other"} /\ req.params \in Seq(Param)
      /\ Len(req.params) \in Nat
      /\ req.path # "/target" => req.method \in {"GET", "other"}
  BY RequestFacts DEF TypeOK
<1>a. pc \in Unanswered => status = 0
  BY <1>0 DEF Once
<1>1. CASE Make
  BY <1>0, <1>a, <1>1 DEF Chosen, Admitted, Make
<1>2. CASE TargetOnRequest
  <2>1. pc = "made" /\ kind = "target" /\ UNCHANGED <<req, kind>> /\ status = 0
    BY <1>2, <1>a DEF TargetOnRequest
  <2>2. \/ req.method = "GET" /\ pc' = "sample" /\ pn' = Numbers(req.params) /\ UNCHANGED status
        \/ pc' = "wait" /\ UNCHANGED status
        \/ /\ req.method = "other" \/ (req.method = "POST" /\ ~sanitizeHeaders(req))
           /\ pc' = "wait" /\ respond(400)
    BY <1>2 DEF TargetOnRequest, Ask, BadRequest
  <2>3. req.method = "POST" /\ ~sanitizeHeaders(req) => ~Admitted
    BY <1>0, ApiAssumption DEF sanitizeHeaders, Admitted
  <2>4. UNCHANGED Admitted
    BY <2>1 DEF Admitted
  <2>5. req.method = "GET" => Admitted
    BY DEF Admitted
  <2>. QED
    BY <2>1, <2>2, <2>3, <2>4, <2>5 DEF respond
<1>3. CASE ReverseOnRequest
  BY <1>0, <1>a, <1>3 DEF Chosen, Admitted, ReverseOnRequest, respond, BadRequest
<1>4. CASE DirectOnRequest
  BY <1>0, <1>a, <1>4 DEF Chosen, Admitted, DirectOnRequest
<1>5. CASE Sample
  BY <1>0, <1>a, <1>5 DEF Chosen, Admitted, Sample
<1>6. CASE Lookup
  BY <1>0, <1>a, <1>6 DEF Chosen, Admitted, Lookup
<1>7. CASE AnswerTarget
  BY <1>0, <1>a, <1>7 DEF Chosen, Admitted, AnswerTarget, respond
<1>8. CASE GetMapping
  BY <1>0, <1>a, <1>8 DEF Chosen, Admitted, GetMapping
<1>9. CASE OpenCursor
  BY <1>0, <1>a, <1>9 DEF Chosen, Admitted, OpenCursor
<1>10. CASE sendRow
  BY <1>0, <1>a, <1>10 DEF Chosen, Admitted, sendRow
<1>11. CASE AnswerReverse
  BY <1>0, <1>a, <1>11 DEF Chosen, Admitted, AnswerReverse, respond
<1>12. CASE onEOM
  <2>1. pc = "wait" /\ rest = <<>> /\ ~eom /\ UNCHANGED <<req, kind>>
    BY <1>12 DEF onEOM
  <2>2. \/ /\ kind = "target" /\ need /\ pc' = "sample" /\ pn' = Numbers(body)
           /\ UNCHANGED <<status, responses>>
        \/ kind \in {"404", "503"} /\ pc' = pc /\ (respond(404) \/ respond(503))
        \/ pc' = pc /\ UNCHANGED <<status, responses>>
    BY <1>12 DEF onEOM, Ask, WantsQuery
  <2>3. UNCHANGED Admitted
    BY <2>1 DEF Admitted
  <2>4. kind = "target" /\ need => body = req.params /\ Admitted
    <3>. SUFFICES ASSUME kind = "target", need PROVE body = req.params /\ Admitted
      OBVIOUS
    <3>1. /\ req.method = "POST" /\ req.form
          /\ body \o rest = req.params /\ Len(body) <= MaxQuery
      BY <2>1 DEF Collected
    <3>2. body \in Seq(Param)
      BY DEF TypeOK
    <3>3. body \o rest = body
      BY <2>1, <3>2
    <3>. QED
      BY <3>1, <3>3 DEF Admitted
  <2>5. kind \in {"404", "503"} => status = 0
    BY <1>0, <2>1 DEF Once
  <2>. QED
    BY <2>1, <2>2, <2>3, <2>4, <2>5 DEF respond
<1>13. CASE requestComplete
  BY <1>0, <1>a, <1>13 DEF Chosen, Admitted, requestComplete
<1>14. CASE onError
  BY <1>0, <1>a, <1>14 DEF Chosen, Admitted, onError
<1>15. CASE Done
  BY <1>15 DEF Done, vars, Admitted
<1>16. ASSUME NEW n \in 1..Len(rest), onBody(n) PROVE Query'
  <2>1. UNCHANGED <<pc, kind, eom, req, pn>> /\ pc = "wait"
    BY <1>16 DEF onBody
  <2>2. PICK all \in Seq(Param), more \in Seq(Param) :
          /\ all \o more = body \o rest /\ Len(all) <= Len(body \o rest)
          /\ \/ kind = "target" /\ need /\ TooLong(all) /\ respond(400)
             \/ UNCHANGED status
    BY <1>16, PieceArrives, ZenonT(60)
  <2>3. UNCHANGED Admitted
    BY <2>1 DEF Admitted
  <2>4. CASE UNCHANGED status
    BY <2>1, <2>3, <2>4
  <2>5. CASE kind = "target" /\ need /\ TooLong(all) /\ respond(400)
    <3>1. ~eom
      <4>1. rest # <<>>
        BY DEF TypeOK
      <4>. QED
        BY <4>1 DEF Once, TypeOK
    <3>2. req.method = "POST" /\ body \o rest = req.params
      BY <2>1, <2>5, <3>1 DEF Collected
    <3>3. Len(all) <= Len(req.params) /\ Len(all) > MaxQuery /\ Len(all) \in Nat
      BY <2>2, <2>5, <3>2 DEF TooLong
    <3>4. ~Admitted
      BY <1>0, <3>2, <3>3, ApiAssumption DEF Admitted
    <3>5. status = 0
      BY <1>0, <2>5, <3>1 DEF Once
    <3>. QED
      BY <2>1, <2>3, <2>5, <3>2, <3>4, <3>5 DEF respond
  <2>. QED
    BY <2>2, <2>4, <2>5
<1>17. ASSUME NEW m \in Mappings, Commit(m) PROVE Query'
  BY <1>0, <1>a, <1>17 DEF Chosen, Admitted, Commit
<1>. QED
  BY <1>1, <1>2, <1>3, <1>4, <1>5, <1>6, <1>7, <1>8, <1>9, <1>10, <1>11, <1>12, <1>13,
     <1>14, <1>15, <1>16, <1>17 DEF Next, Handler

\* Every step keeps the part of the invariant that is about statuses.
LEMMA StatusStep == StatusInv /\ [Next]_vars => StatusInv'
<1>1. ASSUME StatusInv, Next PROVE StatusInv'
  BY <1>1, TypeStep, ChosenStep, OnceStep, CollectedStep, QueryStep DEF StatusInv
<1>2. ASSUME StatusInv, UNCHANGED vars PROVE StatusInv'
  BY <1>2 DEF StatusInv, TypeOK, Chosen, Once, Collected, Query, Admitted, vars, input,
              ingress, target, reverse, output
<1>. QED
  BY <1>1, <1>2

\* A request is answered at most once, and with 200 or 400 only when it deserves
\* that, however its body is cut into pieces: onRequest, onBody and onEOM agree on
\* who answers.
THEOREM StatusesAreRight == Spec => []StatusIsRight
<1>1. StatusInv => StatusIsRight
  <2>. SUFFICES ASSUME StatusInv PROVE StatusIsRight
    OBVIOUS
  <2>1. Len(req.params) \in Nat /\ MaxQuery \in Nat
    BY RequestFacts, ApiAssumption DEF StatusInv, TypeOK
  <2>. QED
    BY <2>1 DEF StatusInv, Chosen, Once, Query, Admitted, StatusIsRight
<1>. QED
  BY <1>1, InitStatus, StatusStep, PTL DEF Spec

-----------------------------------------------------------------------------
(* The lines of /target.                                                   *)

\* Only Make looks at the clock of loads and only Commit advances it.
LEMMA StoreStep ==
  ASSUME TypeOK, Next
  PROVE  /\ \A m \in Mappings : store[m] <= store'[m]
         /\ arrived' = arrived \/ (pc = "idle" /\ arrived' = store /\ store' = store)
<1>. USE DEF input, ingress, target, reverse, output
<1>0. store \in [Mappings -> Nat]
  BY DEF TypeOK
<1>1. CASE Make
  BY <1>0, <1>1 DEF Make
<1>2. CASE \E m \in Mappings : Commit(m)
  BY <1>0, <1>2 DEF Commit
<1>3. CASE UNCHANGED <<store, arrived>>
  BY <1>0, <1>3
<1>4. Handler => UNCHANGED <<store, arrived>>
  BY DEF Handler, TargetOnRequest, ReverseOnRequest, DirectOnRequest, Sample, Lookup,
         AnswerTarget, GetMapping, OpenCursor, sendRow, AnswerReverse
<1>5. onEOM \/ requestComplete \/ onError \/ Done \/ (\E n \in 1..Len(rest) : onBody(n))
        => UNCHANGED <<store, arrived>>
  BY DEF onEOM, requestComplete, onError, Done, onBody, vars
<1>. QED
  BY <1>1, <1>2, <1>3, <1>4, <1>5 DEF Next

\* Versions in service only go up.
LEMMA ForwardStep == TypeOK /\ Forward /\ Next => Forward'
<1>. SUFFICES ASSUME TypeOK, Forward, Next, NEW m \in Mappings PROVE (arrived[m] <= store[m])'
  BY DEF Forward
<1>1. store[m] \in Nat /\ arrived[m] \in Nat /\ store'[m] \in Nat
  BY TypeStep DEF TypeOK
<1>2. arrived[m] <= store[m] /\ store[m] <= store'[m]
  BY StoreStep DEF Forward
<1>3. arrived'[m] = arrived[m] \/ arrived'[m] = store[m]
  BY StoreStep
<1>. QED
  BY <1>1, <1>2, <1>3

\* A database in service since the request came is still one later.
LEMMA InServiceGrows ==
  ASSUME TypeOK, Next, pc # "idle", NEW m \in Mappings
  PROVE  /\ InService(m) \subseteq InService(m)' /\ arrived' = arrived
         /\ store[m] # 0 => store'[m] # 0
<1>1. store[m] \in Nat /\ arrived[m] \in Nat /\ store'[m] \in Nat
  BY TypeStep DEF TypeOK
<1>2. store[m] <= store'[m] /\ arrived' = arrived
  BY StoreStep
<1>. QED
  BY <1>1, <1>2 DEF InService

\* A flag is set only for a mapping that is loaded, and stays true.
LEMMA FlagsStep == TypeOK /\ Chosen /\ Collected /\ Forward /\ Flags /\ Next => Flags'
<1>. SUFFICES ASSUME TypeOK, Chosen, Collected, Forward, Flags, Next PROVE Flags'
  OBVIOUS
<1>. USE DEF Flags, input, ingress, target, reverse, output
<1>0. ToSet(Optional) \subseteq Mappings /\ Optional \in Seq(ToSet(Optional))
  BY MappingsFacts
<1>1. CASE Make
  BY <1>0, <1>1 DEF Make
<1>2. CASE TargetOnRequest
  BY <1>0, <1>2 DEF TargetOnRequest, Ask, respond, BadRequest
<1>3. CASE ReverseOnRequest
  BY <1>0, <1>3 DEF ReverseOnRequest, respond, BadRequest
<1>4. CASE DirectOnRequest
  BY <1>0, <1>4 DEF DirectOnRequest
<1>5. CASE Sample
  <2>1. UNCHANGED <<store, arrived>> /\ pc = "sample" /\ todo \in Seq(ToSet(Optional))
    BY <1>5 DEF Sample
  <2>2. CASE todo = <<>>
    <3>1. \A m \in ToSet(Optional) : m \notin ToSet(todo)
      BY <2>2 DEF ToSet
    <3>2. pc' = "lookup" /\ avail' = avail
      BY <1>5, <2>2 DEF Sample
    <3>. QED
      BY <2>1, <3>1, <3>2
  <2>3. CASE todo # <<>>
    <3>1. /\ Tail(todo) \in Seq(ToSet(Optional)) /\ Head(todo) \in ToSet(Optional)
          /\ \A m \in ToSet(todo) : m = Head(todo) \/ m \in ToSet(Tail(todo))
      BY <2>1, <2>3, TailOfList
    <3>2. /\ pc' = "sample" /\ todo' = Tail(todo)
          /\ avail' = IF store[Head(todo)] # 0 THEN avail \cup {Head(todo)} ELSE avail
      BY <1>5, <2>1, <2>3 DEF Sample, Sampled
    <3>3. store[Head(todo)] = 0 => arrived[Head(todo)] = 0
      BY <1>0, <3>1 DEF Forward, TypeOK
    <3>. QED
      BY <2>1, <3>1, <3>2, <3>3
  <2>. QED
    BY <2>2, <2>3
<1>6. CASE Lookup
  BY <1>0, <1>6 DEF Lookup
<1>7. CASE AnswerTarget
  BY <1>0, <1>7 DEF AnswerTarget, respond
<1>8. CASE GetMapping
  BY <1>0, <1>8 DEF GetMapping
<1>9. CASE OpenCursor
  BY <1>0, <1>9 DEF OpenCursor
<1>10. CASE sendRow
  BY <1>0, <1>10 DEF sendRow
<1>11. CASE AnswerReverse
  BY <1>0, <1>11 DEF AnswerReverse, respond
<1>12. CASE onEOM
  BY <1>0, <1>12 DEF onEOM, respond, Ask, WantsQuery
<1>13. CASE requestComplete
  BY <1>0, <1>13 DEF requestComplete
<1>14. CASE onError
  BY <1>0, <1>14 DEF onError
<1>15. CASE Done
  BY <1>15 DEF Done, vars
<1>16. ASSUME NEW n \in 1..Len(rest), onBody(n) PROVE Flags'
  BY <1>16 DEF onBody
<1>17. ASSUME NEW m \in Mappings, Commit(m) PROVE Flags'
  <2>1. UNCHANGED <<pc, todo, avail, arrived>>
    BY <1>17 DEF Commit
  <2>2. \A k \in Mappings : store[k] # 0 => store'[k] # 0
    BY <1>17 DEF Commit, TypeOK
  <2>. QED
    BY <1>0, <2>1, <2>2
<1>. QED
  BY <1>1, <1>2, <1>3, <1>4, <1>5, <1>6, <1>7, <1>8, <1>9, <1>10, <1>11, <1>12, <1>13,
     <1>14, <1>15, <1>16, <1>17 DEF Next, Handler

\* A column that is filled stays so while the numbers, and for carrier records the
\* routes, are the same.
LEMMA FilledStays ==
  ASSUME TypeOK, Next, pc # "idle", NEW m \in Mappings, Filled(m), UNCHANGED pn,
         column'[m] = column[m],
         m = "lerg" => column'["us"] = column["us"] /\ column'["ca"] = column["ca"]
  PROVE  Filled(m)'
<1>1. PICK v \in InService(m) : v # 0 /\ column[m] = Answers(m, v)
  BY DEF Filled
<1>2. v \in InService(m)'
  BY InServiceGrows
<1>3. Answers(m, v)' = Answers(m, v)
  BY DEF Answers, LergKey, Route
<1>. QED
  BY <1>1, <1>2, <1>3 DEF Filled

\* Asking m fills its column.
LEMMA LookupFills ==
  ASSUME TypeOK, Forward, Lookup, NEW m \in Mappings, m = Head(todo), Asked(m), store[m] # 0
  PROVE  Filled(m)'
<1>1. /\ column' = [column EXCEPT ![m] = Answers(m, store[m])]
      /\ UNCHANGED <<pn, store, arrived>>
  BY DEF Lookup, input
<1>2. column'[m] = Answers(m, store[m])
  BY <1>1 DEF TypeOK
<1>3. /\ pn' = pn
      /\ m = "lerg" => column'["us"] = column["us"] /\ column'["ca"] = column["ca"]
  BY <1>1, MappingsFacts DEF TypeOK
<1>4. ASSUME NEW v PROVE Answers(m, v)' = Answers(m, v)
  BY <1>3 DEF Answers, LergKey, Route
<1>5. PICK v : v = store[m]
  OBVIOUS
<1>6. v \in InService(m)' /\ v # 0
  BY <1>1, <1>5 DEF InService, Forward, TypeOK
<1>7. column'[m] = Answers(m, v)'
  BY <1>2, <1>4, <1>5
<1>. QED
  BY <1>6, <1>7 DEF Filled

\* One lookup fills one column from the database in service.
LEMMA LookupStep ==
  ASSUME TypeOK, Chosen, Forward, Flags, Looked, Lookup
  PROVE  Looked'
<1>0. /\ pc = "lookup" /\ todo # <<>> /\ todo' = Tail(todo)
      /\ UNCHANGED <<pc, pn, avail, store, arrived, kind>>
  BY DEF Lookup, input
<1>1. Next
  BY DEF Next, Handler
<1>2. \A m \in {"us", "ca"} : m \in Mappings /\ Asked(m) /\ store[m] # 0
  BY <1>0, MappingsFacts DEF Chosen, Forward, TypeOK, Asked
<1>3. ASSUME NEW m \in Mappings, m # Head(todo) PROVE column'[m] = column[m]
  BY <1>3 DEF Lookup, TypeOK
<1>4. CASE todo = <<"us", "ca">> \o Optional
  <2>1. Head(todo) = "us" /\ todo' = <<"ca">> \o Optional
    BY <1>0, <1>4, FirstLookups
  <2>2. Filled("us")'
    BY <1>2, <2>1, LookupFills
  <2>. QED
    BY <2>1, <2>2 DEF Looked
<1>5. CASE todo = <<"ca">> \o Optional /\ Filled("us")
  <2>1. Head(todo) = "ca" /\ todo' = Optional
    BY <1>0, <1>5, FirstLookups
  <2>2. Filled("ca")'
    BY <1>2, <2>1, LookupFills
  <2>3. Filled("us")'
    BY <1>0, <1>1, <1>2, <1>3, <1>5, <2>1, FilledStays
  <2>4. avail' \subseteq ToSet(Optional) /\ Optional \in Seq(ToSet(Optional))
    BY <1>0, MappingsFacts DEF Flags
  <2>. QED
    BY <2>1, <2>2, <2>3, <2>4 DEF Looked
<1>6. CASE /\ todo \in Seq(ToSet(Optional))
           /\ Filled("us") /\ Filled("ca")
           /\ \A m \in avail : Filled(m) \/ m \in ToSet(todo)
  <2>1. /\ Tail(todo) \in Seq(ToSet(Optional)) /\ Head(todo) \in ToSet(Optional)
        /\ \A m \in ToSet(todo) : m = Head(todo) \/ m \in ToSet(Tail(todo))
    BY <1>0, <1>6, TailOfList
  <2>2. Head(todo) # "us" /\ Head(todo) # "ca" /\ ToSet(Optional) \subseteq Mappings
    BY <2>1, MappingsFacts
  <2>3. column'["us"] = column["us"] /\ column'["ca"] = column["ca"]
    BY <1>2, <1>3, <2>2
  <2>4. Filled("us")' /\ Filled("ca")'
    BY <1>0, <1>1, <1>2, <1>6, <2>3, FilledStays
  <2>5. ASSUME NEW m \in avail PROVE Filled(m)' \/ m \in ToSet(todo')
    <3>1. m \in Mappings /\ store[m] # 0 /\ Asked(m)
      BY <2>2 DEF Flags, Asked
    <3>2. CASE m = Head(todo)
      BY <3>1, <3>2, LookupFills
    <3>3. CASE m # Head(todo) /\ Filled(m)
      BY <1>0, <1>1, <1>3, <2>3, <3>1, <3>3, FilledStays
    <3>4. CASE m # Head(todo) /\ m \in ToSet(todo)
      BY <1>0, <2>1, <3>4
    <3>. QED
      BY <1>6, <3>2, <3>3, <3>4
  <2>. QED
    BY <1>0, <2>1, <2>4, <2>5 DEF Looked
<1>. QED
  BY <1>0, <1>4, <1>5, <1>6 DEF Looked

\* A reload does not touch columns that are filled.
LEMMA CommitLooked ==
  ASSUME TypeOK, Flags, Looked, NEW n \in Mappings, Commit(n)
  PROVE  Looked'
<1>. SUFFICES ASSUME pc = "lookup" PROVE Looked'
  BY DEF Looked, Commit
<1>0. UNCHANGED <<pc, pn, avail, todo, column>> /\ Next
  BY DEF Commit, target, Next
<1>1. \A m \in Mappings : Filled(m) => Filled(m)'
  BY <1>0, FilledStays
<1>2. avail \subseteq Mappings /\ "us" \in Mappings /\ "ca" \in Mappings
  BY MappingsFacts DEF Flags
<1>3. CASE todo = <<"us", "ca">> \o Optional
  BY <1>0, <1>3 DEF Looked
<1>4. CASE todo = <<"ca">> \o Optional /\ Filled("us")
  BY <1>0, <1>1, <1>2, <1>4 DEF Looked
<1>5. CASE /\ todo \in Seq(ToSet(Optional))
           /\ Filled("us") /\ Filled("ca")
           /\ \A m \in avail : Filled(m) \/ m \in ToSet(todo)
  BY <1>0, <1>1, <1>2, <1>5 DEF Looked
<1>. QED
  BY <1>3, <1>4, <1>5 DEF Looked

\* Every step keeps the columns filled so far.
LEMMA LookedStep == TypeOK /\ Chosen /\ Forward /\ Flags /\ Looked /\ Next => Looked'
<1>. SUFFICES ASSUME TypeOK, Chosen, Forward, Flags, Looked, Next PROVE Looked'
  OBVIOUS
<1>1. CASE Lookup
  BY <1>1, LookupStep
<1>2. CASE \E m \in Mappings : Commit(m)
  BY <1>2, CommitLooked
<1>3. CASE Sample
  BY <1>3 DEF Sample, Looked
<1>4. CASE Done
  BY <1>4 DEF Done, vars, Looked
<1>5. CASE pc' # "lookup"
  BY <1>5 DEF Looked
<1>6. TargetOnRequest \/ ReverseOnRequest \/ DirectOnRequest \/ AnswerTarget \/ GetMapping
        \/ OpenCursor \/ sendRow \/ AnswerReverse => pc' # "lookup"
  BY DEF TargetOnRequest, ReverseOnRequest, DirectOnRequest, AnswerTarget, GetMapping,
         OpenCursor, sendRow, AnswerReverse, Ask, BadRequest
<1>7. Make \/ onEOM \/ requestComplete \/ onError \/ (\E n \in 1..Len(rest) : onBody(n))
        => pc' # "lookup"
  BY DEF Make, onEOM, requestComplete, onError, onBody, Ask
<1>. QED
  BY <1>1, <1>2, <1>3, <1>4, <1>5, <1>6, <1>7 DEF Next, Handler

\* An answer that has been given stays true.
LEMMA LinesStay ==
  ASSUME TypeOK, TrueLines, Next, pc # "idle", UNCHANGED <<req, kind, sent>>,
         status' = 200 => status = 200
  PROVE  TrueLines'
<1>. SUFFICES ASSUME kind = "target", status = 200 PROVE TrueLines'
  BY DEF TrueLines
<1>1. \A m \in Mappings : InService(m) \subseteq InService(m)'
  BY InServiceGrows
<1>2. "us" \in Mappings /\ "ca" \in Mappings /\ ToSet(Optional) \subseteq Mappings
  BY MappingsFacts
<1>3. /\ DOMAIN sent' = DOMAIN Numbers(req'.params)
      /\ \A i \in DOMAIN sent' : sent'[i].pn = Numbers(req'.params)[i]
  BY Zenon DEF TrueLines
<1>4. \E u \in InService("us")', c \in InService("ca")' :
        \A i \in DOMAIN sent' :
          LET n == sent'[i].pn IN
          sent'[i].rn = IF Db["us"][u][n] # NONE THEN Db["us"][u][n] ELSE Db["ca"][c][n]
  <2>1. PICK u \in InService("us"), c \in InService("ca") :
          \A i \in DOMAIN sent :
            LET n == sent[i].pn IN
            sent[i].rn = IF Db["us"][u][n] # NONE THEN Db["us"][u][n] ELSE Db["ca"][c][n]
    BY Zenon DEF TrueLines
  <2>2. u \in InService("us")' /\ c \in InService("ca")'
    BY <1>1, <1>2
  <2>. QED
    BY <2>1, <2>2, Zenon
<1>5. ASSUME NEW m \in ToSet(Optional)
      PROVE  \E v \in InService(m)' :
               \A i \in DOMAIN sent' :
                 LET key == IF m = "lerg" /\ sent'[i].rn # NONE THEN sent'[i].rn ELSE sent'[i].pn
                 IN  sent'[i].extra[m] = IF v = 0 THEN NONE ELSE Db[m][v][key]
  <2>1. PICK v \in InService(m) :
          \A i \in DOMAIN sent :
            LET key == IF m = "lerg" /\ sent[i].rn # NONE THEN sent[i].rn ELSE sent[i].pn
            IN  sent[i].extra[m] = IF v = 0 THEN NONE ELSE Db[m][v][key]
    BY Zenon DEF TrueLines
  <2>2. v \in InService(m)'
    BY <1>1, <1>2
  <2>. QED
    BY <2>1, <2>2, Zenon
<1>. QED
  BY <1>3, <1>4, <1>5, Zenon DEF TrueLines

\* The answer of /target is what the columns say.
LEMMA AnswerIsTrueLines ==
  ASSUME TypeOK, Chosen, Query, Forward, Flags, Looked, AnswerTarget
  PROVE  TrueLines'
<1>0. /\ pc = "lookup" /\ todo = <<>> /\ UNCHANGED <<store, arrived, req, kind>>
      /\ sent' = [i \in DOMAIN pn |-> Line(i)] /\ pn = Numbers(req.params)
  BY DEF AnswerTarget, input, Query
<1>1. Filled("us") /\ Filled("ca") /\ \A m \in avail : Filled(m)
  <2>1. \A m : m \notin ToSet(<<>>)
    BY DEF ToSet
  <2>. QED
    BY <1>0, <2>1, FirstLookups DEF Looked
<1>2. PICK u \in InService("us") : u # 0 /\ column["us"] = Answers("us", u)
  BY <1>1 DEF Filled
<1>3. PICK c \in InService("ca") : c # 0 /\ column["ca"] = Answers("ca", c)
  BY <1>1 DEF Filled
<1>4. ASSUME NEW i \in DOMAIN pn
      PROVE  /\ sent'[i].pn = pn[i] /\ sent'[i].rn = Route(i)
             /\ Route(i) = IF Db["us"][u][pn[i]] # NONE THEN Db["us"][u][pn[i]]
                           ELSE Db["ca"][c][pn[i]]
             /\ \A m \in ToSet(Optional) :
                  sent'[i].extra[m] = IF m \in avail THEN column[m][i] ELSE NONE
  <2>1. sent'[i] = Line(i)
    BY <1>0
  <2>2. column["us"][i] = Db["us"][u][pn[i]] /\ column["ca"][i] = Db["ca"][c][pn[i]]
    BY <1>2, <1>3 DEF Answers
  <2>. QED
    BY <2>1, <2>2 DEF Line, Route
<1>5. DOMAIN sent' = DOMAIN pn
  BY <1>0
<1>6. UNCHANGED <<InService("us"), InService("ca")>>
  BY <1>0 DEF InService
<1>7. \E u1 \in InService("us")', c1 \in InService("ca")' :
        \A i \in DOMAIN sent' :
          LET n == sent'[i].pn IN
          sent'[i].rn = IF Db["us"][u1][n] # NONE THEN Db["us"][u1][n] ELSE Db["ca"][c1][n]
  <2>1. \A i \in DOMAIN sent' :
          LET n == sent'[i].pn IN
          sent'[i].rn = IF Db["us"][u][n] # NONE THEN Db["us"][u][n] ELSE Db["ca"][c][n]
    BY <1>4, <1>5
  <2>2. u \in InService("us")' /\ c \in InService("ca")'
    BY <1>6
  <2>. QED
    BY <2>1, <2>2, Zenon
<1>8. ASSUME NEW m \in ToSet(Optional)
      PROVE  \E v \in InService(m)' :
               \A i \in DOMAIN sent' :
                 LET key == IF m = "lerg" /\ sent'[i].rn # NONE THEN sent'[i].rn ELSE sent'[i].pn
                 IN  sent'[i].extra[m] = IF v = 0 THEN NONE ELSE Db[m][v][key]
  <2>0. InService(m)' = InService(m) /\ m \in Mappings
    BY <1>0, MappingsFacts DEF InService
  <2>1. CASE m \in avail
    <3>1. PICK v \in InService(m) : v # 0 /\ column[m] = Answers(m, v)
      BY <1>1, <2>1 DEF Filled
    <3>2. ASSUME NEW i \in DOMAIN pn
          PROVE  sent'[i].extra[m] =
                   Db[m][v][IF m = "lerg" /\ sent'[i].rn # NONE THEN sent'[i].rn ELSE sent'[i].pn]
      <4>1. column[m][i] = Db[m][v][IF m = "lerg" THEN LergKey(i) ELSE pn[i]]
        BY <3>1 DEF Answers
      <4>2. sent'[i].extra[m] = column[m][i] /\ sent'[i].rn = Route(i) /\ sent'[i].pn = pn[i]
        BY <1>4, <2>1
      <4>. QED
        BY <4>1, <4>2 DEF LergKey
    <3>. QED
      BY <1>5, <2>0, <3>1, <3>2
  <2>2. CASE m \notin avail
    <3>1. arrived[m] = 0 /\ store[m] \in Nat
      BY <1>0, <2>0, <2>2 DEF Flags, TypeOK
    <3>2. 0 \in InService(m)
      BY <3>1 DEF InService
    <3>3. \A i \in DOMAIN pn : sent'[i].extra[m] = NONE
      BY <1>4, <2>2
    <3>. QED
      BY <1>5, <2>0, <3>2, <3>3
  <2>. QED
    BY <2>1, <2>2
<1>9. /\ DOMAIN sent' = DOMAIN Numbers(req'.params)
      /\ \A i \in DOMAIN sent' : sent'[i].pn = Numbers(req'.params)[i]
  BY <1>0, <1>4, <1>5
<1>. QED
  BY <1>7, <1>8, <1>9, Zenon DEF TrueLines

\* Every step keeps the part of the invariant that is about lines.
LEMMA LinesStep ==
  ASSUME StatusInv, Forward, Flags, Looked, TrueLines, Next
  PROVE  TrueLines'
<1>. USE DEF input, ingress, target, reverse, output
<1>0. TypeOK /\ Chosen /\ Once /\ Query /\ Collected
  BY DEF StatusInv
<1>1. CASE Make
  BY <1>0, <1>1 DEF Make, Once, Unanswered, TrueLines
<1>2. CASE AnswerTarget
  BY <1>0, <1>2, AnswerIsTrueLines
<1>3. CASE kind' = "reverse"
  BY <1>3 DEF TrueLines
<1>4. ReverseOnRequest \/ GetMapping \/ OpenCursor \/ sendRow \/ AnswerReverse
        => kind' = "reverse"
  BY <1>0 DEF Chosen, ReverseOnRequest, GetMapping, OpenCursor, sendRow, AnswerReverse
<1>5. CASE pc # "idle" /\ UNCHANGED <<req, kind, sent>> /\ (status' = 200 => status = 200)
  BY <1>0, <1>5, LinesStay
<1>6. TargetOnRequest \/ DirectOnRequest \/ Sample \/ Lookup \/ onEOM
        => pc # "idle" /\ UNCHANGED <<req, kind, sent>> /\ (status' = 200 => status = 200)
  BY DEF TargetOnRequest, DirectOnRequest, Sample, Lookup, onEOM, BadRequest, respond
<1>7. requestComplete \/ onError \/ (\E n \in 1..Len(rest) : onBody(n))
        => pc # "idle" /\ UNCHANGED <<req, kind, sent>> /\ (status' = 200 => status = 200)
  BY DEF requestComplete, onError, onBody, respond
<1>8. CASE Done
  BY <1>5, <1>8 DEF Done, vars
<1>9. CASE \E m \in Mappings : Commit(m)
  <2>1. UNCHANGED <<req, kind, sent, status, pc>>
    BY <1>9 DEF Commit
  <2>2. CASE pc = "idle"
    BY <1>0, <2>1, <2>2 DEF Once, Unanswered, TrueLines
  <2>. QED
    BY <1>5, <2>1, <2>2
<1>. QED
  BY <1>1, <1>2, <1>3, <1>4, <1>5, <1>6, <1>7, <1>8, <1>9 DEF Next, Handler

\* Before a request comes no column is filled.
LEMMA InitLines == Init => LinesInv
<1>. SUFFICES ASSUME Init PROVE LinesInv
  OBVIOUS
<1>1. Forward
  BY DEF Init, Forward
<1>2. Flags /\ Looked /\ TrueLines
  BY DEF Init, Flags, Looked, TrueLines
<1>. QED
  BY <1>1, <1>2 DEF LinesInv

\* Steps of nobody keep it too.
LEMMA LinesStutter == LinesInv /\ UNCHANGED vars => LinesInv'
<1>. SUFFICES ASSUME LinesInv, UNCHANGED vars PROVE LinesInv'
  OBVIOUS
<1>. USE DEF vars, input, ingress, target, reverse, output
<1>1. Forward' /\ Flags'
  BY DEF LinesInv, Forward, Flags
<1>2. \A m : Filled(m)' = Filled(m)
  BY DEF Filled, InService, Answers, LergKey, Route
<1>3. Looked'
  BY <1>2 DEF LinesInv, Looked
<1>4. TrueLines'
  BY DEF LinesInv, TrueLines, InService
<1>. QED
  BY <1>1, <1>3, <1>4 DEF LinesInv

-----------------------------------------------------------------------------
(* Functions that are defined by recursion.                                *)

\* There is no endless descent.
LEMMA Least ==
  ASSUME NEW S \in SUBSET Nat, S # {}
  PROVE  \E m \in S : \A y \in S : m <= y
<1>1. PICK x \in S : \A y \in S : ~(<<y, x>> \in OpToRel(<, Nat))
  BY NatLessThanWellFounded, WFMin, Zenon
<1>2. \A y \in S : ~(y < x)
  BY <1>1, x \in Nat DEF OpToRel
<1>. QED
  BY <1>2, x \in Nat

\* Powers up to exponent n.
ScaledUpTo(n, k) ==
  k = [i \in 0..n |-> IF i = 0 THEN 1 ELSE Base * k[i - 1]]

\* There are powers of every exponent.
LEMMA ScaledExists ==
  ASSUME NEW n \in Nat
  PROVE  \E k : ScaledUpTo(n, k)
<1>. SUFFICES ASSUME ~\E k : ScaledUpTo(n, k) PROVE FALSE
  OBVIOUS
<1>. DEFINE bad == {m \in Nat : ~\E k : ScaledUpTo(m, k)}
<1>1. bad \in SUBSET Nat /\ bad # {}
  OBVIOUS
<1>2. PICK m \in bad : \A y \in bad : m <= y
  BY <1>1, Least
<1>3. m # 0
  <2>1. PICK k : k = [i \in {0} |-> 1]
    OBVIOUS
  <2>2. 0..0 = {0}
    OBVIOUS
  <2>3. ScaledUpTo(0, k)
    BY <2>1, <2>2 DEF ScaledUpTo
  <2>. QED
    BY <2>3
<1>4. m \in Nat /\ m - 1 \in Nat /\ m - 1 \notin bad
  BY <1>2, <1>3
<1>5. PICK k : ScaledUpTo(m - 1, k)
  BY <1>4
<1>. DEFINE last == Base * k[m - 1]
            more == [i \in 0..m |-> IF i = m THEN last ELSE k[i]]
<1>6. \A i \in 0..m : i # m => i \in 0..(m - 1)
  BY <1>4
<1>7. \A i \in 1..m : more[i - 1] = k[i - 1]
  BY <1>4
<1>8. \A i \in 0..m : more[i] = IF i = 0 THEN 1 ELSE Base * more[i - 1]
  <2>. TAKE i \in 0..m
  <2>1. CASE i = m
    BY <1>3, <1>4, <1>7, <2>1
  <2>2. CASE i # m
    <3>1. i \in 0..(m - 1) /\ more[i] = k[i]
      BY <1>6, <2>2
    <3>2. k[i] = IF i = 0 THEN 1 ELSE Base * k[i - 1]
      BY <1>5, <3>1 DEF ScaledUpTo
    <3>3. CASE i = 0
      BY <3>1, <3>2, <3>3
    <3>4. CASE i # 0
      <4>1. i \in 1..m
        BY <1>4, <3>4
      <4>2. more[i - 1] = k[i - 1]
        BY <1>7, <4>1
      <4>. HIDE DEF more
      <4>. QED
        BY <3>1, <3>2, <3>4, <4>2
    <3>. QED
      BY <3>3, <3>4
  <2>. QED
    BY <2>1, <2>2
<1>9. ScaledUpTo(m, more)
  <2>1. more = [i \in 0..m |-> more[i]]
    OBVIOUS
  <2>. HIDE DEF more
  <2>. QED
    BY <1>8, <2>1 DEF ScaledUpTo
<1>. QED
  BY <1>9

\* How powers come one from the other.
LEMMA PowerSteps == Power[0] = 1 /\ \A k \in 1..Width : Power[k] = Base * Power[k - 1]
<1>1. Width \in Nat
  BY ApiAssumption
<1>2. \E f : ScaledUpTo(Width, f)
  BY <1>1, ScaledExists
<1>3. PICK f : ScaledUpTo(Width, f) /\ f = Power
  BY <1>2, Zenon DEF Power, ScaledUpTo
<1>4. \A k \in 0..Width : f[k] = IF k = 0 THEN 1 ELSE Base * f[k - 1]
  BY <1>3 DEF ScaledUpTo
<1>5. 0 \in 0..Width /\ \A k \in 1..Width : k \in 0..Width /\ k # 0
  BY <1>1
<1>6. f[0] = 1
  BY <1>4, <1>5
<1>7. \A k \in 1..Width : f[k] = Base * f[k - 1]
  BY <1>4, <1>5
<1>. QED
  BY <1>3, <1>6, <1>7, Zenon

\* A parameter that is taken.
Fits(p) == IF p = NONE THEN FALSE ELSE p.len <= Width

\* The prefixes among the first n parameters.
TakenUpTo(s, n, k) ==
  k = [i \in 0..n |-> IF i = 0 THEN <<>> ELSE IF Fits(s[i]) THEN Append(k[i - 1], s[i]) ELSE k[i - 1]]

\* Every parameter is looked at.
LEMMA TakenExists ==
  ASSUME NEW s, NEW n \in Nat
  PROVE  \E k : TakenUpTo(s, n, k)
<1>. SUFFICES ASSUME ~\E k : TakenUpTo(s, n, k) PROVE FALSE
  OBVIOUS
<1>. DEFINE bad == {m \in Nat : ~\E k : TakenUpTo(s, m, k)}
<1>1. bad \in SUBSET Nat /\ bad # {}
  OBVIOUS
<1>2. PICK m \in bad : \A y \in bad : m <= y
  BY <1>1, Least
<1>3. m # 0
  <2>1. PICK k : k = [i \in {0} |-> <<>>]
    OBVIOUS
  <2>2. 0..0 = {0}
    OBVIOUS
  <2>3. TakenUpTo(s, 0, k)
    BY <2>1, <2>2 DEF TakenUpTo
  <2>. QED
    BY <2>3
<1>4. m \in Nat /\ m - 1 \in Nat /\ m - 1 \notin bad
  BY <1>2, <1>3
<1>5. PICK k : TakenUpTo(s, m - 1, k)
  BY <1>4
<1>. DEFINE last == IF Fits(s[m]) THEN Append(k[m - 1], s[m]) ELSE k[m - 1]
            more == [i \in 0..m |-> IF i = m THEN last ELSE k[i]]
<1>6. \A i \in 0..m : i # m => i \in 0..(m - 1)
  BY <1>4
<1>7. \A i \in 1..m : more[i - 1] = k[i - 1]
  BY <1>4
<1>8. \A i \in 0..m : more[i] = IF i = 0 THEN <<>> ELSE IF Fits(s[i]) THEN Append(more[i - 1], s[i]) ELSE more[i - 1]
  <2>. TAKE i \in 0..m
  <2>1. CASE i = m
    BY <1>3, <1>4, <1>7, <2>1
  <2>2. CASE i # m
    <3>1. i \in 0..(m - 1) /\ more[i] = k[i]
      BY <1>6, <2>2
    <3>2. k[i] = IF i = 0 THEN <<>> ELSE IF Fits(s[i]) THEN Append(k[i - 1], s[i]) ELSE k[i - 1]
      BY <1>5, <3>1 DEF TakenUpTo
    <3>3. CASE i = 0
      BY <3>1, <3>2, <3>3
    <3>4. CASE i # 0
      <4>1. i \in 1..m
        BY <1>4, <3>4
      <4>2. more[i - 1] = k[i - 1]
        BY <1>7, <4>1
      <4>. HIDE DEF more
      <4>. QED
        BY <3>1, <3>2, <3>4, <4>2
    <3>. QED
      BY <3>3, <3>4
  <2>. QED
    BY <2>1, <2>2
<1>9. TakenUpTo(s, m, more)
  <2>1. more = [i \in 0..m |-> more[i]]
    OBVIOUS
  <2>. HIDE DEF more
  <2>. QED
    BY <1>8, <2>1 DEF TakenUpTo
<1>. QED
  BY <1>9

\* The first n lists in a row.
JoinedUpTo(s, n, k) ==
  k = [i \in 0..n |-> IF i = 0 THEN <<>> ELSE k[i - 1] \o s[i]]

\* Lists can be put in a row.
LEMMA JoinedExists ==
  ASSUME NEW s, NEW n \in Nat
  PROVE  \E k : JoinedUpTo(s, n, k)
<1>. SUFFICES ASSUME ~\E k : JoinedUpTo(s, n, k) PROVE FALSE
  OBVIOUS
<1>. DEFINE bad == {m \in Nat : ~\E k : JoinedUpTo(s, m, k)}
<1>1. bad \in SUBSET Nat /\ bad # {}
  OBVIOUS
<1>2. PICK m \in bad : \A y \in bad : m <= y
  BY <1>1, Least
<1>3. m # 0
  <2>1. PICK k : k = [i \in {0} |-> <<>>]
    OBVIOUS
  <2>2. 0..0 = {0}
    OBVIOUS
  <2>3. JoinedUpTo(s, 0, k)
    BY <2>1, <2>2 DEF JoinedUpTo
  <2>. QED
    BY <2>3
<1>4. m \in Nat /\ m - 1 \in Nat /\ m - 1 \notin bad
  BY <1>2, <1>3
<1>5. PICK k : JoinedUpTo(s, m - 1, k)
  BY <1>4
<1>. DEFINE last == k[m - 1] \o s[m]
            more == [i \in 0..m |-> IF i = m THEN last ELSE k[i]]
<1>6. \A i \in 0..m : i # m => i \in 0..(m - 1)
  BY <1>4
<1>7. \A i \in 1..m : more[i - 1] = k[i - 1]
  BY <1>4
<1>8. \A i \in 0..m : more[i] = IF i = 0 THEN <<>> ELSE more[i - 1] \o s[i]
  <2>. TAKE i \in 0..m
  <2>1. CASE i = m
    BY <1>3, <1>4, <1>7, <2>1
  <2>2. CASE i # m
    <3>1. i \in 0..(m - 1) /\ more[i] = k[i]
      BY <1>6, <2>2
    <3>2. k[i] = IF i = 0 THEN <<>> ELSE k[i - 1] \o s[i]
      BY <1>5, <3>1 DEF JoinedUpTo
    <3>3. CASE i = 0
      BY <3>1, <3>2, <3>3
    <3>4. CASE i # 0
      <4>1. i \in 1..m
        BY <1>4, <3>4
      <4>2. more[i - 1] = k[i - 1]
        BY <1>7, <4>1
      <4>. HIDE DEF more
      <4>. QED
        BY <3>1, <3>2, <3>4, <4>2
    <3>. QED
      BY <3>3, <3>4
  <2>. QED
    BY <2>1, <2>2
<1>9. JoinedUpTo(s, m, more)
  <2>1. more = [i \in 0..m |-> more[i]]
    OBVIOUS
  <2>. HIDE DEF more
  <2>. QED
    BY <1>8, <2>1 DEF JoinedUpTo
<1>. QED
  BY <1>9

\* The powers are positive.
LEMMA PowerType == \A k \in 0..Width : Power[k] \in Nat \ {0}
<1>1. Base \in Nat \ {0} /\ Width \in Nat
  BY ApiAssumption
<1>. DEFINE bad == {k \in 0..Width : ~(Power[k] \in Nat \ {0})}
<1>. SUFFICES ASSUME bad # {} PROVE FALSE
  OBVIOUS
<1>2. bad \in SUBSET Nat
  OBVIOUS
<1>3. PICK m \in bad : \A y \in bad : m <= y
  BY <1>2, Least
<1>4. m # 0
  BY <1>3, PowerSteps
<1>5. m \in 1..Width /\ m - 1 \in 0..Width /\ m - 1 \notin bad
  BY <1>1, <1>3, <1>4
<1>6. PICK q \in Nat \ {0} : q = Power[m - 1]
  BY <1>5
<1>7. Power[m] = Base * q
  BY <1>5, <1>6, PowerSteps
<1>8. Base * q \in Nat \ {0}
  BY <1>1, <1>6
<1>. QED
  BY <1>3, <1>7, <1>8

\* The product of two powers.
LEMMA PowerProduct ==
  ASSUME NEW a \in 0..Width, NEW b \in 0..Width, a + b <= Width
  PROVE  Power[a] * Power[b] = Power[a + b]
<1>1. Base \in Nat \ {0} /\ Width \in Nat
  BY ApiAssumption
<1>. DEFINE bad == {k \in 0..a : Power[k] * Power[b] # Power[k + b]}
<1>. SUFFICES ASSUME bad # {} PROVE FALSE
  <2>1. a \in 0..a
    BY <1>1
  <2>2. a \notin bad => Power[a] * Power[b] = Power[a + b]
    BY <2>1
  <2>. QED
    BY <2>2
<1>2. bad \in SUBSET Nat
  BY <1>1
<1>3. PICK m \in bad : \A y \in bad : m <= y
  BY <1>2, Least
<1>4. Power[b] \in Nat
  BY PowerType
<1>5. m # 0
  BY <1>3, <1>4, PowerSteps
<1>6. m \in 1..Width /\ m - 1 \in 0..a /\ m - 1 \in 0..Width /\ m - 1 \notin bad
  BY <1>1, <1>3, <1>5
<1>7. m + b \in 1..Width /\ (m + b) - 1 = (m - 1) + b /\ (m - 1) + b \in 0..Width
  BY <1>1, <1>6
<1>8. Power[m] = Base * Power[m - 1] /\ Power[m + b] = Base * Power[(m + b) - 1]
  BY <1>6, <1>7, PowerSteps
<1>9. Power[m - 1] * Power[b] = Power[(m + b) - 1]
  BY <1>6, <1>7
<1>10. PICK x \in Nat, y \in Nat, z \in Nat : x = Power[m - 1] /\ y = Power[b] /\ z = Power[(m + b) - 1]
  BY <1>4, <1>6, <1>7, PowerType
<1>11. x * y = z
  BY <1>9, <1>10
<1>12. (Base * x) * y = Base * z
  BY <1>1, <1>10, <1>11
<1>. QED
  BY <1>3, <1>8, <1>10, <1>12

\* A number is in a range of length p exactly if its quotient is the range's.
LEMMA QuotientRange ==
  ASSUME NEW r \in Nat, NEW v \in Nat, NEW p \in Nat \ {0}
  PROVE  r \div p = v <=> v * p <= r /\ r < (v + 1) * p
<1>1. PICK q \in Nat, d \in 0..(p - 1) : q = r \div p /\ r = p * q + d
  <2>1. r \div p \in Nat /\ r % p \in 0..(p - 1) /\ r = p * (r \div p) + (r % p)
    OBVIOUS
  <2>. QED
    BY <2>1
<1>2. (v + 1) * p = v * p + p /\ p * q = q * p
  BY <1>1
<1>3. CASE q = v
  BY <1>1, <1>2, <1>3
<1>4. CASE q < v
  <2>1. (q + 1) * p <= v * p
    BY <1>1, <1>4
  <2>2. (q + 1) * p = q * p + p
    BY <1>1
  <2>. QED
    BY <1>1, <1>2, <1>4, <2>1, <2>2
<1>5. CASE q > v
  <2>1. (v + 1) * p <= q * p
    BY <1>1, <1>5
  <2>. QED
    BY <1>1, <1>2, <1>5, <2>1
<1>. QED
  BY <1>1, <1>3, <1>4, <1>5

\* A prefix that is taken.
GoodPrefix == {p \in [val : Nat, len : Nat] : p.len <= Width /\ p.val < Power[p.len]}

\* The numbers of a range are those that start with the prefix.
LEMMA RangeIsPrefix ==
  ASSUME NEW p \in GoodPrefix
  PROVE  PrefixRange(p).from .. (PrefixRange(p).to - 1)
           = {rn \in 0 .. (Power[Width] - 1) : HasPrefix(rn, p)}
<1>1. p.val \in Nat /\ p.len \in 0..Width /\ p.val < Power[p.len] /\ Width \in Nat
  BY ApiAssumption DEF GoodPrefix
<1>2. Width - p.len \in 0..Width /\ p.len + (Width - p.len) = Width
  BY <1>1
<1>3. PICK v \in Nat, q \in Nat \ {0}, w \in Nat \ {0} :
        v = p.val /\ q = Power[p.len] /\ w = Power[Width - p.len]
  BY <1>1, <1>2, PowerType
<1>4. q * w = Power[Width]
  BY <1>1, <1>2, <1>3, PowerProduct
<1>5. (v + 1) * w <= q * w
  BY <1>1, <1>3
<1>6. v * w \in Nat /\ (v + 1) * w \in Nat /\ q * w \in Nat
  BY <1>3
<1>7. \A rn \in Nat : rn \div w = v <=> v * w <= rn /\ rn < (v + 1) * w
  BY ONLY v \in Nat, w \in Nat \ {0}, QuotientRange, Zenon
<1>8. PICK a \in Nat, b \in Nat, c \in Nat : a = v * w /\ b = (v + 1) * w /\ c = q * w
  BY <1>6
<1>9. a .. (b - 1) = {rn \in 0 .. (c - 1) : rn \div w = v}
  BY <1>5, <1>7, <1>8
<1>10. PrefixRange(p).from = a /\ PrefixRange(p).to = b /\ c = Power[Width]
  BY <1>3, <1>4, <1>8 DEF PrefixRange
<1>11. \A rn : HasPrefix(rn, p) <=> rn \div w = v
  BY <1>3 DEF HasPrefix
<1>. QED
  BY <1>9, <1>10, <1>11

\* Parameter by parameter.
LEMMA PrefixSteps ==
  ASSUME NEW s, Len(s) \in Nat
  PROVE  \E k : /\ PrefixesOf(s) = k[Len(s)] /\ k[0] = <<>>
                /\ \A i \in 1..Len(s) : k[i] = IF Fits(s[i]) THEN Append(k[i - 1], s[i]) ELSE k[i - 1]
<1>1. \E k : TakenUpTo(s, Len(s), k)
  BY TakenExists
<1>2. PICK k : TakenUpTo(s, Len(s), k) /\ PrefixesOf(s) = k[Len(s)]
  BY <1>1, Zenon DEF PrefixesOf, TakenUpTo, Fits
<1>3. k[0] = <<>>
  BY <1>2 DEF TakenUpTo
<1>4. \A i \in 1..Len(s) : k[i] = IF Fits(s[i]) THEN Append(k[i - 1], s[i]) ELSE k[i - 1]
  <2>. TAKE i \in 1..Len(s)
  <2>1. i \in 0..Len(s) /\ i # 0
    OBVIOUS
  <2>. QED
    BY <1>2, <2>1 DEF TakenUpTo
<1>. QED
  BY <1>2, <1>3, <1>4

\* What is taken of a query are prefixes.
LEMMA PrefixesAre ==
  ASSUME NEW s \in ReverseQueries
  PROVE  PrefixesOf(s) \in Seq(GoodPrefix)
<1>1. Len(s) \in Nat /\ s \in Seq([val : Nat, len : Nat] \cup {NONE})
  BY ApiAssumption
<1>2. PICK k : /\ PrefixesOf(s) = k[Len(s)] /\ k[0] = <<>>
               /\ \A i \in 1..Len(s) : k[i] = IF Fits(s[i]) THEN Append(k[i - 1], s[i]) ELSE k[i - 1]
  BY <1>1, PrefixSteps
<1>. DEFINE bad == {i \in 0..Len(s) : k[i] \notin Seq(GoodPrefix)}
<1>3. bad = {}
  <2>. SUFFICES ASSUME bad # {} PROVE FALSE
    OBVIOUS
  <2>1. bad \in SUBSET Nat
    OBVIOUS
  <2>2. PICK m \in bad : \A y \in bad : m <= y
    BY <2>1, Least
  <2>3. m # 0
    <3>1. <<>> \in Seq(GoodPrefix)
      OBVIOUS
    <3>. QED
      BY <1>2, <2>2, <3>1
  <2>4. m \in 1..Len(s) /\ m - 1 \in 0..Len(s) /\ m - 1 \notin bad
    BY <1>1, <2>2, <2>3
  <2>5. k[m - 1] \in Seq(GoodPrefix)
    BY <2>4
  <2>6. ASSUME Fits(s[m]) PROVE s[m] \in GoodPrefix
    <3>1. s[m] # NONE /\ s[m].len <= Width
      BY <2>6 DEF Fits
    <3>2. s[m] \in [val : Nat, len : Nat]
      BY <1>1, <2>4, <3>1
    <3>3. s[m].val < Power[s[m].len]
      BY <1>1, <2>4, <3>1, ApiAssumption
    <3>. QED
      BY <3>1, <3>2, <3>3 DEF GoodPrefix
  <2>7. k[m] \in Seq(GoodPrefix)
    <3>1. CASE Fits(s[m])
      <4>1. k[m] = Append(k[m - 1], s[m])
        BY <1>2, <2>4, <3>1
      <4>2. Append(k[m - 1], s[m]) \in Seq(GoodPrefix)
        BY <2>5, <2>6, <3>1, AppendProperties
      <4>. QED
        BY <4>1, <4>2
    <3>2. CASE ~Fits(s[m])
      BY <1>2, <2>4, <2>5, <3>2
    <3>. QED
      BY <3>1, <3>2
  <2>. QED
    BY <2>2, <2>7
<1>. QED
  BY <1>1, <1>2, <1>3

\* Lists in a row, one after the other.
Row(s, k) == k[0] = <<>> /\ \A i \in 1..Len(s) : k[i] = k[i - 1] \o s[i]

\* FlattenSeq puts lists in a row.
LEMMA FlattenSteps ==
  ASSUME NEW X, NEW s \in Seq(Seq(X))
  PROVE  \E k : FlattenSeq(s) = k[Len(s)] /\ Row(s, k)
<1>1. Len(s) \in Nat /\ DOMAIN s = 1..Len(s)
  OBVIOUS
<1>2. CASE Len(s) = 0
  <2>1. s = <<>>
    BY <1>2
  <2>2. FlattenSeq(s) = s
    BY <1>2, Zenon DEF FlattenSeq
  <2>3. PICK k : k = [i \in {0} |-> <<>>]
    OBVIOUS
  <2>4. k[Len(s)] = <<>> /\ k[0] = <<>> /\ 1..Len(s) = {}
    BY <1>2, <2>3
  <2>. QED
    BY <2>1, <2>2, <2>4 DEF Row
<1>3. CASE Len(s) # 0
  <2>1. PICK k : JoinedUpTo(s, Len(s), k)
    BY <1>1, JoinedExists
  <2>2. \A i \in 0..Len(s) : k[i] = IF i = 0 THEN <<>> ELSE k[i - 1] \o s[i]
    BY <2>1 DEF JoinedUpTo
  <2>3. k[1] = s[1]
    <3>1. 0 \in 0..Len(s) /\ 1 \in 0..Len(s)
      BY <1>1, <1>3
    <3>2. k[0] = <<>>
      BY <2>2, <3>1
    <3>3. k[1] = k[0] \o s[1]
      <4>1. PICK i \in 0..Len(s) : i = 1
        BY <3>1
      <4>2. i # 0 /\ i - 1 = 0
        BY <4>1
      <4>3. k[i] = k[i - 1] \o s[i]
        BY <2>2, <4>2
      <4>. QED
        BY <4>1, <4>2, <4>3
    <3>4. s[1] \in Seq(X)
      BY <1>1, <1>3
    <3>5. <<>> \o s[1] = s[1]
      BY <3>4, ConcatEmptySeq
    <3>. QED
      BY <3>2, <3>3, <3>5
  <2>. DEFINE first == [i \in 1..Len(s) |-> k[i]]
  <2>4. first = [i \in 1..Len(s) |-> IF i = 1 THEN s[i] ELSE first[i - 1] \o s[i]]
    <3>1. ASSUME NEW i \in 1..Len(s) PROVE first[i] = IF i = 1 THEN s[i] ELSE first[i - 1] \o s[i]
      <4>1. CASE i = 1
        BY <2>3, <4>1
      <4>2. CASE i # 1
        <5>1. i \in 0..Len(s) /\ i # 0 /\ i - 1 \in 1..Len(s)
          BY <1>1, <4>2
        <5>2. first[i] = k[i] /\ first[i - 1] = k[i - 1] /\ k[i] = k[i - 1] \o s[i]
          BY <2>2, <5>1
        <5>. HIDE DEF first
        <5>. QED
          BY <4>2, <5>2
      <4>. QED
        BY <4>1, <4>2
    <3>2. first = [i \in 1..Len(s) |-> first[i]]
      OBVIOUS
    <3>. HIDE DEF first
    <3>. QED
      BY <3>1, <3>2
  <2>5. \E f : f = [i \in 1..Len(s) |-> IF i = 1 THEN s[i] ELSE f[i - 1] \o s[i]]
    <3>. HIDE DEF first
    <3>. QED
      BY <2>4
  <2>6. PICK f : /\ f = [i \in 1..Len(s) |-> IF i = 1 THEN s[i] ELSE f[i - 1] \o s[i]]
                 /\ FlattenSeq(s) = f[Len(s)]
    BY <1>3, <2>5, Zenon DEF FlattenSeq
  <2>7. \A i \in 1..Len(s) : f[i] = IF i = 1 THEN s[i] ELSE f[i - 1] \o s[i]
    BY <2>6
  <2>. DEFINE g == [i \in 0..Len(s) |-> IF i = 0 THEN <<>> ELSE f[i]]
  <2>8. g[0] = <<>> /\ g[Len(s)] = f[Len(s)]
    BY <1>1, <1>3
  <2>9. ASSUME NEW i \in 1..Len(s) PROVE g[i] = g[i - 1] \o s[i]
    <3>1. CASE i = 1
      <4>1. s[1] \in Seq(X)
        BY <1>1, <1>3
      <4>2. <<>> \o s[1] = s[1]
        BY <4>1, ConcatEmptySeq
      <4>3. g[1] = s[1] /\ g[0] = <<>>
        BY <1>1, <1>3, <2>7
      <4>4. i - 1 = 0
        BY <3>1
      <4>. HIDE DEF g
      <4>. QED
        BY <3>1, <4>2, <4>3, <4>4
    <3>2. CASE i # 1
      <4>1. i - 1 \in 1..Len(s) /\ i \in 0..Len(s) /\ i # 0 /\ i - 1 # 0 /\ i - 1 \in 0..Len(s)
        BY <1>1, <3>2
      <4>2. g[i] = f[i] /\ g[i - 1] = f[i - 1]
        BY <4>1
      <4>. HIDE DEF g
      <4>. QED
        BY <2>7, <3>2, <4>2
    <3>. QED
      BY <3>1, <3>2
  <2>. HIDE DEF g
  <2>. QED
    BY <2>6, <2>8, <2>9 DEF Row
<1>. QED
  BY <1>2, <1>3

\* Every list in the row makes a list.
LEMMA RowType ==
  ASSUME NEW X, NEW s \in Seq(Seq(X)), NEW k, Row(s, k)
  PROVE  \A i \in 0..Len(s) : k[i] \in Seq(X)
<1>1. Len(s) \in Nat /\ \A i \in 1..Len(s) : s[i] \in Seq(X)
  OBVIOUS
<1>. DEFINE bad == {i \in 0..Len(s) : k[i] \notin Seq(X)}
<1>. SUFFICES ASSUME bad # {} PROVE FALSE
  OBVIOUS
<1>2. bad \in SUBSET Nat
  OBVIOUS
<1>3. PICK m \in bad : \A y \in bad : m <= y
  BY <1>2, Least
<1>4. m # 0
  <2>1. <<>> \in Seq(X)
    OBVIOUS
  <2>. QED
    BY <1>3, <2>1 DEF Row
<1>5. m \in 1..Len(s) /\ m - 1 \in 0..Len(s) /\ m - 1 \notin bad
  BY <1>1, <1>3, <1>4
<1>6. k[m] = k[m - 1] \o s[m] /\ k[m - 1] \in Seq(X) /\ s[m] \in Seq(X)
  BY <1>1, <1>5 DEF Row
<1>7. k[m - 1] \o s[m] \in Seq(X)
  BY <1>6
<1>. QED
  BY <1>3, <1>6, <1>7

\* Lists in a row are determined by the lists.
LEMMA RowUnique ==
  ASSUME NEW s, NEW t, NEW k, NEW l, Row(s, k), Row(t, l), Len(s) \in Nat, Len(t) \in Nat,
         NEW n \in Nat, n <= Len(s), n <= Len(t), \A i \in 1..n : s[i] = t[i]
  PROVE  k[n] = l[n]
<1>. DEFINE bad == {i \in 0..n : k[i] # l[i]}
<1>. SUFFICES ASSUME bad # {} PROVE FALSE
  OBVIOUS
<1>1. bad \in SUBSET Nat
  OBVIOUS
<1>2. PICK m \in bad : \A y \in bad : m <= y
  BY <1>1, Least
<1>3. m # 0
  BY <1>2 DEF Row
<1>4. m \in 1..n /\ m \in 1..Len(s) /\ m \in 1..Len(t) /\ m - 1 \in 0..n /\ m - 1 \notin bad
  BY <1>2, <1>3
<1>5. k[m] = k[m - 1] \o s[m] /\ l[m] = l[m - 1] \o t[m]
  BY <1>4 DEF Row
<1>6. k[m - 1] = l[m - 1] /\ s[m] = t[m]
  BY <1>4
<1>. QED
  BY <1>2, <1>5, <1>6

\* One list more in the row.
LEMMA FlattenPrefix ==
  ASSUME NEW X, NEW s \in Seq(Seq(X))
  PROVE  /\ FlattenSeq(SubSeq(s, 1, 0)) = <<>>
         /\ FlattenSeq(SubSeq(s, 1, Len(s))) = FlattenSeq(s)
         /\ \A i \in 0..Len(s) : FlattenSeq(SubSeq(s, 1, i)) \in Seq(X)
         /\ \A i \in 0..(Len(s) - 1) :
              FlattenSeq(SubSeq(s, 1, i + 1)) = FlattenSeq(SubSeq(s, 1, i)) \o s[i + 1]
<1>1. PICK k : FlattenSeq(s) = k[Len(s)] /\ Row(s, k)
  BY FlattenSteps
<1>2. Len(s) \in Nat
  OBVIOUS
<1>3. ASSUME NEW i \in 0..Len(s) PROVE FlattenSeq(SubSeq(s, 1, i)) = k[i]
  <2>1. PICK t : t = SubSeq(s, 1, i)
    OBVIOUS
  <2>2. t \in Seq(Seq(X)) /\ Len(t) = i /\ \A j \in 1..i : t[j] = s[j]
    BY <1>2, <2>1
  <2>3. PICK l : FlattenSeq(t) = l[Len(t)] /\ Row(t, l)
    BY <2>2, FlattenSteps
  <2>4. k[i] = l[i]
    <3>1. i \in Nat /\ i <= Len(s) /\ i <= Len(t) /\ Len(t) \in Nat /\ \A j \in 1..i : s[j] = t[j]
      BY <1>2, <2>2
    <3>. QED
      BY <1>1, <1>2, <2>3, <3>1, RowUnique
  <2>. QED
    BY <2>1, <2>2, <2>3, <2>4
<1>4. \A i \in 0..Len(s) : k[i] \in Seq(X)
  BY <1>1, RowType
<1>5. FlattenSeq(SubSeq(s, 1, 0)) = <<>>
  <2>1. 0 \in 0..Len(s)
    BY <1>2
  <2>. QED
    BY <1>1, <1>3, <2>1 DEF Row
<1>6. FlattenSeq(SubSeq(s, 1, Len(s))) = FlattenSeq(s)
  <2>1. Len(s) \in 0..Len(s)
    BY <1>2
  <2>. QED
    BY <1>1, <1>3, <2>1
<1>7. ASSUME NEW i \in 0..(Len(s) - 1)
      PROVE  FlattenSeq(SubSeq(s, 1, i + 1)) = FlattenSeq(SubSeq(s, 1, i)) \o s[i + 1]
  <2>1. PICK j \in 1..Len(s) : j = i + 1
    BY <1>2
  <2>2. j \in 0..Len(s) /\ i \in 0..Len(s) /\ j - 1 = i
    BY <1>2, <2>1
  <2>3. k[j] = k[j - 1] \o s[j]
    BY <1>1 DEF Row
  <2>4. FlattenSeq(SubSeq(s, 1, j)) = k[j] /\ FlattenSeq(SubSeq(s, 1, i)) = k[i]
    BY <1>3, <2>2
  <2>. QED
    BY <2>1, <2>2, <2>3, <2>4
<1>. QED
  BY <1>3, <1>4, <1>5, <1>6, <1>7

-----------------------------------------------------------------------------
(* Rows in order.                                                          *)

\* A strict total order of S.
Orders(R, S) ==
  /\ \A a, b, c \in S : (<<a, b>> \in R /\ <<b, c>> \in R) => <<a, c>> \in R
  /\ \A a \in S : <<a, a>> \notin R
  /\ \A a, b \in S : a # b => <<a, b>> \in R \/ <<b, a>> \in R

\* A finite set can be listed in order: each element has as many before it as its
\* place says.
LEMMA SortedExists ==
  ASSUME NEW S, IsFiniteSet(S), NEW R, Orders(R, S)
  PROVE  \E s \in [1..Cardinality(S) -> S] :
           \A i, j \in 1..Cardinality(S) : i < j => <<s[i], s[j]>> \in R
<1>. DEFINE below(a) == {b \in S : <<b, a>> \in R}
            n == Cardinality(S)
            rank == [a \in S |-> Cardinality(below(a)) + 1]
<1>1. n \in Nat
  BY FS_CardinalityType
<1>2. ASSUME NEW a \in S PROVE IsFiniteSet(below(a)) /\ Cardinality(below(a)) \in Nat
  <2>1. IsFiniteSet(below(a))
    BY FS_Subset
  <2>. QED
    BY <2>1, FS_CardinalityType
<1>3. ASSUME NEW a \in S, NEW b \in S, <<a, b>> \in R
      PROVE  Cardinality(below(a)) < Cardinality(below(b))
  <2>1. below(a) \in SUBSET below(b) /\ a \in below(b) /\ a \notin below(a)
    BY <1>3 DEF Orders
  <2>. HIDE DEF below
  <2>2. Cardinality(below(a)) <= Cardinality(below(b))
    BY <1>2, <2>1, FS_Subset
  <2>3. Cardinality(below(b)) # Cardinality(below(a))
    BY <1>2, <2>1, FS_Subset
  <2>. QED
    BY <1>2, <2>2, <2>3
<1>4. ASSUME NEW a \in S PROVE Cardinality(below(a)) + 1 \in 1..n
  <2>1. below(a) \in SUBSET S /\ a \notin below(a)
    BY DEF Orders
  <2>. HIDE DEF below
  <2>2. Cardinality(below(a)) <= n /\ n # Cardinality(below(a))
    BY <2>1, FS_Subset
  <2>. QED
    BY <1>1, <1>2, <2>2
<1>5. \A a \in S : rank[a] \in 1..n /\ rank[a] = Cardinality(below(a)) + 1
  BY <1>4
<1>6. rank \in [S -> 1..n]
  BY <1>5
<1>. HIDE DEF rank, below
<1>7. \A a, b \in S : <<a, b>> \in R => rank[a] < rank[b]
  BY <1>2, <1>3, <1>5
<1>8. ASSUME NEW a \in S, NEW b \in S, rank[a] = rank[b] PROVE a = b
  <2>1. rank[a] \in Nat /\ rank[b] \in Nat
    BY <1>1, <1>5
  <2>2. <<a, b>> \notin R /\ <<b, a>> \notin R
    BY <1>7, <1>8, <2>1
  <2>. QED
    BY <2>2, Zenon DEF Orders
<1>9. rank \in Injection(S, 1..n)
  BY <1>6, <1>8 DEF Injection, IsInjective
<1>10. IsFiniteSet(1..n) /\ Cardinality(1..n) = n
  BY <1>1, FS_Interval
<1>11. rank \in Surjection(S, 1..n)
  BY <1>9, <1>10, FS_Injection
<1>12. \A i \in 1..n : \E a \in S : rank[a] = i
  BY <1>11 DEF Surjection
<1>. DEFINE s == [i \in 1..n |-> CHOOSE a \in S : rank[a] = i]
<1>13. \A i \in 1..n : s[i] \in S /\ rank[s[i]] = i
  BY <1>12
<1>14. s \in [1..n -> S]
  BY <1>13
<1>. HIDE DEF s
<1>15. ASSUME NEW i \in 1..n, NEW j \in 1..n, i < j PROVE <<s[i], s[j]>> \in R
  <2>1. s[i] \in S /\ s[j] \in S /\ rank[s[i]] = i /\ rank[s[j]] = j
    BY <1>13
  <2>2. s[i] # s[j]
    BY <1>15, <2>1
  <2>3. <<s[j], s[i]>> \notin R
    BY <1>15, <1>7, <2>1
  <2>. QED
    BY <2>1, <2>2, <2>3 DEF Orders
<1>. QED
  BY <1>14, <1>15

\* A database of routing numbers, from a file that has a row for each.
IsTable(db, place) ==
  /\ IsFiniteSet(DOMAIN db)
  /\ \A n \in DOMAIN db : n \in Nat /\ db[n] \in Nat \cup {NONE} /\ place[n] \in Nat
  /\ \A a, b \in DOMAIN db : place[a] = place[b] => a = b

IsDb(m, v) == IsTable(Db[m][v], Place[m][v])

\* The rows of a table are a list.
LEMMA SortedRowsType ==
  ASSUME NEW db, NEW place, IsTable(db, place), NEW routes
  PROVE  SortedRows(db, place, routes) \in Seq(Pair)
<1>1. PICK phones : phones = {n \in DOMAIN db : db[n] # NONE /\ db[n] \in routes}
  OBVIOUS
<1>2. /\ IsFiniteSet(phones) /\ \A n \in phones : n \in Nat /\ db[n] \in Nat /\ place[n] \in Nat
      /\ \A a, b \in phones : place[a] = place[b] => a = b
  <2>1. phones \in SUBSET DOMAIN db
    BY <1>1
  <2>2. IsFiniteSet(phones)
    BY <2>1, FS_Subset DEF IsTable
  <2>. QED
    BY <1>1, <2>2 DEF IsTable
<1>3. PICK R : R = {p \in phones \X phones :
                      db[p[1]] < db[p[2]] \/ (db[p[1]] = db[p[2]] /\ place[p[1]] < place[p[2]])}
  OBVIOUS
<1>4. \A a, b \in phones :
        <<a, b>> \in R <=> db[a] < db[b] \/ (db[a] = db[b] /\ place[a] < place[b])
  BY <1>3
<1>5. Orders(R, phones)
  BY <1>2, <1>4 DEF Orders
<1>6. PICK n \in Nat : n = Cardinality(phones)
  BY <1>2, FS_CardinalityType
<1>7. \E s \in [1..n -> phones] : \A i, j \in 1..n : i < j => <<s[i], s[j]>> \in R
  BY <1>2, <1>5, <1>6, SortedExists
<1>8. \E s \in [1..n -> phones] : \A i, j \in DOMAIN s :
        i < j => db[s[i]] < db[s[j]] \/ (db[s[i]] = db[s[j]] /\ place[s[i]] < place[s[j]])
  <2>1. PICK s \in [1..n -> phones] : \A i, j \in 1..n : i < j => <<s[i], s[j]>> \in R
    BY <1>7
  <2>2. DOMAIN s = 1..n /\ \A i \in 1..n : s[i] \in phones
    BY <2>1
  <2>. QED
    BY <1>4, <2>1, <2>2
<1>9. PICK s \in [1..n -> phones] :
        SortedRows(db, place, routes) = [i \in DOMAIN s |-> <<s[i], db[s[i]]>>]
  BY ONLY <1>1, <1>6, <1>8, ZenonT(60) DEF SortedRows
<1>10. DOMAIN s = 1..n /\ \A i \in 1..n : <<s[i], db[s[i]]>> \in Nat \X Nat
  BY <1>2, <1>9
<1>11. [i \in 1..n |-> <<s[i], db[s[i]]>>] \in [1..n -> Nat \X Nat]
  BY <1>10
<1>. QED
  BY <1>6, <1>9, <1>10, <1>11 DEF Pair

\* The rows a walk goes through are a list.
LEMMA RowsType ==
  ASSUME NEW m, NEW v, IsDb(m, v), NEW routes
  PROVE  RowsWith(m, v, routes) \in Seq(Pair)
BY SortedRowsType DEF IsDb, RowsWith

\* The databases of both countries are databases.
LEMMA DatabasesAre ==
  ASSUME NEW m \in {"us", "ca"}, NEW v \in Nat, v # 0, v <= Len(Db[m])
  PROVE  IsDb(m, v)
<1>1. Len(Db[m]) \in Nat
  BY ApiAssumption
<1>2. v \in 1..Len(Db[m])
  BY <1>1
<1>. QED
  BY <1>2, ApiAssumption DEF IsDb, IsTable

\* What the walks go through are lists of rows.
LEMMA PartTypes ==
  ASSUME NEW good \in Seq(GoodPrefix), NEW u, NEW c, IsDb("us", u), IsDb("ca", c)
  PROVE  /\ \A i \in 1..Len(good) : /\ Part(good[i], "us", u) \in Seq(Pair)
                                    /\ Part(good[i], "ca", c) \in Seq(Pair)
                                    /\ Parts(good, u, c)[i]
                                         = Part(good[i], "us", u) \o Part(good[i], "ca", c)
         /\ Parts(good, u, c) \in Seq(Seq(Pair)) /\ Len(Parts(good, u, c)) = Len(good)
<1>1. \A p : Part(p, "us", u) \in Seq(Pair) /\ Part(p, "ca", c) \in Seq(Pair)
  BY RowsType DEF Part
<1>2. \A p : Part(p, "us", u) \o Part(p, "ca", c) \in Seq(Pair)
  BY <1>1, ConcatProperties
<1>3. DOMAIN good = 1..Len(good) /\ Len(good) \in Nat
  OBVIOUS
<1>4. PICK s : s = [i \in 1..Len(good) |-> Part(good[i], "us", u) \o Part(good[i], "ca", c)]
  OBVIOUS
<1>5. Parts(good, u, c) = s
  BY <1>3, <1>4 DEF Parts
<1>6. s \in Seq(Seq(Pair)) /\ Len(s) = Len(good)
  BY <1>2, <1>3, <1>4
<1>7. \A i \in 1..Len(good) : s[i] = Part(good[i], "us", u) \o Part(good[i], "ca", c)
  BY <1>4
<1>. QED
  BY <1>1, <1>5, <1>6, <1>7

\* What an even number of walks lists.
LEMMA ListedWhole ==
  ASSUME NEW good \in Seq(GoodPrefix), NEW u, NEW c, IsDb("us", u), IsDb("ca", c),
         NEW i \in 0..Len(good)
  PROVE  /\ Listed(good, u, c, 2 * i) = FlattenSeq(SubSeq(Parts(good, u, c), 1, i))
         /\ FlattenSeq(SubSeq(Parts(good, u, c), 1, i)) \in Seq(Pair)
<1>1. PICK s : s = Parts(good, u, c)
  OBVIOUS
<1>2. s \in Seq(Seq(Pair)) /\ Len(s) = Len(good) /\ Len(good) \in Nat
  BY <1>1, PartTypes
<1>3. PICK f : f = FlattenSeq(SubSeq(s, 1, i))
  OBVIOUS
<1>4. f \in Seq(Pair)
  BY <1>2, <1>3, FlattenPrefix
<1>5. (2 * i) \div 2 = i /\ (2 * i) % 2 # 1
  BY <1>2
<1>6. Listed(good, u, c, 2 * i) = f \o <<>>
  BY <1>1, <1>3, <1>5 DEF Listed
<1>7. f \o <<>> = f
  BY <1>4, ConcatEmptySeq
<1>. QED
  BY <1>1, <1>3, <1>4, <1>6, <1>7

\* The US mapping is walked first.
LEMMA ListedUs ==
  ASSUME NEW good \in Seq(GoodPrefix), NEW u, NEW c, IsDb("us", u), IsDb("ca", c),
         NEW i \in 0..(Len(good) - 1)
  PROVE  Listed(good, u, c, 2 * i + 1) = Listed(good, u, c, 2 * i) \o Part(good[i + 1], "us", u)
<1>1. i \in 0..Len(good) /\ i \in Nat
  OBVIOUS
<1>2. (2 * i + 1) \div 2 = i /\ (2 * i + 1) % 2 = 1 /\ ((2 * i + 1) + 1) \div 2 = i + 1
  BY <1>1
<1>3. Listed(good, u, c, 2 * i + 1)
        = FlattenSeq(SubSeq(Parts(good, u, c), 1, i)) \o Part(good[i + 1], "us", u)
  BY <1>2 DEF Listed
<1>4. Listed(good, u, c, 2 * i) = FlattenSeq(SubSeq(Parts(good, u, c), 1, i))
  BY <1>1, ListedWhole
<1>. QED
  BY <1>3, <1>4

\* Then the CA mapping is walked.
LEMMA ListedCa ==
  ASSUME NEW good \in Seq(GoodPrefix), NEW u, NEW c, IsDb("us", u), IsDb("ca", c),
         NEW i \in 0..(Len(good) - 1)
  PROVE  Listed(good, u, c, 2 * i + 2) = Listed(good, u, c, 2 * i + 1) \o Part(good[i + 1], "ca", c)
<1>1. i \in 0..Len(good) /\ i + 1 \in 0..Len(good) /\ i + 1 \in 1..Len(good) /\ 2 * (i + 1) = 2 * i + 2
  OBVIOUS
<1>2. PICK s : s = Parts(good, u, c)
  OBVIOUS
<1>3. s \in Seq(Seq(Pair)) /\ Len(s) = Len(good) /\ Len(good) \in Nat
  BY <1>2, PartTypes
<1>4. PICK a \in Seq(Pair) : a = FlattenSeq(SubSeq(s, 1, i))
  BY <1>1, <1>3, FlattenPrefix
<1>5. PICK b \in Seq(Pair), d \in Seq(Pair) : b = Part(good[i + 1], "us", u) /\ d = Part(good[i + 1], "ca", c)
  BY <1>1, PartTypes
<1>6. s[i + 1] = b \o d
  BY <1>1, <1>2, <1>5, PartTypes
<1>7. FlattenSeq(SubSeq(s, 1, i + 1)) = a \o (b \o d)
  <2>1. i \in 0..(Len(s) - 1)
    BY <1>3
  <2>2. FlattenSeq(SubSeq(s, 1, i + 1)) = FlattenSeq(SubSeq(s, 1, i)) \o s[i + 1]
    BY <1>3, <2>1, FlattenPrefix
  <2>. QED
    BY <1>4, <1>6, <2>2
<1>8. a \o (b \o d) = (a \o b) \o d
  BY ONLY a \in Seq(Pair), b \in Seq(Pair), d \in Seq(Pair)
<1>9. Listed(good, u, c, 2 * (i + 1)) = FlattenSeq(SubSeq(s, 1, i + 1))
  BY <1>1, <1>2, ListedWhole
<1>10. Listed(good, u, c, 2 * i) = a
  BY <1>1, <1>2, <1>4, ListedWhole
<1>11. Listed(good, u, c, 2 * i + 1) = a \o b
  BY <1>5, <1>10, ListedUs
<1>. QED
  BY <1>1, <1>5, <1>7, <1>8, <1>9, <1>11

\* What no walk lists, and what all of them do.
LEMMA ListedEnds ==
  ASSUME NEW good \in Seq(GoodPrefix), NEW u, NEW c, IsDb("us", u), IsDb("ca", c)
  PROVE  /\ Listed(good, u, c, 0) = <<>>
         /\ Listed(good, u, c, 2 * Len(good)) = FlattenSeq(Parts(good, u, c))
<1>1. PICK s : s = Parts(good, u, c)
  OBVIOUS
<1>2. s \in Seq(Seq(Pair)) /\ Len(s) = Len(good) /\ Len(good) \in Nat
  BY <1>1, PartTypes
<1>3. FlattenSeq(SubSeq(s, 1, 0)) = <<>> /\ FlattenSeq(SubSeq(s, 1, Len(good))) = FlattenSeq(s)
  BY <1>2, FlattenPrefix
<1>4. 0 \in 0..Len(good) /\ Len(good) \in 0..Len(good) /\ 2 * 0 = 0
  BY <1>2
<1>5. Listed(good, u, c, 2 * 0) = FlattenSeq(SubSeq(s, 1, 0))
  BY <1>1, <1>4, ListedWhole
<1>6. Listed(good, u, c, 2 * Len(good)) = FlattenSeq(SubSeq(s, 1, Len(good)))
  BY <1>1, <1>4, ListedWhole
<1>. QED
  BY <1>1, <1>3, <1>4, <1>5, <1>6

\* Before the first walk nothing is listed.
LEMMA WalksBegin ==
  ASSUME NEW good \in Seq(GoodPrefix), NEW u, NEW c, IsDb("us", u), IsDb("ca", c),
         NEW ranges, Len(ranges) \in Nat
  PROVE  Begun(ranges, [j \in 1..(2 * Len(ranges)) |-> Walk(ranges, j)], <<>>, <<>>, <<>>, good, u, c)
<1>1. Listed(good, u, c, 0) = <<>>
  BY ListedEnds
<1>2. (<<>> \o <<>>) \o <<>> = <<>>
  OBVIOUS
<1>3. 0 \in 0..(2 * Len(ranges)) /\ 2 * Len(ranges) - 0 = 2 * Len(ranges)
  OBVIOUS
<1>4. \A j \in 1..(2 * Len(ranges)) : j + 0 = j
  OBVIOUS
<1>5. [j \in 1..(2 * Len(ranges)) |-> Walk(ranges, j)]
        = [j \in 1..(2 * Len(ranges) - 0) |-> Walk(ranges, j + 0)]
  BY <1>3, <1>4
<1>. QED
  BY <1>1, <1>2, <1>3, <1>5 DEF Begun, LeftAfter

\* The walks that are left after the next one.
LEMMA WalksLeft ==
  ASSUME NEW ranges, Len(ranges) \in Nat, NEW k \in 0..(2 * Len(ranges)), NEW left, left # <<>>,
         LeftAfter(ranges, k, left)
  PROVE  /\ k + 1 \in 0..(2 * Len(ranges)) /\ Head(left) = Walk(ranges, k + 1)
         /\ LeftAfter(ranges, k + 1, Tail(left))
<1>1. PICK n \in Nat : n = 2 * Len(ranges) - k
  <2>1. PICK l \in Nat : l = Len(ranges)
    OBVIOUS
  <2>2. k \in 0..(2 * l)
    BY <2>1
  <2>3. 2 * l - k \in Nat
    BY ONLY l \in Nat, <2>2
  <2>. QED
    BY <2>1, <2>3
<1>. DEFINE W == {Walk(ranges, j) : j \in Nat}
<1>2. \A j \in 1..n : j + k \in Nat /\ Walk(ranges, j + k) \in W
  OBVIOUS
<1>. HIDE DEF W
<1>3. left \in Seq(W) /\ Len(left) = n /\ \A j \in 1..n : left[j] = Walk(ranges, j + k)
  <2>1. left = [j \in 1..n |-> Walk(ranges, j + k)]
    BY <1>1 DEF LeftAfter
  <2>2. left \in [1..n -> W]
    BY <1>2, <2>1
  <2>3. left \in Seq(W)
    BY ONLY n \in Nat, <2>2
  <2>4. DOMAIN left = 1..n
    BY <2>2
  <2>5. Len(left) = n
    BY <2>3, <2>4
  <2>. QED
    BY <2>1, <2>3, <2>5
<1>4. n # 0
  BY <1>3
<1>5. Head(left) = Walk(ranges, k + 1)
  BY <1>1, <1>3, <1>4
<1>6. PICK t : t = Tail(left)
  OBVIOUS
<1>7. t \in Seq(W) /\ Len(t) = n - 1 /\ \A j \in 1..(n - 1) : t[j] = left[j + 1]
  BY <1>3, <1>4, <1>6
<1>8. \A j \in 1..(n - 1) : t[j] = Walk(ranges, j + (k + 1))
  <2>. TAKE j \in 1..(n - 1)
  <2>1. j + 1 \in 1..n /\ (j + 1) + k = j + (k + 1)
    BY <1>1, <1>4
  <2>. QED
    BY <1>3, <1>7, <2>1
<1>9. t = [j \in 1..(n - 1) |-> Walk(ranges, j + (k + 1))]
  BY <1>7, <1>8
<1>10. n - 1 = 2 * Len(ranges) - (k + 1) /\ k + 1 \in 0..(2 * Len(ranges))
  BY <1>1, <1>4
<1>. QED
  BY <1>5, <1>6, <1>9, <1>10 DEF LeftAfter

\* A cursor is opened on the rows that are to be listed next.
LEMMA WalksGoOn ==
  ASSUME NEW good \in Seq(GoodPrefix), NEW u, NEW c, IsDb("us", u), IsDb("ca", c),
         NEW ranges, ranges = [i \in DOMAIN good |-> PrefixRange(good[i])],
         NEW left, left # <<>>, NEW done \in Seq(Pair), NEW next \in Seq(Pair),
         Begun(ranges, left, done, next, <<>>, good, u, c), NEW m, m = Head(left)[2], NEW v,
         v = IF m = "us" THEN u ELSE c
  PROVE  /\ m \in {"us", "ca"}
         /\ Begun(ranges, Tail(left), done, next,
                  RowsWith(m, v, Head(left)[1].from .. (Head(left)[1].to - 1)), good, u, c)
<1>1. Len(good) \in Nat /\ DOMAIN good = 1..Len(good)
  OBVIOUS
<1>2. Len(ranges) = Len(good) /\ \A i \in 1..Len(good) : ranges[i] = PrefixRange(good[i])
  BY <1>1
<1>3. PICK k \in 0..(2 * Len(ranges)) :
        /\ LeftAfter(ranges, k, left)
        /\ (done \o next) \o <<>> = Listed(good, u, c, k)
  BY DEF Begun
<1>4. /\ k + 1 \in 0..(2 * Len(ranges)) /\ Head(left) = Walk(ranges, k + 1)
      /\ LeftAfter(ranges, k + 1, Tail(left))
  <2>1. Len(ranges) \in Nat
    BY <1>1, <1>2
  <2>. QED
    BY <1>3, <2>1, WalksLeft, Zenon
<1>5. done \o next = Listed(good, u, c, k)
  <2>1. done \o next \in Seq(Pair)
    BY ConcatProperties
  <2>2. (done \o next) \o <<>> = done \o next
    BY <2>1, ConcatEmptySeq
  <2>. QED
    BY <1>3, <2>2
<1>6. ASSUME NEW i \in 0..(Len(good) - 1)
      PROVE  \A w, x : RowsWith(w, x,
                            PrefixRange(good[i + 1]).from .. (PrefixRange(good[i + 1]).to - 1))
                     = Part(good[i + 1], w, x)
  <2>1. good[i + 1] \in GoodPrefix
    BY <1>1
  <2>. QED
    BY <2>1, RangeIsPrefix DEF Part
<1>7. PICK h \in Nat : k = 2 * h \/ k = 2 * h + 1
  <2>1. k \in Nat
    BY <1>1, <1>2
  <2>2. k \div 2 \in Nat /\ (k = 2 * (k \div 2) \/ k = 2 * (k \div 2) + 1)
    BY ONLY <2>1
  <2>. QED
    BY <2>2
<1>8. h \in 0..(Len(good) - 1) /\ h + 1 \in 1..Len(good)
  BY <1>1, <1>2, <1>4, <1>7
<1>9. CASE k = 2 * h
  <2>1. ((k + 1) + 1) \div 2 = h + 1 /\ (k + 1) % 2 = 1
    BY <1>7, <1>9
  <2>2. Head(left) = <<PrefixRange(good[h + 1]), "us">>
    BY <1>2, <1>4, <1>8, <2>1 DEF Walk
  <2>3. m = "us" /\ v = u
    BY <2>2
  <2>4. RowsWith(m, v, Head(left)[1].from .. (Head(left)[1].to - 1)) = Part(good[h + 1], "us", u)
    <3>1. Head(left)[1] = PrefixRange(good[h + 1])
      BY <2>2
    <3>2. \A w, x : RowsWith(w, x, PrefixRange(good[h + 1]).from .. (PrefixRange(good[h + 1]).to - 1))
                     = Part(good[h + 1], w, x)
      BY <1>6, <1>8, Zenon
    <3>. QED
      BY <2>3, <3>1, <3>2, Zenon
  <2>5. Listed(good, u, c, k + 1) = Listed(good, u, c, k) \o Part(good[h + 1], "us", u)
    BY <1>8, <1>9, ListedUs
  <2>. QED
    BY <1>4, <1>5, <2>3, <2>4, <2>5 DEF Begun
<1>10. CASE k = 2 * h + 1
  <2>1. ((k + 1) + 1) \div 2 = h + 1 /\ (k + 1) % 2 # 1 /\ k + 1 = 2 * h + 2
    BY <1>7, <1>10
  <2>2. Head(left) = <<PrefixRange(good[h + 1]), "ca">>
    BY <1>2, <1>4, <1>8, <2>1 DEF Walk
  <2>3. m = "ca" /\ v = c
    BY <2>2
  <2>4. RowsWith(m, v, Head(left)[1].from .. (Head(left)[1].to - 1)) = Part(good[h + 1], "ca", c)
    <3>1. Head(left)[1] = PrefixRange(good[h + 1])
      BY <2>2
    <3>2. \A w, x : RowsWith(w, x, PrefixRange(good[h + 1]).from .. (PrefixRange(good[h + 1]).to - 1))
                     = Part(good[h + 1], w, x)
      BY <1>6, <1>8, Zenon
    <3>. QED
      BY <2>3, <3>1, <3>2, Zenon
  <2>5. Listed(good, u, c, k + 1) = Listed(good, u, c, k) \o Part(good[h + 1], "ca", c)
    <3>1. Listed(good, u, c, 2 * h + 2) = Listed(good, u, c, 2 * h + 1) \o Part(good[h + 1], "ca", c)
      BY <1>8, ListedCa
    <3>. QED
      BY <1>10, <2>1, <3>1
  <2>. QED
    BY <1>4, <1>5, <2>3, <2>4, <2>5 DEF Begun
<1>. QED
  BY <1>7, <1>9, <1>10

\* What was sent, is kept and is left to read is the same before and after.
SameRows(a, b, w, d, e, r) == (d \o e) \o r = (a \o b) \o w

\* A row goes from the cursor w to the record b, or with it to the client, a.
HandedOn(a, b, w, d, e, r) ==
  /\ r = Tail(w)
  /\ \/ d = a \o Append(b, Head(w)) /\ e = <<>>
     \/ d = a /\ e = Append(b, Head(w))

\* A row goes from the cursor to the record, and the record to the client.
LEMMA RowMoves ==
  ASSUME NEW a \in Seq(Pair), NEW b \in Seq(Pair), NEW w \in Seq(Pair), w # <<>>,
         NEW d, NEW e, NEW r, HandedOn(a, b, w, d, e, r)
  PROVE  /\ d \in Seq(Pair) /\ e \in Seq(Pair) /\ r \in Seq(Pair)
         /\ SameRows(a, b, w, d, e, r)
<1>1. PICK h \in Pair, t \in Seq(Pair) : h = Head(w) /\ t = Tail(w) /\ w = <<h>> \o t
  <2>1. Head(w) \in Pair /\ Tail(w) \in Seq(Pair) /\ w = <<Head(w)>> \o Tail(w)
    OBVIOUS
  <2>. QED
    BY <2>1
<1>2. <<h>> \in Seq(Pair) /\ Append(b, h) = b \o <<h>> /\ b \o <<h>> \in Seq(Pair)
  OBVIOUS
<1>3. a \o (b \o <<h>>) = (a \o b) \o <<h>> /\ a \o b \in Seq(Pair) /\ a \o (b \o <<h>>) \in Seq(Pair)
  BY ONLY a \in Seq(Pair), b \in Seq(Pair), <<h>> \in Seq(Pair), <1>2
<1>4. ((a \o b) \o <<h>>) \o t = (a \o b) \o (<<h>> \o t)
  BY ONLY a \o b \in Seq(Pair), <<h>> \in Seq(Pair), t \in Seq(Pair), <1>2, <1>3
<1>5. (a \o (b \o <<h>>)) \o <<>> = a \o (b \o <<h>>) /\ <<>> \in Seq(Pair)
  BY <1>3, ConcatEmptySeq
<1>6. CASE d = a \o Append(b, Head(w)) /\ e = <<>>
  BY <1>1, <1>2, <1>3, <1>4, <1>5, <1>6 DEF HandedOn, SameRows
<1>7. CASE d = a /\ e = Append(b, Head(w))
  BY <1>1, <1>2, <1>3, <1>4, <1>7 DEF HandedOn, SameRows
<1>. QED
  BY <1>6, <1>7 DEF HandedOn

\* After the last walk everything is listed.
LEMMA WalksEnd ==
  ASSUME NEW good \in Seq(GoodPrefix), NEW u, NEW c, IsDb("us", u), IsDb("ca", c),
         NEW ranges, ranges = [i \in DOMAIN good |-> PrefixRange(good[i])],
         NEW done \in Seq(Pair), NEW next \in Seq(Pair),
         Begun(ranges, <<>>, done, next, <<>>, good, u, c)
  PROVE  done \o next = FlattenSeq(Parts(good, u, c))
<1>1. Len(good) \in Nat /\ DOMAIN good = 1..Len(good)
  OBVIOUS
<1>2. Len(ranges) = Len(good)
  BY <1>1
<1>3. PICK k \in 0..(2 * Len(ranges)) :
        /\ LeftAfter(ranges, k, <<>>)
        /\ (done \o next) \o <<>> = Listed(good, u, c, k)
  BY DEF Begun
<1>4. k = 2 * Len(good)
  <2>1. DOMAIN <<>> = {}
    OBVIOUS
  <2>2. 1..(2 * Len(ranges) - k) = {}
    BY <1>3, <2>1 DEF LeftAfter
  <2>3. PICK l \in Nat : l = Len(good)
    BY <1>1
  <2>4. k \in 0..(2 * l) /\ 1..(2 * l - k) = {}
    BY <1>2, <2>2, <2>3
  <2>5. ~(1 \in 1..(2 * l - k))
    BY <2>4
  <2>6. k = 2 * l
    BY ONLY <2>3, <2>4, <2>5
  <2>. QED
    BY <2>3, <2>6
<1>5. (done \o next) \o <<>> = done \o next
  <2>1. done \o next \in Seq(Pair)
    BY ConcatProperties
  <2>. QED
    BY <2>1, ConcatEmptySeq
<1>. QED
  BY <1>3, <1>4, <1>5, ListedEnds

-----------------------------------------------------------------------------
(* The rows of /reverse.                                                   *)

\* A request to /reverse asks for prefixes.
LEMMA ReverseRequest ==
  ASSUME NEW r \in Requests, r.path = "/reverse"
  PROVE  /\ PrefixesOf(r.params) \in Seq(GoodPrefix)
         /\ Ranges(r.params) = [i \in DOMAIN PrefixesOf(r.params) |-> PrefixRange(PrefixesOf(r.params)[i])]
         /\ Len(Ranges(r.params)) \in Nat
<1>1. r.params \in ReverseQueries
  BY DEF Requests
<1>2. PICK good \in Seq(GoodPrefix) : good = PrefixesOf(r.params)
  BY <1>1, PrefixesAre
<1>3. DOMAIN good = 1..Len(good) /\ Len(good) \in Nat
  OBVIOUS
<1>4. Ranges(r.params) = [i \in DOMAIN good |-> PrefixRange(good[i])]
  BY <1>2 DEF Ranges
<1>5. PICK s : s = [i \in 1..Len(good) |-> PrefixRange(good[i])]
  OBVIOUS
<1>6. Len(s) = Len(good)
  BY <1>3, <1>5
<1>. QED
  BY <1>2, <1>3, <1>4, <1>5, <1>6

\* The steps that have nothing to do with the rows of /reverse.
Aside ==
  /\ UNCHANGED <<store, arrived, req, kind, snap, cursor, record, sent>>
  /\ pc' \notin {"idle", "made", "get", "walk"}
  /\ status' = 200 => status = 200

\* Every step is a step of /reverse, of the factory or of a command, or is aside.
LEMMA ReverseSteps ==
  ASSUME TypeOK, Next
  PROVE  \/ Make \/ ReverseOnRequest \/ AnswerTarget
         \/ GetMapping \/ OpenCursor \/ sendRow \/ AnswerReverse
         \/ (\E m \in Mappings : Commit(m)) \/ Aside
<1>. USE DEF input, ingress, target, reverse, output, Aside
<1>1. TargetOnRequest => Aside
  BY DEF TargetOnRequest, Ask, respond, BadRequest
<1>2. DirectOnRequest => Aside
  BY DEF DirectOnRequest
<1>3. Sample => Aside
  BY DEF Sample
<1>4. Lookup => Aside
  BY DEF Lookup
<1>5. onEOM => Aside
  BY DEF onEOM, respond, Ask
<1>6. requestComplete => Aside
  BY DEF requestComplete
<1>7. onError => Aside
  BY DEF onError
<1>8. Done => Aside
  BY DEF Done, vars
<1>9. ASSUME NEW n \in 1..Len(rest), onBody(n) PROVE Aside
  BY <1>9 DEF onBody, respond
<1>. QED
  BY <1>1, <1>2, <1>3, <1>4, <1>5, <1>6, <1>7, <1>8, <1>9 DEF Next, Handler

\* Mappings that a request has got are in service, and are databases.
LEMMA GotDatabases ==
  ASSUME TypeOK, ReverseType, NEW m \in {"us", "ca"}, Got(m)
  PROVE  IsDb(m, snap[m])
<1>1. m \in Mappings
  BY MappingsFacts
<1>2. store[m] \in Nat /\ arrived[m] \in Nat /\ store[m] <= Len(Db[m]) /\ Len(Db[m]) \in Nat
  BY <1>1, ApiAssumption DEF TypeOK, ReverseType
<1>3. snap[m] \in Nat /\ snap[m] # 0 /\ snap[m] <= Len(Db[m])
  BY <1>2 DEF Got, InService
<1>. QED
  BY <1>3, DatabasesAre

\* What has been got stays got.
LEMMA GotStays ==
  ASSUME TypeOK, Next, pc # "idle", NEW m \in {"us", "ca"}, Got(m), snap'[m] = snap[m]
  PROVE  Got(m)'
<1>1. m \in Mappings
  BY MappingsFacts
<1>2. InService(m) \subseteq InService(m)'
  BY <1>1, InServiceGrows
<1>. QED
  BY <1>2 DEF Got

\* A cursor is opened where the invariant says.
LEMMA OpenedCursor ==
  ASSUME TypeOK, Chosen, ReverseType, Getting, Walking, OpenCursor
  PROVE  /\ cursor' \in Seq(Pair)
         /\ Begun(pn, todo', sent, record, cursor', PrefixesOf(req.params), snap["us"], snap["ca"])
<1>1. /\ pc = "walk" /\ cursor = <<>> /\ todo # <<>> /\ todo' = Tail(todo)
      /\ cursor' = RowsWith(Head(todo)[2], snap[Head(todo)[2]],
                            Head(todo)[1].from .. (Head(todo)[1].to - 1))
  BY DEF OpenCursor, Held
<1>2. kind = "reverse" /\ req \in Requests /\ req.path = "/reverse" /\ pn = Ranges(req.params)
  BY <1>1 DEF TypeOK, Chosen, Getting
<1>3. PICK good \in Seq(GoodPrefix) :
        /\ good = PrefixesOf(req.params)
        /\ pn = [i \in DOMAIN good |-> PrefixRange(good[i])]
  BY <1>2, ReverseRequest
<1>4. /\ Got("us") /\ Got("ca")
      /\ Begun(pn, todo, sent, record, <<>>, good, snap["us"], snap["ca"])
  BY <1>1, <1>3 DEF Walking
<1>5. IsDb("us", snap["us"]) /\ IsDb("ca", snap["ca"])
  BY <1>4, GotDatabases
<1>6. sent \in Seq(Pair) /\ record \in Seq(Pair)
  BY <1>2 DEF ReverseType
<1>7. PICK m, v : m = Head(todo)[2] /\ v = IF m = "us" THEN snap["us"] ELSE snap["ca"]
  OBVIOUS
<1>8. /\ m \in {"us", "ca"}
      /\ Begun(pn, Tail(todo), sent, record,
               RowsWith(m, v, Head(todo)[1].from .. (Head(todo)[1].to - 1)),
               good, snap["us"], snap["ca"])
  <2>1. PICK u, c, p, td, st, rc : /\ u = snap["us"] /\ c = snap["ca"] /\ p = pn
                                   /\ td = todo /\ st = sent /\ rc = record
    OBVIOUS
  <2>2. /\ IsDb("us", u) /\ IsDb("ca", c)
        /\ p = [i \in DOMAIN good |-> PrefixRange(good[i])] /\ td # <<>>
        /\ st \in Seq(Pair) /\ rc \in Seq(Pair) /\ Begun(p, td, st, rc, <<>>, good, u, c)
        /\ m = Head(td)[2] /\ v = IF m = "us" THEN u ELSE c
    BY <1>1, <1>3, <1>4, <1>5, <1>6, <1>7, <2>1
  <2>3. /\ m \in {"us", "ca"}
        /\ Begun(p, Tail(td), st, rc,
                 RowsWith(m, v, Head(td)[1].from .. (Head(td)[1].to - 1)), good, u, c)
    BY ONLY <2>2, good \in Seq(GoodPrefix), WalksGoOn, ZenonT(60)
  <2>. QED
    BY <2>1, <2>3
<1>9. v = snap[m] /\ IsDb(m, v)
  BY <1>5, <1>7, <1>8
<1>10. cursor' = RowsWith(m, v, Head(todo)[1].from .. (Head(todo)[1].to - 1))
  BY <1>1, <1>7, <1>9
<1>11. cursor' \in Seq(Pair)
  BY <1>9, <1>10, RowsType
<1>. QED
  BY <1>1, <1>3, <1>8, <1>10, <1>11

\* Rows are handed on without a change of what was listed.
LEMMA SentRow ==
  ASSUME ReverseType, kind = "reverse", sendRow
  PROVE  /\ cursor' \in Seq(Pair) /\ record' \in Seq(Pair) /\ sent' \in Seq(Pair)
         /\ (sent' \o record') \o cursor' = (sent \o record) \o cursor
<1>1. sent \in Seq(Pair) /\ record \in Seq(Pair) /\ cursor \in Seq(Pair) /\ cursor # <<>>
  BY DEF ReverseType, sendRow
<1>2. PICK a, b, w, d, e, r : /\ a = sent /\ b = record /\ w = cursor
                              /\ d = sent' /\ e = record' /\ r = cursor'
  OBVIOUS
<1>3. a \in Seq(Pair) /\ b \in Seq(Pair) /\ w \in Seq(Pair) /\ w # <<>>
  BY <1>1, <1>2
<1>4. r = Tail(w)
  BY <1>2 DEF sendRow
<1>5. HandedOn(a, b, w, d, e, r)
  BY <1>2, <1>4 DEF sendRow, HandedOn
<1>6. /\ d \in Seq(Pair) /\ e \in Seq(Pair) /\ r \in Seq(Pair)
      /\ SameRows(a, b, w, d, e, r)
  BY ONLY <1>3, <1>5, RowMoves, Zenon
<1>. QED
  BY <1>2, <1>6 DEF SameRows

\* Before a request comes nothing is listed.
LEMMA InitReverse == Init => ReverseInv
<1>. SUFFICES ASSUME Init PROVE ReverseInv
  OBVIOUS
<1>1. ReverseType
  <2>1. <<>> \in Seq(Pair)
    OBVIOUS
  <2>2. "us" \in Mappings /\ "ca" \in Mappings
    BY MappingsFacts
  <2>3. \A m \in {"us", "ca"} : Len(Db[m]) \in Nat
    BY ApiAssumption
  <2>4. \A m \in {"us", "ca"} : store[m] <= Len(Db[m])
    BY <2>2, <2>3 DEF Init
  <2>5. snap \in [{"us", "ca"} -> Nat]
    BY DEF Init
  <2>. QED
    BY <2>1, <2>4, <2>5 DEF Init, ReverseType
<1>2. Getting /\ Walking /\ TrueRows
  BY DEF Init, Getting, Walking, TrueRows
<1>. QED
  BY <1>1, <1>2 DEF ReverseInv

\* The variables of /reverse keep their types.
LEMMA ReverseTypeStep ==
  TypeOK /\ Chosen /\ ReverseType /\ Getting /\ Walking /\ Next => ReverseType'
<1>. SUFFICES ASSUME TypeOK, Chosen, ReverseType, Getting, Walking, Next PROVE ReverseType'
  OBVIOUS
<1>. USE DEF input, ingress, target, reverse, output
<1>1. CASE Make
  BY <1>1 DEF Make, ReverseType, Getting
<1>2. CASE ReverseOnRequest
  BY <1>2 DEF ReverseOnRequest, ReverseType
<1>3. CASE AnswerTarget
  BY <1>3 DEF AnswerTarget, ReverseType, Chosen
<1>4. CASE GetMapping
  <2>1. "us" \in Mappings /\ "ca" \in Mappings
    BY MappingsFacts
  <2>2. store["us"] \in Nat /\ store["ca"] \in Nat
    BY <2>1 DEF TypeOK
  <2>3. todo # <<>> => Head(todo) \in {"us", "ca"}
    BY <1>4 DEF GetMapping, Getting
  <2>4. snap' \in [{"us", "ca"} -> Nat]
    BY <1>4, <2>2, <2>3 DEF GetMapping, ReverseType
  <2>. QED
    BY <1>4, <2>4 DEF GetMapping, ReverseType
<1>5. CASE OpenCursor
  BY <1>5, OpenedCursor DEF OpenCursor, ReverseType
<1>6. CASE sendRow
  <2>1. kind = "reverse"
    BY <1>6 DEF sendRow, Chosen
  <2>. QED
    BY <1>6, <2>1, SentRow DEF sendRow, ReverseType
<1>7. CASE AnswerReverse
  <2>1. sent \in Seq(Pair) /\ record \in Seq(Pair)
    BY <1>7 DEF AnswerReverse, ReverseType, Chosen
  <2>2. sent' \in Seq(Pair)
    BY <1>7, <2>1, ConcatProperties DEF AnswerReverse
  <2>. QED
    BY <1>7, <2>2 DEF AnswerReverse, ReverseType
<1>8. ASSUME NEW m \in Mappings, Commit(m) PROVE ReverseType'
  <2>1. "us" \in Mappings /\ "ca" \in Mappings
    BY MappingsFacts
  <2>2. \A w \in {"us", "ca"} : store[w] \in Nat /\ Len(Db[w]) \in Nat
    BY <2>1, ApiAssumption, SMTT(30) DEF TypeOK
  <2>3. \A w \in {"us", "ca"} : store'[w] = store[w] \/ (w = m /\ store'[w] = store[w] + 1)
    BY <1>8, <2>1 DEF Commit, TypeOK
  <2>4. ASSUME NEW w \in {"us", "ca"} PROVE store'[w] <= Len(Db[w])
    BY <1>8, <2>2, <2>3 DEF Commit, ReverseType
  <2>. QED
    BY <1>8, <2>4 DEF Commit, ReverseType
<1>9. CASE Aside
  BY <1>9 DEF Aside, ReverseType
<1>. QED
  BY <1>1, <1>2, <1>3, <1>4, <1>5, <1>6, <1>7, <1>8, <1>9, ReverseSteps

\* The mappings are got while others are loaded.
LEMMA GettingStep ==
  TypeOK /\ Chosen /\ Forward /\ ReverseType /\ Getting /\ Next => Getting'
<1>. SUFFICES ASSUME TypeOK, Chosen, Forward, ReverseType, Getting, Next PROVE Getting'
  OBVIOUS
<1>. USE DEF input, ingress, target, reverse, output
<1>1. CASE Make
  BY <1>1 DEF Make, Getting
<1>2. CASE ReverseOnRequest
  BY <1>2 DEF ReverseOnRequest, BadRequest, Getting
<1>3. CASE AnswerTarget
  BY <1>3 DEF AnswerTarget, Getting
<1>4. CASE GetMapping
  <2>1. "us" \in Mappings /\ "ca" \in Mappings /\ pc = "get" /\ kind = "reverse"
    BY <1>4, MappingsFacts DEF GetMapping, Chosen
  <2>2. /\ store["us"] \in Nat /\ store["ca"] \in Nat
        /\ arrived["us"] \in Nat /\ arrived["ca"] \in Nat
        /\ arrived["us"] <= store["us"] /\ arrived["ca"] <= store["ca"]
        /\ arrived["us"] # 0 /\ arrived["ca"] # 0
    BY <2>1 DEF TypeOK, Forward, Chosen
  <2>3. /\ store["us"] \in InService("us") /\ store["us"] # 0
        /\ store["ca"] \in InService("ca") /\ store["ca"] # 0
    BY <2>2 DEF InService
  <2>4. UNCHANGED <<store, arrived, pn, req, sent, record, cursor>>
    BY <1>4 DEF GetMapping
  <2>5. \A m : InService(m)' = InService(m)
    BY <2>4 DEF InService
  <2>6. CASE todo = <<"us", "ca">>
    <3>1. snap' = [snap EXCEPT !["us"] = store["us"]] /\ todo' = <<"ca">> /\ pc' = "get"
      BY <1>4, <2>6 DEF GetMapping
    <3>2. snap'["us"] = store["us"]
      BY <3>1 DEF ReverseType
    <3>3. Got("us")'
      BY <2>3, <2>5, <3>2 DEF Got
    <3>. QED
      BY <2>1, <2>4, <3>1, <3>3 DEF Getting
  <2>7. CASE todo = <<"ca">> /\ Got("us")
    <3>1. snap' = [snap EXCEPT !["ca"] = store["ca"]] /\ todo' = <<>> /\ pc' = "get"
      BY <1>4, <2>7 DEF GetMapping
    <3>2. snap'["ca"] = store["ca"] /\ snap'["us"] = snap["us"]
      BY <3>1 DEF ReverseType
    <3>3. Got("us")' /\ Got("ca")'
      BY <2>3, <2>5, <2>7, <3>2 DEF Got
    <3>. QED
      BY <2>1, <2>4, <3>1, <3>3 DEF Getting
  <2>8. CASE todo = <<>>
    BY <1>4, <2>1, <2>4, <2>8 DEF GetMapping, Getting
  <2>. QED
    BY <2>1, <2>6, <2>7, <2>8 DEF Getting
<1>5. CASE OpenCursor
  BY <1>5 DEF OpenCursor, Getting
<1>6. CASE sendRow
  BY <1>6 DEF sendRow, Getting
<1>7. CASE AnswerReverse
  BY <1>7 DEF AnswerReverse, Getting
<1>8. ASSUME NEW m \in Mappings, Commit(m) PROVE Getting'
  <2>1. UNCHANGED <<pc, pn, todo, req, snap, sent, record, cursor>>
    BY <1>8 DEF Commit
  <2>2. pc = "get" => (Got("us") => Got("us")') /\ (Got("ca") => Got("ca")')
    BY <2>1, GotStays
  <2>. QED
    BY <2>1, <2>2 DEF Getting
<1>9. CASE Aside
  BY <1>9 DEF Aside, Getting
<1>. QED
  BY <1>1, <1>2, <1>3, <1>4, <1>5, <1>6, <1>7, <1>8, <1>9, ReverseSteps

\* Walks go on on what was got, whatever is loaded meanwhile.
LEMMA WalkingStep ==
  TypeOK /\ Chosen /\ ReverseType /\ Getting /\ Walking /\ Next => Walking'
<1>. SUFFICES ASSUME TypeOK, Chosen, ReverseType, Getting, Walking, Next, pc' = "walk"
              PROVE  /\ Got("us")' /\ Got("ca")'
                     /\ Begun(pn', todo', sent', record', cursor', PrefixesOf(req'.params),
                              snap'["us"], snap'["ca"])
  BY DEF Walking
<1>. USE DEF input, ingress, target, reverse, output
<1>1. CASE GetMapping
  <2>1. /\ pc = "get" /\ todo = <<>> /\ UNCHANGED <<pn, sent, record, cursor, req, snap, store, arrived>>
        /\ todo' = [j \in 1..(2 * Len(pn)) |-> Walk(pn, j)]
    BY <1>1 DEF GetMapping
  <2>2. /\ Got("us") /\ Got("ca") /\ sent = <<>> /\ record = <<>> /\ cursor = <<>>
        /\ pn = Ranges(req.params) /\ req \in Requests /\ req.path = "/reverse"
    BY <2>1 DEF Getting, Chosen, TypeOK
  <2>3. Got("us")' /\ Got("ca")'
    BY <2>1, <2>2 DEF Got, InService
  <2>4. PrefixesOf(req.params) \in Seq(GoodPrefix) /\ Len(pn) \in Nat
    BY <2>2, ReverseRequest
  <2>5. IsDb("us", snap["us"]) /\ IsDb("ca", snap["ca"])
    BY <2>2, GotDatabases
  <2>6. Begun(pn, [j \in 1..(2 * Len(pn)) |-> Walk(pn, j)], <<>>, <<>>, <<>>,
              PrefixesOf(req.params), snap["us"], snap["ca"])
    BY <2>4, <2>5, WalksBegin, Zenon
  <2>. QED
    BY <2>1, <2>2, <2>3, <2>6, Zenon
<1>2. CASE OpenCursor
  <2>1. pc = "walk" /\ UNCHANGED <<pn, sent, record, req, snap, store, arrived>>
    BY <1>2 DEF OpenCursor
  <2>2. Got("us")' /\ Got("ca")'
    BY <2>1 DEF Walking, Got, InService
  <2>3. Begun(pn, todo', sent, record, cursor', PrefixesOf(req.params), snap["us"], snap["ca"])
    BY <1>2, OpenedCursor
  <2>. QED
    BY <2>1, <2>2, <2>3, Zenon
<1>3. CASE sendRow
  <2>1. pc = "walk" /\ kind = "reverse" /\ UNCHANGED <<pn, todo, req, snap, store, arrived>>
    BY <1>3 DEF sendRow, Chosen
  <2>2. Got("us")' /\ Got("ca")'
    BY <2>1 DEF Walking, Got, InService
  <2>3. (sent' \o record') \o cursor' = (sent \o record) \o cursor
    BY <1>3, <2>1, SentRow
  <2>4. Begun(pn, todo, sent, record, cursor, PrefixesOf(req.params), snap["us"], snap["ca"])
    BY <2>1 DEF Walking
  <2>5. Begun(pn, todo, sent', record', cursor', PrefixesOf(req.params), snap["us"], snap["ca"])
    BY <2>3, <2>4, Zenon DEF Begun
  <2>. QED
    BY <2>1, <2>2, <2>5, Zenon
<1>4. ASSUME NEW m \in Mappings, Commit(m)
      PROVE  /\ Got("us")' /\ Got("ca")'
             /\ Begun(pn', todo', sent', record', cursor', PrefixesOf(req'.params),
                      snap'["us"], snap'["ca"])
  <2>1. pc = "walk" /\ UNCHANGED <<pn, todo, sent, record, cursor, req, snap>>
    BY <1>4 DEF Commit
  <2>2. Got("us") /\ Got("ca")
    BY <2>1 DEF Walking
  <2>3. Got("us")' /\ Got("ca")'
    BY <2>1, <2>2, GotStays
  <2>4. Begun(pn, todo, sent, record, cursor, PrefixesOf(req.params), snap["us"], snap["ca"])
    BY <2>1 DEF Walking
  <2>. QED
    BY <2>1, <2>3, <2>4, Zenon
<1>5. ~Make /\ ~ReverseOnRequest /\ ~AnswerTarget /\ ~AnswerReverse /\ ~Aside
  BY DEF Make, ReverseOnRequest, BadRequest, AnswerTarget, AnswerReverse, Aside
<1>. QED
  BY <1>1, <1>2, <1>3, <1>4, <1>5, ReverseSteps

\* An answer is what was listed when the last walk has ended.
LEMMA TrueRowsStep ==
  TypeOK /\ Chosen /\ Once /\ ReverseType /\ Getting /\ Walking /\ TrueRows /\ Next => TrueRows'
<1>. SUFFICES ASSUME TypeOK, Chosen, Once, ReverseType, Getting, Walking, TrueRows, Next,
                     kind' = "reverse", status' = 200
              PROVE  \E u \in InService("us")', c \in InService("ca")' :
                       sent' = FlattenSeq(Parts(PrefixesOf(req'.params), u, c))
  BY DEF TrueRows
<1>. USE DEF input, ingress, target, reverse, output
<1>1. CASE AnswerReverse
  <2>1. /\ pc = "walk" /\ cursor = <<>> /\ todo = <<>> /\ sent' = sent \o record
        /\ UNCHANGED <<req, store, arrived>>
    BY <1>1 DEF AnswerReverse
  <2>2. /\ kind = "reverse" /\ req \in Requests /\ req.path = "/reverse" /\ pn = Ranges(req.params)
        /\ sent \in Seq(Pair) /\ record \in Seq(Pair)
    BY <2>1 DEF TypeOK, Chosen, Getting, ReverseType
  <2>3. PICK good \in Seq(GoodPrefix) :
          /\ good = PrefixesOf(req.params)
          /\ pn = [i \in DOMAIN good |-> PrefixRange(good[i])]
    BY <2>2, ReverseRequest
  <2>4. /\ Got("us") /\ Got("ca")
        /\ Begun(pn, <<>>, sent, record, <<>>, good, snap["us"], snap["ca"])
    BY <2>1, <2>3 DEF Walking
  <2>5. IsDb("us", snap["us"]) /\ IsDb("ca", snap["ca"])
    BY <2>4, GotDatabases
  <2>6. sent \o record = FlattenSeq(Parts(good, snap["us"], snap["ca"]))
    <3>1. PICK u, c, p, st, rc : /\ u = snap["us"] /\ c = snap["ca"] /\ p = pn
                                 /\ st = sent /\ rc = record
      OBVIOUS
    <3>2. /\ IsDb("us", u) /\ IsDb("ca", c)
          /\ p = [i \in DOMAIN good |-> PrefixRange(good[i])]
          /\ st \in Seq(Pair) /\ rc \in Seq(Pair) /\ Begun(p, <<>>, st, rc, <<>>, good, u, c)
      BY <2>2, <2>3, <2>4, <2>5, <3>1
    <3>3. st \o rc = FlattenSeq(Parts(good, u, c))
      BY ONLY <3>2, good \in Seq(GoodPrefix), WalksEnd, ZenonT(60)
    <3>. QED
      BY <3>1, <3>3
  <2>7. snap["us"] \in InService("us")' /\ snap["ca"] \in InService("ca")'
    BY <2>1, <2>4 DEF Got, InService
  <2>. QED
    BY <2>1, <2>3, <2>6, <2>7, Zenon
<1>2. CASE status = 200 /\ UNCHANGED <<kind, sent, req>>
  <2>1. PICK u \in InService("us"), c \in InService("ca") :
          sent = FlattenSeq(Parts(PrefixesOf(req.params), u, c))
    BY <1>2 DEF TrueRows
  <2>2. "us" \in Mappings /\ "ca" \in Mappings
    BY MappingsFacts
  <2>3. pc # "idle"
    BY <1>2 DEF Once, Unanswered
  <2>4. u \in InService("us")' /\ c \in InService("ca")'
    BY <2>2, <2>3, InServiceGrows
  <2>. QED
    BY <1>2, <2>1, <2>4, Zenon
<1>3. pc \in Unanswered => status # 200
  BY DEF Once
<1>4. ~Make /\ ~GetMapping /\ ~OpenCursor /\ ~sendRow /\ ~ReverseOnRequest
  BY <1>3 DEF Make, GetMapping, OpenCursor, sendRow, ReverseOnRequest, BadRequest, respond, Unanswered
<1>5. ~AnswerTarget
  BY DEF AnswerTarget, Chosen
<1>6. CASE Aside
  BY <1>2, <1>6 DEF Aside
<1>7. ASSUME NEW m \in Mappings, Commit(m)
      PROVE  \E u \in InService("us")', c \in InService("ca")' :
               sent' = FlattenSeq(Parts(PrefixesOf(req'.params), u, c))
  BY <1>2, <1>7 DEF Commit
<1>. QED
  BY <1>1, <1>4, <1>5, <1>6, <1>7, ReverseSteps

\* Steps of nobody keep it too.
LEMMA ReverseStutter == ReverseInv /\ UNCHANGED vars => ReverseInv'
<1>. SUFFICES ASSUME ReverseInv, UNCHANGED vars PROVE ReverseInv'
  OBVIOUS
<1>. USE DEF vars, input, ingress, target, reverse, output
<1>1. ReverseType'
  BY DEF ReverseInv, ReverseType
<1>2. Getting'
  BY DEF ReverseInv, Getting, Got, InService
<1>3. Walking'
  BY DEF ReverseInv, Walking, Got, InService
<1>4. TrueRows'
  BY DEF ReverseInv, TrueRows, InService
<1>. QED
  BY <1>1, <1>2, <1>3, <1>4 DEF ReverseInv

\* ApiHandler keeps its inductive invariant: bodies are collected piece by piece,
\* flags are set and columns filled while commands load new databases.
THEOREM Invariance == Spec => []IInv
<1>1. Init => IInv
  BY InitStatus, InitLines, InitReverse DEF IInv
<1>2. IInv /\ [Next]_vars => IInv'
  <2>1. ASSUME IInv, Next PROVE IInv'
    <3>1. /\ StatusInv /\ TypeOK /\ Chosen /\ Once /\ Collected
          /\ Forward /\ Flags /\ Looked /\ TrueLines
          /\ ReverseType /\ Getting /\ Walking /\ TrueRows
      BY <2>1 DEF IInv, StatusInv, LinesInv, ReverseInv
    <3>2. StatusInv'
      BY <2>1, <3>1, StatusStep
    <3>3. Forward' /\ Flags' /\ Looked' /\ TrueLines'
      BY <2>1, <3>1, ForwardStep, FlagsStep, LookedStep, LinesStep
    <3>4. ReverseType' /\ Getting' /\ Walking' /\ TrueRows'
      BY <2>1, <3>1, ReverseTypeStep, GettingStep, WalkingStep, TrueRowsStep
    <3>. QED
      BY <3>2, <3>3, <3>4 DEF IInv, LinesInv, ReverseInv
  <2>2. ASSUME IInv, UNCHANGED vars PROVE IInv'
    BY <2>2, StatusStep, LinesStutter, ReverseStutter DEF IInv
  <2>. QED
    BY <2>1, <2>2
<1>. QED
  BY <1>1, <1>2, PTL DEF Spec

\* Whatever is loaded while a batch is looked up, every column of an answer of
\* /target comes from one database in service during the request, carrier records
\* belong to the routing numbers beside them, and TargetHandler asks no mapping
\* that is not loaded.
THEOREM LinesComeFromService == Spec => []LinesAreTrue
<1>1. IInv => LinesAreTrue
  <2>. SUFFICES ASSUME IInv PROVE LinesAreTrue
    OBVIOUS
  <2>1. TrueLines /\ TypeOK /\ Chosen /\ Forward /\ Flags
    BY DEF IInv, StatusInv, LinesInv
  <2>2. ASSUME pc = "lookup", todo # <<>>, Asked(Head(todo)) PROVE store[Head(todo)] # 0
    BY <2>1, <2>2, MappingsFacts DEF Asked, Flags, Chosen, Forward, TypeOK
  <2>. QED
    BY <2>1, <2>2 DEF LinesAreTrue, TrueLines
<1>. QED
  BY <1>1, Invariance, PTL

\* Whatever is loaded while ReverseHandler walks its ranges, an answer of /reverse
\* lists for every prefix the US and then the CA numbers whose routing number starts
\* with it, in order and each once, all from one US and one CA database that were
\* loaded when it got them.
THEOREM ReversesAreExact == Spec => []ReverseIsExact
<1>1. IInv => ReverseIsExact
  <2>. SUFFICES ASSUME IInv PROVE ReverseIsExact
    OBVIOUS
  <2>1. Walking /\ TrueRows
    BY DEF IInv, ReverseInv
  <2>2. pc = "walk" => snap["us"] # 0 /\ snap["ca"] # 0
    BY <2>1 DEF Walking, Got
  <2>. QED
    BY <2>1, <2>2, Zenon DEF ReverseIsExact, TrueRows, Parts, Part
<1>. QED
  BY <1>1, Invariance, PTL

=============================================================================
