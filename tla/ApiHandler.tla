----------------------------- MODULE ApiHandler -----------------------------
(***************************************************************************)
(* One HTTP request (ApiHandler.cpp): the factory chooses a handler, the   *)
(* handler gets the request's body in pieces, asks the mappings one after  *)
(* the other and answers, while commands load new mappings.  The access    *)
(* log wraps the handler in a filter (AccessLog.cpp) and proxygen calls    *)
(* them.  A lookup of a whole batch in one mapping is one step: all its    *)
(* answers come from one database (MappingStore, SingleSnapshot).          *)
(*                                                                         *)
(* Numbers have Width digits of base Base, ten of base ten in the code.  A *)
(* query is the sequence of its parameters; one unit of length each.       *)
(***************************************************************************)
EXTENDS Naturals, Sequences, FiniteSets, SequencesExt

CONSTANTS
  Optional,        \* the mappings /target can do without, in lookup order
  Db,              \* Db[m][v]: what version v of mapping m answers, a function
  Place,           \* Place[m][v][n]: the row of n in the file of that version
  TargetQueries,   \* phone[] parameters, NONE if not a national number
  ReverseQueries,  \* prefix[] parameters [val, len], NONE if not an integer
  NONE,            \* no such number, no record
  Base, Width,     \* digits of a number
  MaxQuery,        \* FLAGS_max_query_length
  FlushAt          \* rows that make record_ longer than 1000

Mappings == {"us", "ca"} \cup ToSet(Optional)

Requests ==
  [path : {"/target"}, method : {"GET", "POST", "other"}, form : BOOLEAN,
   declared : BOOLEAN, params : TargetQueries]
  \cup [path : {"/reverse"}, method : {"GET", "other"}, form : {TRUE},
        declared : {TRUE}, params : ReverseQueries]
  \cup [path : {"elsewhere"}, method : {"GET"}, form : {TRUE}, declared : {TRUE},
        params : {<<>>}]

\* What scaling k digits up multiplies a number by.
Power[k \in 0..Width] == IF k = 0 THEN 1 ELSE Base * Power[k - 1]

\* A prefix of so many digits is a number of so many digits.
ASSUME ApiAssumption ==
  /\ Optional \in Seq(STRING \ {"us", "ca"})
  /\ Mappings \subseteq DOMAIN Db
  /\ \A m \in {"us", "ca"} :
       /\ Len(Db[m]) \in Nat
       /\ \A v \in 1..Len(Db[m]) :
            LET db == Db[m][v] IN
            /\ IsFiniteSet(DOMAIN db)
            /\ \A n \in DOMAIN db : /\ n \in Nat /\ db[n] \in Nat \cup {NONE}
                                    /\ Place[m][v][n] \in Nat
            /\ \A a, b \in DOMAIN db : Place[m][v][a] = Place[m][v][b] => a = b
  /\ TargetQueries \subseteq Seq(Nat \cup {NONE})
  /\ ReverseQueries \subseteq Seq([val : Nat, len : Nat] \cup {NONE})
  /\ Base \in Nat \ {0, 1} /\ Width \in Nat \ {0}
  /\ \A q \in ReverseQueries : \A i \in DOMAIN q :
       (q[i] # NONE /\ q[i].len <= Width) => q[i].val < Power[q[i].len]
  /\ MaxQuery \in Nat /\ FlushAt \in Nat

VARIABLES
  store,      \* store[m]: the version in service, 0 before the first load
  logging,    \* accessLog is not null
  arrived,    \* store when the request came (history)
  req,        \* the request
  pc,         \* where its handler is; "wait": it has returned to proxygen
  kind,       \* which handler the factory made
  wrapped,    \* it is inside an AccessLogHandler
  object,     \* the handler: "none", "live", "deleted" or "leaked"
  need,       \* needBody_
  body,       \* body_
  rest,       \* what the client has not sent yet
  eom,        \* onEOM has been called
  pn,         \* pn_, or query_ of /reverse
  avail,      \* the *Available flags that are true
  todo,       \* mappings still to be tested or asked, ranges still to be walked
  column,     \* column[m]: us_rn_, ca_rn_, us_dnc_, ...
  snap,       \* versions the objects us and ca of /reverse hold
  cursor,     \* rows the open cursor still has
  record,     \* record_
  sent,       \* lines of the answer's body
  status,     \* status of the first answer, 0 before
  responses,  \* answers sent with EOM
  logged      \* lines written to the access log

input == <<store, logging, arrived, req, kind, wrapped>>
ingress == <<need, body, rest, eom>>
target == <<avail, column>>
reverse == <<snap, cursor, record>>
output == <<sent, status, responses>>
vars == <<input, pc, object, ingress, pn, todo, target, reverse, output, logged>>

Init ==
  /\ store = [m \in Mappings |-> 0] /\ logging \in BOOLEAN
  /\ arrived = store /\ req \in Requests
  /\ pc = "idle" /\ kind = "none" /\ wrapped = FALSE /\ object = "none"
  /\ need = TRUE /\ body = <<>> /\ rest = <<>> /\ eom = FALSE
  /\ pn = <<>> /\ avail = {} /\ todo = <<>> /\ column = [m \in Mappings |-> <<>>]
  /\ snap = [m \in {"us", "ca"} |-> 0] /\ cursor = <<>> /\ record = <<>>
  /\ sent = <<>> /\ status = 0 /\ responses = 0 /\ logged = 0

\* A command puts the next version of a mapping in service.
Commit(m) ==
  /\ store[m] < Len(Db[m])
  /\ store' = [store EXCEPT ![m] = @ + 1]
  /\ UNCHANGED <<logging, arrived, req, kind, wrapped, pc, object, ingress, pn, todo,
                 target, reverse, output, logged>>

-----------------------------------------------------------------------------
(* The factories.                                                          *)

isAvailable == store["us"] # 0 /\ store["ca"] # 0

\* ApiHandlerFactory::onRequest
HandlerFor(r) ==
  CASE r.path = "elsewhere" -> "404"
    [] r.path # "elsewhere" /\ ~isAvailable -> "503"
    [] r.path = "/target" /\ isAvailable -> "target"
    [] r.path = "/reverse" /\ isAvailable -> "reverse"

\* The chain of factories: the API handler, then the access log around it.
Make ==
  /\ pc = "idle"
  /\ pc' = "made"
  /\ kind' = HandlerFor(req) /\ wrapped' = logging /\ object' = "live"
  /\ arrived' = store
  /\ rest' = IF req.method = "GET" THEN <<>> ELSE req.params
  /\ UNCHANGED <<store, logging, req, need, body, eom, pn, todo, target, reverse,
                 output, logged>>

-----------------------------------------------------------------------------
(* TargetHandler and ReverseHandler up to the query.                       *)

\* ResponseBuilder ... sendWithEOM, or the last sendEOM of a longer answer.
respond(s) ==
  /\ status' = IF status = 0 THEN s ELSE status
  /\ responses' = responses + 1

\* TargetHandler::sanitizeHeader, over all headers.
sanitizeHeaders(r) == r.form /\ ~(r.declared /\ Len(r.params) > MaxQuery)

\* TargetHandler::onQueryParam, over the query.
Numbers(query) == SelectSeq(query, LAMBDA p : p # NONE)

\* ReverseHandler::onQueryParam, over the query: what it does not return from early,
\* and [from, to) of a prefix.
PrefixesOf(query) ==
  LET ok(p) == IF p = NONE THEN FALSE ELSE p.len <= Width
      taken[i \in 0..Len(query)] ==
        IF i = 0 THEN <<>>
        ELSE IF ok(query[i]) THEN Append(taken[i - 1], query[i]) ELSE taken[i - 1]
  IN  taken[Len(query)]

PrefixRange(p) == [from |-> p.val * Power[Width - p.len],
                   to |-> (p.val + 1) * Power[Width - p.len]]

Ranges(query) == [i \in DOMAIN PrefixesOf(query) |-> PrefixRange(PrefixesOf(query)[i])]

\* Start of onQueryComplete: the flags come first.
Ask(query) ==
  /\ pn' = Numbers(query)
  /\ todo' = Optional
  /\ pc' = "sample"

\* Mutant: a request that is not understood is dropped.
BadRequest_Silent == pc' = "wait" /\ UNCHANGED <<status, responses>>

BadRequest == pc' = "wait" /\ respond(400)

TargetOnRequest ==
  /\ pc = "made" /\ kind = "target"
  /\ \/ /\ req.method = "GET"
        /\ need' = FALSE
        /\ Ask(req.params)
        /\ UNCHANGED <<status, responses>>
     \/ /\ req.method = "POST" /\ sanitizeHeaders(req)
        /\ pc' = "wait"
        /\ UNCHANGED <<need, pn, todo, status, responses>>
     \/ /\ req.method = "other" \/ (req.method = "POST" /\ ~sanitizeHeaders(req))
        /\ need' = FALSE
        /\ BadRequest
        /\ UNCHANGED <<pn, todo>>
  /\ UNCHANGED <<input, object, body, rest, eom, target, reverse, sent, logged>>

ReverseOnRequest ==
  /\ pc = "made" /\ kind = "reverse"
  /\ \/ /\ req.method # "GET"
        /\ BadRequest
        /\ UNCHANGED <<pn, todo>>
     \/ /\ req.method = "GET"
        /\ pn' = Ranges(req.params)
        /\ todo' = <<"us", "ca">>
        /\ pc' = "get"
        /\ UNCHANGED <<status, responses>>
  /\ UNCHANGED <<input, object, ingress, target, reverse, sent, logged>>

\* DirectResponseHandler of proxygen waits for the end of the request.
DirectOnRequest ==
  /\ pc = "made" /\ kind \in {"404", "503"}
  /\ pc' = "wait"
  /\ UNCHANGED <<input, object, ingress, pn, todo, target, reverse, output, logged>>

\* Mutant: the longest query allowed is refused.
TooLong_OffByOne(query) == Len(query) >= MaxQuery

TooLong(query) == Len(query) > MaxQuery

\* TargetHandler::onBody with the next n units of the body.
onBody(n) ==
  /\ pc = "wait" /\ n <= Len(rest)
  /\ rest' = SubSeq(rest, n + 1, Len(rest))
  /\ LET all == body \o SubSeq(rest, 1, n) IN
     \/ /\ kind = "target" /\ need /\ ~TooLong(all)
        /\ body' = all
        /\ UNCHANGED <<need, status, responses>>
     \/ /\ kind = "target" /\ need /\ TooLong(all)
        /\ need' = FALSE /\ body' = <<>>
        /\ respond(400)
     \/ /\ ~(kind = "target" /\ need)
        /\ UNCHANGED <<need, body, status, responses>>
  /\ UNCHANGED <<input, pc, object, eom, pn, todo, target, reverse, sent, logged>>

WantsQuery == need

onEOM ==
  /\ pc = "wait" /\ rest = <<>> /\ ~eom
  /\ eom' = TRUE
  /\ \/ kind = "target" /\ WantsQuery /\ Ask(body) /\ UNCHANGED <<status, responses>>
     \/ /\ kind \in {"404", "503"}
        /\ respond(IF kind = "404" THEN 404 ELSE 503)
        /\ UNCHANGED <<pc, pn, todo>>
     \/ /\ kind = "reverse" \/ (kind = "target" /\ ~WantsQuery)
        /\ UNCHANGED <<pc, pn, todo, status, responses>>
  /\ UNCHANGED <<input, object, need, body, rest, target, reverse, sent, logged>>

-----------------------------------------------------------------------------
(* TargetHandler::onQueryComplete.                                         *)

Sampled(m) == store[m] # 0

\* One isAvailable() test; after the last, the columns are sized.
Sample ==
  /\ pc = "sample"
  /\ IF todo # <<>>
     THEN /\ avail' = IF Sampled(Head(todo)) THEN avail \cup {Head(todo)} ELSE avail
          /\ todo' = Tail(todo)
          /\ UNCHANGED pc
     ELSE /\ todo' = <<"us", "ca">> \o Optional
          /\ pc' = "lookup"
          /\ UNCHANGED avail
  /\ UNCHANGED <<input, object, ingress, pn, column, reverse, output, logged>>

Route(i) == IF column["us"][i] # NONE THEN column["us"][i] ELSE column["ca"][i]

\* Mutant: a number ported in Canada only is searched by its own prefix.
LergKey_UsOnly(i) == IF column["us"][i] # NONE THEN column["us"][i] ELSE pn[i]

\* lerg_search_key
LergKey(i) == IF Route(i) # NONE THEN Route(i) ELSE pn[i]

\* The mappings that are asked without a test, and those whose flag is true.
Asked(m) == m \in {"us", "ca"} \cup avail

\* The whole batch as version v of mapping m answers it.
Answers(m, v) ==
  [i \in DOMAIN pn |->
     IF v = 0 THEN NONE ELSE Db[m][v][IF m = "lerg" THEN LergKey(i) ELSE pn[i]]]

\* One mapping answers for the whole batch, or is passed over.
Lookup ==
  /\ pc = "lookup" /\ todo # <<>>
  /\ LET m == Head(todo)
     IN  column' = IF Asked(m) THEN [column EXCEPT ![m] = Answers(m, store[m])] ELSE column
  /\ todo' = Tail(todo)
  /\ UNCHANGED <<input, pc, object, ingress, pn, avail, reverse, output, logged>>

Line(i) == [pn |-> pn[i], rn |-> Route(i),
            extra |-> [m \in ToSet(Optional) |-> IF m \in avail THEN column[m][i] ELSE NONE]]

AnswerTarget ==
  /\ pc = "lookup" /\ todo = <<>>
  /\ sent' = [i \in DOMAIN pn |-> Line(i)]
  /\ respond(200)
  /\ pc' = "wait"
  /\ UNCHANGED <<input, object, ingress, pn, todo, target, reverse, logged>>

-----------------------------------------------------------------------------
(* ReverseHandler::onRequest after the query.                              *)

\* Every range is walked in the US and then in the CA mapping.
Walk(ranges, j) == <<ranges[(j + 1) \div 2], IF j % 2 = 1 THEN "us" ELSE "ca">>

\* PhoneMapping us = getUS(); PhoneMapping ca = getCA();
GetMapping ==
  /\ pc = "get"
  /\ IF todo # <<>>
     THEN /\ snap' = [snap EXCEPT ![Head(todo)] = store[Head(todo)]]
          /\ todo' = Tail(todo)
          /\ UNCHANGED pc
     ELSE /\ todo' = [j \in 1..(2 * Len(pn)) |-> Walk(pn, j)]
          /\ pc' = "walk"
          /\ UNCHANGED snap
  /\ UNCHANGED <<input, object, ingress, pn, target, cursor, record, output, logged>>

\* Rows of a database with a routing number in routes, by that number and then by
\* their places in the file (PhoneMapping::Data::build).
SortedRows(db, place, routes) ==
  LET phones == {n \in DOMAIN db : db[n] # NONE /\ db[n] \in routes}
      before(a, b) == db[a] < db[b] \/ (db[a] = db[b] /\ place[a] < place[b])
      sorted == CHOOSE s \in [1..Cardinality(phones) -> phones] :
                  \A i, j \in DOMAIN s : i < j => before(s[i], s[j])
  IN  [i \in DOMAIN sorted |-> <<sorted[i], db[sorted[i]]>>]

RowsWith(m, v, routes) == SortedRows(Db[m][v], Place[m][v], routes)

\* Mutant: every range asks for the mapping again.
Held_Fresh(m) == store[m]

Held(m) == snap[m]

\* us.inverseRNs(range) or ca.inverseRNs(range)
OpenCursor ==
  /\ pc = "walk" /\ cursor = <<>> /\ todo # <<>>
  /\ LET range == Head(todo)[1]
         m == Head(todo)[2]
     IN  cursor' = RowsWith(m, Held(m), range.from .. (range.to - 1))
  /\ todo' = Tail(todo)
  /\ UNCHANGED <<input, pc, object, ingress, pn, target, snap, record, output, logged>>

\* One row of ReverseHandler::sendBody.
sendRow ==
  /\ pc = "walk" /\ cursor # <<>>
  /\ cursor' = Tail(cursor)
  /\ LET rows == Append(record, Head(cursor)) IN
     IF Len(rows) > FlushAt
     THEN sent' = sent \o rows /\ record' = <<>>
     ELSE record' = rows /\ UNCHANGED sent
  /\ UNCHANGED <<input, pc, object, ingress, pn, todo, target, snap, status, responses, logged>>

AnswerReverse ==
  /\ pc = "walk" /\ cursor = <<>> /\ todo = <<>>
  /\ sent' = sent \o record
  /\ respond(200)
  /\ pc' = "wait"
  /\ UNCHANGED <<input, object, ingress, pn, todo, target, reverse, logged>>

-----------------------------------------------------------------------------
(* The end of the request.                                                 *)


\* AccessLogHandler::requestComplete does not call the handler it wraps.
Completed == IF wrapped THEN "leaked" ELSE "deleted"

\* Request and answer are complete: proxygen calls requestComplete().
requestComplete ==
  /\ pc = "wait" /\ eom /\ responses > 0
  /\ pc' = "gone"
  /\ object' = Completed
  /\ logged' = IF wrapped THEN logged + 1 ELSE logged
  /\ UNCHANGED <<input, ingress, pn, todo, target, reverse, output>>

\* The connection breaks or times out.  The filter forwards onError().
onError ==
  /\ pc = "wait"
  /\ pc' = "gone"
  /\ object' = "deleted"
  /\ UNCHANGED <<input, ingress, pn, todo, target, reverse, output, logged>>

\* The request is over.
Done == pc = "gone" /\ UNCHANGED vars

-----------------------------------------------------------------------------
Handler ==
  \/ TargetOnRequest \/ ReverseOnRequest \/ DirectOnRequest
  \/ Sample \/ Lookup \/ AnswerTarget
  \/ GetMapping \/ OpenCursor \/ sendRow \/ AnswerReverse

Next ==
  \/ Make \/ Handler \/ onEOM \/ requestComplete \/ onError \/ Done
  \/ \E n \in 1..Len(rest) : onBody(n)
  \/ \E m \in Mappings : Commit(m)

Spec == Init /\ [][Next]_vars

\* An event loop runs a handler to its end.
FairSpec == Spec /\ WF_vars(Handler)

-----------------------------------------------------------------------------
(* Properties.                                                             *)

\* The status is the one the request deserves: a query within the limits gets
\* 200, and how a body is cut into pieces or announced makes no difference.  It is
\* answered once, in whatever order headers, pieces of body and the end come: an
\* answer to a body that is too long is not followed by another one at its end.
StatusIsRight ==
  /\ responses <= 1
  /\ status = 200 =>
       \/ req.path = "/reverse" /\ req.method = "GET"
       \/ /\ req.path = "/target"
          /\ \/ req.method = "GET"
             \/ req.method = "POST" /\ req.form /\ Len(req.params) <= MaxQuery
  /\ status = 400 =>
       \/ req.method = "other"
       \/ /\ req.path = "/target" /\ req.method = "POST"
          /\ ~req.form \/ Len(req.params) > MaxQuery

InService(m) == arrived[m]..store[m]

\* An answer of /target has a line for every national number of the query, in
\* order.  Each column comes from one database that was in service during the
\* request, and the carrier record is that of the routing number shown beside it.
\* No mapping is asked that is not loaded: the tests made when the handler was
\* created, and when its flags were set, still hold.
LinesAreTrue ==
  /\ (pc = "lookup" /\ todo # <<>> /\ Asked(Head(todo))) => store[Head(todo)] # 0
  /\ (kind = "target" /\ status = 200) =>
       /\ DOMAIN sent = DOMAIN Numbers(req.params)
       /\ \A i \in DOMAIN sent : sent[i].pn = Numbers(req.params)[i]
       /\ \E u \in InService("us"), c \in InService("ca") :
            \A i \in DOMAIN sent :
              LET n == sent[i].pn IN
              sent[i].rn = IF Db["us"][u][n] # NONE THEN Db["us"][u][n] ELSE Db["ca"][c][n]
       /\ \A m \in ToSet(Optional) : \E v \in InService(m) :
            \A i \in DOMAIN sent :
              LET key == IF m = "lerg" /\ sent[i].rn # NONE THEN sent[i].rn ELSE sent[i].pn
              IN  sent[i].extra[m] = IF v = 0 THEN NONE ELSE Db[m][v][key]

HasPrefix(rn, p) == rn \div Power[Width - p.len] = p.val

\* An answer of /reverse lists, for every prefix, the US and then the CA numbers
\* whose routing number starts with it, each once, and all of it comes from one
\* US and one CA database, which were loaded when it got them.
ReverseIsExact ==
  /\ pc = "walk" => snap["us"] # 0 /\ snap["ca"] # 0
  /\ (kind = "reverse" /\ status = 200) =>
       LET good == PrefixesOf(req.params)
           part(p, m, v) == RowsWith(m, v, {rn \in 0 .. (Power[Width] - 1) : HasPrefix(rn, p)})
       IN  \E u \in InService("us"), c \in InService("ca") :
             sent = FlattenSeq([i \in DOMAIN good |->
                      part(good[i], "us", u) \o part(good[i], "ca", c)])

\* A request that arrives completely is answered.
WholeRequestAnswered == eom ~> responses > 0

=============================================================================
