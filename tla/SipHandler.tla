----------------------------- MODULE SipHandler -----------------------------
(***************************************************************************)
(* The SIP side of the service: one SIPHandler per event loop answers      *)
(* datagrams one after the other (SipHandler.cpp), while commands replace  *)
(* the ACL and the phone mappings.  The ACL (ACL.cpp) gives every peer an  *)
(* expiry and a token bucket, which lives in the ACL object and is shared  *)
(* by all handlers; the access-log formatter lives in the handler and is   *)
(* used again for every datagram (AccessLog.cpp).                          *)
(*                                                                         *)
(* All numbers called are one to the mappings: a mapping is what it answers *)
(* for it.                                                                 *)
(***************************************************************************)
EXTENDS Naturals, Sequences, FiniteSetsExt

CONSTANTS
  Handlers,      \* SIPHandler objects, one per event loop
  Peers,         \* client addresses
  AclFiles,      \* ACL files, sequences of Rows
  Numbers,       \* national numbers called; all have the same answer
  UsFiles,       \* UsFiles[v], CaFiles[v]: what version v of a mapping answers
  CaFiles,
  NONE,          \* PhoneNumber::NONE: not found, or not a national number
  Nothing,       \* no rule, no expiry or rate in a row
  Unit,          \* tokens that a call costs: a rate is a fraction of calls per second
  Unlimited,     \* 1e10, the default rate: more calls than can arrive
  MaxDatagrams,  \* bound: datagrams received
  MaxAcls,       \* bound: ACLs loaded
  MaxTime        \* bound: seconds passed

\* Rates and buckets are in tokens; a rate is positive (the bucket divides by it).
Row == [peer : Peers, expire : 0..MaxTime \cup {Nothing}, cps : (Nat \ {0}) \cup {Nothing}]

\* A row of ACL::Data: ACL::Rule with its bucket.
Rule == [expire : 0..MaxTime \cup {Nothing}, rate : Nat \ {0}, tokens : Nat]

ASSUME SipAssumption ==
  /\ \A f \in AclFiles : f \in Seq(Row)
  /\ \A f \in {UsFiles, CaFiles} : Len(f) \in Nat /\ DOMAIN f = 1..Len(f)
  /\ MaxDatagrams \in Nat /\ MaxAcls \in Nat /\ MaxTime \in Nat
  /\ Unit \in Nat \ {0} /\ Unlimited \in Nat /\ Unlimited > MaxDatagrams * Unit
  /\ Nothing \notin Nat \cup Rule \cup Peers

VARIABLES
  now,       \* seconds
  us, ca,    \* versions of the mappings in service, 0 if not loaded
  acls,      \* every ACL::Data committed, with its buckets; the last is current
  born,      \* born[v]: when ACL v was committed (history)
  calls,     \* calls[v][p]: tokens paid for the calls of p that ACL v let through (history)
  received,  \* datagrams received
  pc,        \* pc[h]: where handler h is in onDataAvailable
  peer,      \* peer[h]: peer_
  method,    \* method[h]: the request's method
  pn, rn,    \* pn[h], rn[h]: the number called and the one found
  acl,       \* acl[h]: the ACL its ACL object refers to, 0 for none
  status,    \* status[h]: status_
  lines,     \* lines[h]: lines in the formatter's message_ when last written
  since,     \* since[h]: versions in service when the datagram came (history)
  arrived    \* arrived[h]: when it came (history)

server == <<now, us, ca, acls, born, calls>>
history == <<since, arrived>>

Versions == [acl |-> Len(acls), us |-> us, ca |-> ca]
Never == [acl |-> 0, us |-> 0, ca |-> 0]
vars == <<server, received, pc, peer, method, pn, rn, acl, status, lines, history>>

Init ==
  /\ now = 0 /\ us = 0 /\ ca = 0
  /\ acls = <<>> /\ born = <<>> /\ calls = <<>>
  /\ received = 0
  /\ pc = [h \in Handlers |-> "idle"]
  /\ peer = [h \in Handlers |-> Nothing]
  /\ method = [h \in Handlers |-> "OPTIONS"]
  /\ pn = [h \in Handlers |-> NONE] /\ rn = [h \in Handlers |-> NONE]
  /\ acl = [h \in Handlers |-> 0]
  /\ status = [h \in Handlers |-> 0]
  /\ lines = [h \in Handlers |-> 0]
  /\ since = [h \in Handlers |-> Never] /\ arrived = [h \in Handlers |-> 0]

-----------------------------------------------------------------------------
(* Commands and time.                                                      *)

\* callBudget.reset(cps, max(cps, 1))
Burst(rate) == IF rate > Unit THEN rate ELSE Unit

\* The bucket of the one Rule object after row i: a row without a rate leaves it
\* as it is, one with a rate resets it, and reset() caps the level it finds.
Rated(rows, i) == {j \in 1..i : rows[j].cps # Nothing}
Rate(rows, i) ==
  IF Rated(rows, i) = {} THEN Unlimited ELSE rows[Max(Rated(rows, i))].cps
Level(rows, i) == Min({Unlimited} \cup {Burst(rows[j].cps) : j \in Rated(rows, i)})

\* ACL::fromCSV: that object serves every row.  Moving it into the map empties
\* its expiry, but not its bucket.  The last row of a peer counts.
RowsOf(rows, p) == {i \in DOMAIN rows : rows[i].peer = p}
fromCSV(rows) ==
  LET rule(i) == [expire |-> rows[i].expire, rate |-> Rate(rows, i), tokens |-> Level(rows, i)]
  IN  [p \in Peers |-> IF RowsOf(rows, p) = {} THEN Nothing ELSE rule(Max(RowsOf(rows, p)))]

\* loadACLFile and ACL::commit.  Bucket levels are not preserved.
CommitAcl(f) ==
  /\ Len(acls) < MaxAcls
  /\ acls' = Append(acls, fromCSV(f))
  /\ born' = Append(born, now)
  /\ calls' = Append(calls, [p \in Peers |-> 0])
  /\ UNCHANGED <<now, us, ca, received, pc, peer, method, pn, rn, acl,
                 status, lines, history>>

\* A reload puts the next version of the US or of the CA mapping in service.
CommitUS ==
  /\ us < Len(UsFiles)
  /\ us' = us + 1
  /\ UNCHANGED <<now, ca, acls, born, calls, received, pc, peer, method,
                 pn, rn, acl, status, lines, history>>

CommitCA ==
  /\ ca < Len(CaFiles)
  /\ ca' = ca + 1
  /\ UNCHANGED <<now, us, acls, born, calls, received, pc, peer, method,
                 pn, rn, acl, status, lines, history>>

\* A second passes: folly::TokenBucket earns its rate, up to the burst size.
Refill(rule) ==
  [rule EXCEPT !.tokens = Min({@ + rule.rate, Burst(rule.rate)})]

Tick ==
  /\ now < MaxTime
  /\ now' = now + 1
  /\ acls' = [v \in DOMAIN acls |->
       [p \in Peers |-> IF acls[v][p] = Nothing THEN Nothing ELSE Refill(acls[v][p])]]
  /\ UNCHANGED <<us, ca, born, calls, received, pc, peer, method, pn, rn, acl,
                 status, lines, history>>

-----------------------------------------------------------------------------
(* A handler.                                                              *)

\* onDataAvailable with a message that does not parse: no answer, no log line.
Drop(h) ==
  /\ pc[h] = "idle"
  /\ received < MaxDatagrams
  /\ received' = received + 1
  /\ status' = [status EXCEPT ![h] = 0]
  /\ UNCHANGED <<server, pc, peer, method, pn, rn, acl, lines, history>>

\* onDataAvailable with a good one, up to log_.onRequest; n is the number that
\* PhoneNumber::fromString makes of the user part.
Receive(h, p, m, n) ==
  /\ pc[h] = "idle"
  /\ received < MaxDatagrams
  /\ received' = received + 1
  /\ pc' = [pc EXCEPT ![h] = "parsed"]
  /\ peer' = [peer EXCEPT ![h] = p]
  /\ method' = [method EXCEPT ![h] = m]
  /\ pn' = [pn EXCEPT ![h] = n]
  /\ rn' = [rn EXCEPT ![h] = NONE]
  /\ status' = [status EXCEPT ![h] = 0]
  /\ since' = [since EXCEPT ![h] = Versions]
  /\ arrived' = [arrived EXCEPT ![h] = now]
  /\ UNCHANGED <<server, acl, lines>>

\* PhoneMapping::isAvailable
isAvailable == us # 0 /\ ca # 0

reply(h, s) ==
  /\ status' = [status EXCEPT ![h] = s]
  /\ pc' = [pc EXCEPT ![h] = "finish"]

\* The test for the mappings and the switch on the method.
Dispatch(h) ==
  /\ pc[h] = "parsed"
  /\ \/ ~isAvailable /\ reply(h, 503)
     \/ isAvailable /\ method[h] = "OPTIONS" /\ reply(h, 200)
     \/ isAvailable /\ method[h] = "other" /\ reply(h, 405)
     \/ /\ isAvailable /\ method[h] = "INVITE"
        /\ pc' = [pc EXCEPT ![h] = "invite"]
        /\ UNCHANGED status
  /\ UNCHANGED <<server, received, peer, method, pn, rn, acl, lines, history>>

\* ACL::get()
GetAcl(h) ==
  /\ pc[h] = "invite"
  /\ acl' = [acl EXCEPT ![h] = Len(acls)]
  /\ pc' = [pc EXCEPT ![h] = "acl"]
  /\ UNCHANGED <<server, received, peer, method, pn, rn, status, lines, history>>

\* The rule the ACL object of h has for its peer, Nothing without one.
RuleOf(h) == IF acl[h] = 0 THEN Nothing ELSE acls[acl[h]][peer[h]]

\* Mutant: an expired rule still admits its peer.
Denied_IgnoresExpiry(h) == RuleOf(h) = Nothing

\* No ACL, no rule for the peer, or a rule that has expired.
Denied(h) ==
  LET rule == RuleOf(h)
      expired(e) == IF e = Nothing THEN FALSE ELSE now >= e
  IN  IF rule = Nothing THEN TRUE ELSE expired(rule.expire)

\* What rule.callBudget.consume(1) finds.
Tokens(h) == acls[acl[h]][peer[h]].tokens

\* Mutant: the call is let through and nothing is taken from the bucket.
LetThrough_Free(h) ==
  /\ calls' = [calls EXCEPT ![acl[h]][peer[h]] = @ + Unit]
  /\ UNCHANGED acls

\* The bucket of the ACL object pays, even if it is no longer the current one.
LetThrough(h) ==
  /\ acls' = [acls EXCEPT ![acl[h]][peer[h]].tokens = @ - Unit]
  /\ calls' = [calls EXCEPT ![acl[h]][peer[h]] = @ + Unit]

\* ACL::isCallAllowed and what handleInvite makes of its answer; the ACL object
\* is a temporary of that statement.
isCallAllowed(h) ==
  /\ pc[h] = "acl"
  /\ IF Denied(h) THEN reply(h, 401) /\ UNCHANGED <<acls, calls>>
     ELSE \/ Tokens(h) < Unit /\ reply(h, 429) /\ UNCHANGED <<acls, calls>>
          \/ /\ Tokens(h) >= Unit
             /\ LetThrough(h)
             /\ pc' = [pc EXCEPT ![h] = "us"]
             /\ UNCHANGED status
  /\ acl' = [acl EXCEPT ![h] = 0]
  /\ UNCHANGED <<now, us, ca, born, received, peer, method, pn, rn, lines, history>>

\* getRN of the number called.  No file contains the key NONE.  Version 0 would
\* be a null pointer: RouteInForce.
getRN(files, v, n) == IF n = NONE \/ v = 0 THEN NONE ELSE files[v]

LookupUS(h) ==
  /\ pc[h] = "us"
  /\ rn' = [rn EXCEPT ![h] = getRN(UsFiles, us, pn[h])]
  /\ pc' = [pc EXCEPT ![h] = "ca"]
  /\ UNCHANGED <<server, received, peer, method, pn, acl, status, lines, history>>

\* Mutant: the CA mapping is asked whatever the US mapping said.
NeedsCA_Always(h) == TRUE

NeedsCA(h) == rn[h] = NONE

LookupCA(h) ==
  /\ pc[h] = "ca"
  /\ rn' = [rn EXCEPT ![h] = IF NeedsCA(h) THEN getRN(CaFiles, ca, pn[h]) ELSE @]
  /\ reply(h, 302)
  /\ UNCHANGED <<server, received, peer, method, pn, acl, lines, history>>

\* The answer is sent and log_.onResponse writes message_: str() copies it (the
\* build is C++17) and ostringstream::clear() does not empty it.  What is left
\* of the datagram is overwritten before the next one reads it: cleared here.
Finish(h) ==
  /\ pc[h] = "finish"
  /\ lines' = [lines EXCEPT ![h] = @ + 1]
  /\ pc' = [pc EXCEPT ![h] = "idle"]
  /\ peer' = [peer EXCEPT ![h] = Nothing] /\ method' = [method EXCEPT ![h] = "OPTIONS"]
  /\ pn' = [pn EXCEPT ![h] = NONE] /\ rn' = [rn EXCEPT ![h] = NONE]
  /\ status' = [status EXCEPT ![h] = 0]
  /\ since' = [since EXCEPT ![h] = Never] /\ arrived' = [arrived EXCEPT ![h] = 0]
  /\ UNCHANGED <<server, received, acl>>

-----------------------------------------------------------------------------
Step(h) ==
  \/ Dispatch(h) \/ GetAcl(h) \/ isCallAllowed(h)
  \/ LookupUS(h) \/ LookupCA(h) \/ Finish(h)

Command ==
  \/ \E f \in AclFiles : CommitAcl(f)
  \/ CommitUS \/ CommitCA

Arrival(h) ==
  \/ Drop(h)
  \/ \E p \in Peers, m \in {"OPTIONS", "other"} : Receive(h, p, m, NONE)
  \/ \E p \in Peers, n \in Numbers \cup {NONE} : Receive(h, p, "INVITE", n)

\* Every datagram of the bounded run has been handled.
Exhausted ==
  /\ received = MaxDatagrams /\ \A h \in Handlers : pc[h] = "idle"
  /\ UNCHANGED vars

Next == Tick \/ Command \/ Exhausted \/ \E h \in Handlers : Step(h) \/ Arrival(h)

Spec == Init /\ [][Next]_vars

-----------------------------------------------------------------------------
(* Properties.                                                             *)

\* The rule that ACL v has for p, while it was in force for a datagram that
\* arrived at a and is answered now.
HadRule(v, p) == v # 0 /\ acls[v][p] # Nothing
Live(v, p, t) == HadRule(v, p) /\ (acls[v][p].expire = Nothing \/ t < acls[v][p].expire)

\* The verdict on a call comes from an ACL that was current at some time after
\* the datagram arrived: a peer taken off the list is not served once the
\* reload is over, a peer put on it is not refused, however the reload falls
\* between the steps of the handler.
VerdictInForce ==
  \A h \in Handlers : pc[h] = "finish" =>
    LET inForce == since[h].acl..Len(acls) IN
    /\ status[h] = 302 => \E v \in inForce : Live(v, peer[h], arrived[h])
    /\ status[h] = 401 => \E v \in inForce : ~Live(v, peer[h], now)
    /\ status[h] = 429 => \E v \in inForce : Live(v, peer[h], arrived[h])

\* All handlers together let a peer make no more calls than the burst of its
\* rule and the rate earned since the ACL was loaded, as long as that ACL lives.
BudgetHolds ==
  \A v \in DOMAIN acls, p \in Peers : calls[v][p] > 0 =>
    /\ acls[v][p] # Nothing
    /\ calls[v][p] <= Burst(acls[v][p].rate) + acls[v][p].rate * (now - born[v])

\* The routing number in a 302 is what a mapping in service while the call was
\* handled said; the CA mapping is believed only if the US mapping did not have
\* the number, and "not ported" only if neither did.  A handler that has passed
\* isAvailable() does not meet a mapping that is not loaded later.
RouteInForce ==
  /\ \A h \in Handlers : pc[h] \in {"us", "ca"} => us # 0 /\ ca # 0
  /\ \A h \in Handlers : (pc[h] = "finish" /\ status[h] = 302 /\ pn[h] # NONE) =>
       \E u \in since[h].us..us \ {0}, c \in since[h].ca..ca \ {0} :
         rn[h] = IF UsFiles[u] # NONE THEN UsFiles[u] ELSE CaFiles[c]

\* README: "All request are logged to file specified by `--access_log` flag", one
\* line each in its example.  A request writes its own line and no other.
OneLinePerRequest == \A h \in Handlers : lines[h] <= 1

=============================================================================
