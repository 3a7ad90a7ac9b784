------------------------- MODULE SipHandler_proofs -------------------------
(***************************************************************************)
(* Proofs about SipHandler for any number of handlers, peers, files and    *)
(* datagrams: which ACL a verdict comes from, how many calls a bucket lets *)
(* through, and which mappings a routing number comes from.                *)
(***************************************************************************)
EXTENDS SipHandler, FiniteSetsExt, WellFoundedInduction, TLAPS

-----------------------------------------------------------------------------
(* Least and greatest elements of sets of naturals.                        *)

\* A set of naturals that is not empty has a least element, and Min is it.
LEMMA MinIsLeast ==
  ASSUME NEW S \in SUBSET Nat, S # {}
  PROVE  Min(S) \in S /\ \A y \in S : Min(S) <= y
<1>1. PICK x \in S : \A y \in S : ~(<<y, x>> \in OpToRel(<, Nat))
  BY NatLessThanWellFounded, WFMin, Zenon
<1>2. \A y \in S : ~(y < x)
  BY <1>1, x \in Nat DEF OpToRel
<1>3. \A y \in S : x <= y
  BY <1>2, x \in Nat
<1>. QED
  BY <1>3 DEF Min

\* A set of naturals that is not empty and has a bound has a greatest element,
\* and Max is it.
LEMMA MaxIsGreatest ==
  ASSUME NEW S \in SUBSET Nat, S # {}, NEW b \in Nat, \A x \in S : x <= b
  PROVE  Max(S) \in S /\ \A y \in S : y <= Max(S)
<1>. DEFINE T == {b - x : x \in S}
<1>1. \A x \in S : b - x \in Nat
  OBVIOUS
<1>2. T \in SUBSET Nat /\ T # {}
  BY <1>1
<1>3. Min(T) \in T /\ \A t \in T : Min(T) <= t
  BY <1>2, MinIsLeast
<1>4. PICK m \in S : Min(T) = b - m
  BY <1>3
<1>5. \A y \in S : b - m <= b - y
  BY <1>3, <1>4
<1>6. \A y \in S : y <= m
  BY <1>5
<1>. QED
  BY <1>6 DEF Max

-----------------------------------------------------------------------------
(* The inductive invariant.                                                *)

\* The places of a handler that has a datagram in hand, and those after the test
\* for the mappings.
Busy == {"parsed", "invite", "acl", "us", "ca", "finish"}
Served == {"invite", "acl", "us", "ca"}

ServerType ==
  /\ now \in Nat /\ us \in 0..Len(UsFiles) /\ ca \in 0..Len(CaFiles)
  /\ acls \in Seq([Peers -> Rule \cup {Nothing}])
  /\ born \in Seq(Nat) /\ calls \in Seq([Peers -> Nat])
  /\ Len(born) = Len(acls) /\ Len(calls) = Len(acls)

HandlerType ==
  /\ pc \in [Handlers -> Busy \cup {"idle"}]
  /\ peer \in [Handlers -> Peers \cup {Nothing}]
  /\ method \in [Handlers -> {"OPTIONS", "INVITE", "other"}]
  /\ pn \in [Handlers -> Numbers \cup {NONE}]
  /\ rn \in [Handlers -> {UsFiles[v] : v \in DOMAIN UsFiles} \cup
                         {CaFiles[v] : v \in DOMAIN CaFiles} \cup {NONE}]
  /\ acl \in [Handlers -> Nat]
  /\ status \in [Handlers -> Nat]
  /\ since \in [Handlers -> [acl : Nat, us : Nat, ca : Nat]]
  /\ arrived \in [Handlers -> Nat]

TypeOK == ServerType /\ HandlerType

\* Nothing in force when the datagram of h came has been replaced by something
\* older.
Forward(h) ==
  /\ since[h].acl <= Len(acls) /\ since[h].us <= us /\ since[h].ca <= ca
  /\ arrived[h] <= now
  /\ pc[h] \in Busy => peer[h] \in Peers

\* Its ACL object is one that has been current since.
AclInForce(h) ==
  pc[h] = "acl" => since[h].acl <= acl[h] /\ acl[h] <= Len(acls)

\* What admits a call, and what the answer says of it.
Admitted(h) == \E v \in since[h].acl..Len(acls) : Live(v, peer[h], arrived[h])
Refused(h) == \E v \in since[h].acl..Len(acls) : ~Live(v, peer[h], now)

Verdict(h) ==
  /\ pc[h] \in {"us", "ca"} => Admitted(h)
  /\ pc[h] = "finish" => /\ status[h] \in {302, 429} => Admitted(h)
                         /\ status[h] = 401 => Refused(h)

\* The number found so far, and the one found in the end.
FoundUS(h) == \E u \in since[h].us..us \ {0} : rn[h] = UsFiles[u]
Found(h) ==
  \E u \in since[h].us..us \ {0}, c \in since[h].ca..ca \ {0} :
    rn[h] = IF UsFiles[u] # NONE THEN UsFiles[u] ELSE CaFiles[c]

Route(h) ==
  /\ pc[h] \in Served => us # 0 /\ ca # 0
  /\ pc[h] = "ca" /\ pn[h] # NONE => FoundUS(h)
  /\ pc[h] = "finish" /\ status[h] = 302 /\ pn[h] # NONE => Found(h)

Right(h) == Forward(h) /\ AclInForce(h) /\ Verdict(h) /\ Route(h)

\* A bucket and the calls it has paid for never exceed what it was given and earned.
Paid(v, p) ==
  /\ acls[v][p] = Nothing => calls[v][p] = 0
  /\ acls[v][p] # Nothing =>
       calls[v][p] + acls[v][p].tokens
         <= Burst(acls[v][p].rate) + acls[v][p].rate * (now - born[v])

Budget == \A v \in DOMAIN acls : born[v] <= now /\ \A p \in Peers : Paid(v, p)

IInv == TypeOK /\ Budget /\ \A h \in Handlers : Right(h)

-----------------------------------------------------------------------------
(* Facts about ACL files.                                                  *)

\* A burst is a positive number.
LEMMA BurstType ==
  ASSUME NEW r \in Nat
  PROVE  Burst(r) \in Nat /\ Burst(r) >= r
BY SipAssumption DEF Burst

\* The bucket that a row leaves is no fuller than the burst of its rate.
LEMMA BucketIsCapped ==
  ASSUME NEW f \in Seq(Row), NEW i \in DOMAIN f
  PROVE  /\ Rate(f, i) \in Nat \ {0} /\ Level(f, i) \in Nat
         /\ Level(f, i) <= Burst(Rate(f, i))
<1>. DEFINE R == Rated(f, i)
            B == {Unlimited} \cup {Burst(f[j].cps) : j \in R}
<1>1. R \in SUBSET Nat /\ (\A j \in R : j <= i) /\ i \in Nat
  BY DEF Rated
<1>2. \A j \in R : f[j].cps \in Nat \ {0}
  <2>. SUFFICES ASSUME NEW j \in R PROVE f[j].cps \in Nat \ {0}
    OBVIOUS
  <2>1. j \in DOMAIN f /\ f[j].cps # Nothing
    BY DEF Rated
  <2>2. f[j] \in Row
    BY <2>1
  <2>. QED
    BY <2>1, <2>2 DEF Row
<1>3. \A j \in R : Burst(f[j].cps) \in Nat
  BY <1>2, BurstType
<1>4. B \in SUBSET Nat /\ B # {}
  BY <1>3, SipAssumption
<1>5. Min(B) \in Nat /\ \A y \in B : Min(B) <= y
  BY <1>4, MinIsLeast
<1>6. CASE R = {}
  <2>1. Rate(f, i) = Unlimited /\ Unlimited \in Nat \ {0}
    BY <1>6, SipAssumption DEF Rate
  <2>2. Burst(Unlimited) >= Unlimited /\ Burst(Unlimited) \in Nat
    BY <2>1, BurstType
  <2>3. Level(f, i) <= Unlimited /\ Level(f, i) \in Nat
    BY <1>5 DEF Level
  <2>. QED
    BY <2>1, <2>2, <2>3
<1>7. CASE R # {}
  <2>1. Max(R) \in R
    BY <1>1, <1>7, MaxIsGreatest
  <2>2. Rate(f, i) = f[Max(R)].cps
    BY <1>7 DEF Rate
  <2>3. Level(f, i) <= Burst(f[Max(R)].cps) /\ Level(f, i) \in Nat
    BY <1>5, <2>1 DEF Level
  <2>. QED
    BY <1>2, <2>1, <2>2, <2>3
<1>. QED
  BY <1>6, <1>7

\* An ACL object has rules, and their buckets are within their bursts.
LEMMA FileIsAcl ==
  ASSUME NEW f \in AclFiles
  PROVE  /\ fromCSV(f) \in [Peers -> Rule \cup {Nothing}]
         /\ \A p \in Peers : fromCSV(f)[p] # Nothing =>
              fromCSV(f)[p].tokens <= Burst(fromCSV(f)[p].rate)
<1>1. f \in Seq(Row)
  BY SipAssumption
<1>2. ASSUME NEW p \in Peers, RowsOf(f, p) # {}
      PROVE  LET i == Max(RowsOf(f, p))
                 r == [expire |-> f[i].expire, rate |-> Rate(f, i), tokens |-> Level(f, i)]
             IN  r \in Rule /\ r.tokens <= Burst(r.rate)
  <2>1. /\ RowsOf(f, p) \in SUBSET Nat /\ Len(f) \in Nat
        /\ \A i \in RowsOf(f, p) : i <= Len(f)
    BY <1>1 DEF RowsOf
  <2>2. PICK i \in DOMAIN f : i = Max(RowsOf(f, p))
    BY <1>2, <2>1, MaxIsGreatest DEF RowsOf
  <2>3. f[i] \in Row
    BY <1>1
  <2>4. f[i].expire \in 0..MaxTime \cup {Nothing}
    BY <2>3 DEF Row
  <2>. QED
    BY <1>1, <2>2, <2>4, BucketIsCapped DEF Rule
<1>3. ASSUME NEW p \in Peers
      PROVE  /\ fromCSV(f)[p] \in Rule \cup {Nothing}
             /\ fromCSV(f)[p] # Nothing => fromCSV(f)[p].tokens <= Burst(fromCSV(f)[p].rate)
  <2>1. CASE RowsOf(f, p) = {}
    BY <2>1 DEF fromCSV
  <2>2. CASE RowsOf(f, p) # {}
    BY <1>2, <2>2 DEF fromCSV
  <2>. QED
    BY <2>1, <2>2
<1>. QED
  BY <1>3 DEF fromCSV

-----------------------------------------------------------------------------
(* Every action preserves the invariant.                                   *)

\* Time and versions only grow, and the rules of an ACL keep their expiry.
Advance ==
  /\ now <= now' /\ us <= us' /\ ca <= ca' /\ Len(acls) <= Len(acls')
  /\ \A v \in DOMAIN acls : \A p \in Peers :
       /\ acls'[v][p] = Nothing <=> acls[v][p] = Nothing
       /\ acls[v][p] # Nothing => acls'[v][p].expire = acls[v][p].expire

\* Handler g is where it was.
Still(g) ==
  /\ pc'[g] = pc[g] /\ peer'[g] = peer[g] /\ pn'[g] = pn[g] /\ rn'[g] = rn[g]
  /\ acl'[g] = acl[g] /\ status'[g] = status[g] /\ since'[g] = since[g]
  /\ arrived'[g] = arrived[g]

\* A rule that was in force for a datagram stays so, and an expired one expired.
LEMMA LiveKept ==
  ASSUME TypeOK, TypeOK', Advance, NEW p \in Peers, NEW v \in 0..Len(acls), NEW t \in Nat
  PROVE  /\ Live(v, p, t)' <=> Live(v, p, t)
         /\ ~Live(v, p, now) => ~Live(v, p, now)'
<1>1. CASE v = 0
  BY <1>1 DEF Live, HadRule
<1>2. CASE v # 0
  <2>1. v \in DOMAIN acls
    BY <1>2 DEF TypeOK, ServerType, HandlerType
  <2>2. /\ acls'[v][p] = Nothing <=> acls[v][p] = Nothing
        /\ acls[v][p] # Nothing => acls'[v][p].expire = acls[v][p].expire
    BY <2>1 DEF Advance
  <2>3. acls[v][p] # Nothing => acls[v][p].expire \in Nat \cup {Nothing}
    BY <2>1, SipAssumption, SMTT(30) DEF TypeOK, ServerType, HandlerType, Rule
  <2>4. Live(v, p, t)' <=> Live(v, p, t)
    BY <1>2, <2>2 DEF Live, HadRule
  <2>5. ~Live(v, p, now) => ~Live(v, p, now)'
    <3>1. now \in Nat /\ now' \in Nat /\ now <= now'
      BY DEF TypeOK, ServerType, HandlerType, Advance
    <3>2. acls[v][p] # Nothing /\ acls[v][p].expire # Nothing /\ ~(now < acls[v][p].expire)
            => ~(now' < acls[v][p].expire)
      BY <2>3, <3>1
    <3>. QED
      BY <1>2, <2>2, <3>2 DEF Live, HadRule
  <2>. QED
    BY <2>4, <2>5
<1>. QED
  BY <1>1, <1>2

\* Going further keeps what is behind behind.
LEMMA Further ==
  \A a, b, c \in Nat : a <= b /\ b <= c => a <= c
OBVIOUS

\* What holds of a handler still holds when the server moves on without it.
LEMMA RightKept ==
  ASSUME TypeOK, TypeOK', Advance, NEW g \in Handlers, Right(g), Still(g)
  PROVE  Right(g)'
<1>. USE DEF Right, Still
<1>1. /\ Len(acls) \in Nat /\ Len(acls') \in Nat /\ us \in Nat /\ us' \in Nat
      /\ ca \in Nat /\ ca' \in Nat /\ now \in Nat /\ now' \in Nat /\ acl[g] \in Nat
      /\ since[g].acl \in Nat /\ since[g].us \in Nat /\ since[g].ca \in Nat /\ arrived[g] \in Nat
  BY SipAssumption, SMTT(30) DEF TypeOK, ServerType, HandlerType
<1>2. Forward(g)'
  <2>1. /\ since[g].acl <= Len(acls) /\ since[g].us <= us /\ since[g].ca <= ca
        /\ arrived[g] <= now
        /\ pc'[g] \in Busy => peer'[g] \in Peers
    BY Zenon DEF Forward
  <2>2. now <= now' /\ us <= us' /\ ca <= ca' /\ Len(acls) <= Len(acls')
    BY Zenon DEF Advance
  <2>3. since[g].acl <= Len(acls') /\ since[g].us <= us' /\ since[g].ca <= ca' /\ arrived[g] <= now'
    BY <1>1, <2>1, <2>2, Further, Zenon
  <2>. QED
    BY <2>1, <2>3, Zenon DEF Forward
<1>3. AclInForce(g)'
  <2>1. pc[g] = "acl" => since[g].acl <= acl[g] /\ acl[g] <= Len(acls)
    BY Zenon DEF AclInForce
  <2>2. Len(acls) <= Len(acls')
    BY Zenon DEF Advance
  <2>3. pc[g] = "acl" => acl[g] <= Len(acls')
    BY <1>1, <2>1, <2>2, Further, Zenon
  <2>. QED
    BY <2>1, <2>3, Zenon DEF AclInForce
<1>4. \A v \in since[g].acl..Len(acls) : v \in 0..Len(acls) /\ v \in since[g].acl..Len(acls')
  BY <1>1 DEF Advance
<1>5. peer[g] \in Peers /\ Admitted(g) => Admitted(g)'
  <2>. SUFFICES ASSUME peer[g] \in Peers, NEW v \in since[g].acl..Len(acls),
                       Live(v, peer[g], arrived[g])
                PROVE  Admitted(g)'
    BY DEF Admitted
  <2>1. PICK p \in Peers : p = peer[g]
    OBVIOUS
  <2>2. PICK t \in Nat : t = arrived[g]
    BY <1>1
  <2>3. Live(v, p, t)' /\ v \in since[g].acl..Len(acls')
    BY <1>4, <2>1, <2>2, LiveKept
  <2>. QED
    BY <2>1, <2>2, <2>3 DEF Admitted
<1>6. peer[g] \in Peers /\ Refused(g) => Refused(g)'
  <2>. SUFFICES ASSUME peer[g] \in Peers, NEW v \in since[g].acl..Len(acls),
                       ~Live(v, peer[g], now)
                PROVE  Refused(g)'
    BY DEF Refused
  <2>1. PICK p \in Peers : p = peer[g]
    OBVIOUS
  <2>2. ~Live(v, p, now)' /\ v \in since[g].acl..Len(acls')
    BY <1>1, <1>4, <2>1, LiveKept
  <2>. QED
    BY <2>1, <2>2 DEF Refused
<1>7. Verdict(g)'
  BY <1>5, <1>6 DEF Verdict, Forward, Busy
<1>8. /\ \A u \in since[g].us..us \ {0} : u \in since[g].us..us' \ {0}
      /\ \A c \in since[g].ca..ca \ {0} : c \in since[g].ca..ca' \ {0}
  BY <1>1 DEF Advance
<1>9. (FoundUS(g) => FoundUS(g)') /\ (Found(g) => Found(g)')
  BY <1>8 DEF FoundUS, Found
<1>10. Route(g)'
  BY <1>1, <1>9 DEF Route, Advance
<1>. QED
  BY <1>2, <1>3, <1>7, <1>10

\* Buckets and calls are what they were, at the same time.
LEMMA BudgetKept ==
  ASSUME Budget, UNCHANGED <<acls, born, calls, now>>
  PROVE  Budget'
BY DEF Budget, Paid

\* loadACLFile and ACL::commit
LEMMA CommitAclStep ==
  ASSUME IInv, NEW f \in AclFiles, CommitAcl(f)
  PROVE  IInv'
<1>. USE DEF CommitAcl, history
<1>1. /\ fromCSV(f) \in [Peers -> Rule \cup {Nothing}]
      /\ \A p \in Peers : fromCSV(f)[p] # Nothing =>
           fromCSV(f)[p].tokens <= Burst(fromCSV(f)[p].rate)
  BY FileIsAcl
<1>2. TypeOK'
  <2>1. /\ acls' \in Seq([Peers -> Rule \cup {Nothing}]) /\ Len(acls') = Len(acls) + 1
        /\ calls' \in Seq([Peers -> Nat]) /\ Len(calls') = Len(calls) + 1
        /\ born' \in Seq(Nat) /\ Len(born') = Len(born) + 1
    BY <1>1 DEF IInv, TypeOK, ServerType, HandlerType
  <2>. QED
    BY <2>1 DEF IInv, TypeOK, ServerType, HandlerType
<1>3. /\ DOMAIN acls = 1..Len(acls) /\ Len(acls) \in Nat
      /\ DOMAIN acls' = 1..(Len(acls) + 1) /\ Len(acls') = Len(acls) + 1
      /\ \A v \in DOMAIN acls : acls'[v] = acls[v] /\ born'[v] = born[v] /\ calls'[v] = calls[v]
      /\ acls'[Len(acls) + 1] = fromCSV(f) /\ born'[Len(acls) + 1] = now
      /\ calls'[Len(acls) + 1] = [p \in Peers |-> 0]
  BY <1>1 DEF IInv, TypeOK, ServerType, HandlerType
<1>4. Advance
  BY <1>3, SipAssumption DEF Advance, IInv, TypeOK, ServerType, HandlerType
<1>5. Budget'
  <2>1. ASSUME NEW v \in DOMAIN acls PROVE born'[v] <= now' /\ \A p \in Peers : Paid(v, p)'
    <3>1. /\ born[v] <= now /\ \A p \in Peers : Paid(v, p)
          /\ acls'[v] = acls[v] /\ born'[v] = born[v] /\ calls'[v] = calls[v] /\ now' = now
      BY <1>3 DEF IInv, Budget
    <3>. QED
      BY <3>1, Zenon DEF Paid
  <2>2. ASSUME NEW v \in DOMAIN acls', v = Len(acls) + 1, NEW p \in Peers
        PROVE  born'[v] <= now' /\ Paid(v, p)'
    <3>1. acls'[v] = fromCSV(f) /\ calls'[v][p] = 0 /\ born'[v] = now /\ now' = now /\ now \in Nat
      BY <1>3, <2>2 DEF IInv, TypeOK, ServerType, HandlerType
    <3>2. ASSUME fromCSV(f)[p] # Nothing
          PROVE  0 + fromCSV(f)[p].tokens <= Burst(fromCSV(f)[p].rate) + fromCSV(f)[p].rate * (now - now)
      <4>1. fromCSV(f)[p].tokens \in Nat /\ fromCSV(f)[p].rate \in Nat
        BY <1>1, <3>2 DEF Rule
      <4>2. Burst(fromCSV(f)[p].rate) \in Nat
        BY <4>1, BurstType
      <4>3. fromCSV(f)[p].rate * (now - now) = 0
        BY <3>1, <4>1
      <4>. QED
        BY <1>1, <3>2, <4>1, <4>2, <4>3
    <3>3. acls'[v][p] = fromCSV(f)[p] /\ calls'[v][p] = 0 /\ born'[v] = now /\ now' = now
      BY <3>1
    <3>4. Paid(v, p)'
      BY <3>2, <3>3, Zenon DEF Paid
    <3>. QED
      BY <3>1, <3>4
  <2>3. \A v \in DOMAIN acls' : v \in DOMAIN acls \/ v = Len(acls) + 1
    BY <1>3
  <2>4. now' = now /\ now <= now
    BY DEF IInv, TypeOK, ServerType, HandlerType
  <2>. QED
    BY <1>3, <2>1, <2>2, <2>3, <2>4 DEF Budget
<1>6. \A g \in Handlers : Right(g)'
  BY <1>2, <1>4, RightKept DEF IInv, Still
<1>. QED
  BY <1>2, <1>5, <1>6 DEF IInv

\* A reload of a phone mapping
LEMMA CommitMappingStep ==
  ASSUME IInv, CommitUS \/ CommitCA
  PROVE  IInv'
<1>. USE DEF CommitUS, CommitCA, history
<1>1. TypeOK'
  <2>1. us' \in 0..Len(UsFiles) /\ ca' \in 0..Len(CaFiles)
    BY SipAssumption DEF IInv, TypeOK, ServerType, HandlerType
  <2>. QED
    BY <2>1 DEF IInv, TypeOK, ServerType, HandlerType
<1>2. Advance
  BY SipAssumption, SMTT(30) DEF Advance, IInv, TypeOK, ServerType, HandlerType
<1>3. Budget'
  BY BudgetKept DEF IInv
<1>4. \A g \in Handlers : Right(g)'
  BY <1>1, <1>2, RightKept DEF IInv, Still
<1>. QED
  BY <1>1, <1>3, <1>4 DEF IInv

\* What a second earns.
LEMMA RefillFacts ==
  ASSUME NEW r \in Rule
  PROVE  /\ Refill(r) \in Rule /\ Refill(r).expire = r.expire /\ Refill(r).rate = r.rate
         /\ Refill(r).tokens <= r.tokens + r.rate
<1>1. r.tokens \in Nat /\ r.rate \in Nat \ {0}
  BY DEF Rule
<1>2. Burst(r.rate) \in Nat
  BY <1>1, BurstType
<1>. DEFINE S == {r.tokens + r.rate, Burst(r.rate)}
<1>3. S \in SUBSET Nat /\ S # {}
  BY <1>1, <1>2
<1>4. Min(S) \in Nat /\ Min(S) <= r.tokens + r.rate
  BY <1>3, MinIsLeast
<1>. HIDE DEF S
<1>5. Refill(r) = [r EXCEPT !.tokens = Min(S)]
  BY DEF Refill, S
<1>. QED
  BY <1>4, <1>5 DEF Rule

\* A second passes.
LEMMA TickStep ==
  ASSUME IInv, Tick
  PROVE  IInv'
<1>. USE DEF history
<1>1. /\ now' = now + 1 /\ now \in Nat
      /\ acls' = [v \in DOMAIN acls |-> [p \in Peers |->
                    IF acls[v][p] = Nothing THEN Nothing ELSE Refill(acls[v][p])]]
      /\ UNCHANGED <<us, ca, born, calls, received, pc, peer, method, pn, rn, acl,
                     status, lines, history>>
  BY DEF Tick, IInv, TypeOK, ServerType, HandlerType
<1>2. DOMAIN acls = 1..Len(acls) /\ Len(acls) \in Nat
  BY DEF IInv, TypeOK, ServerType, HandlerType
<1>3. ASSUME NEW v \in DOMAIN acls, NEW p \in Peers
      PROVE  /\ acls[v][p] \in Rule \cup {Nothing}
             /\ acls[v][p] = Nothing => acls'[v][p] = Nothing
             /\ acls[v][p] # Nothing =>
                  /\ acls'[v][p] \in Rule /\ acls'[v][p].expire = acls[v][p].expire
                  /\ acls'[v][p].rate = acls[v][p].rate
                  /\ acls'[v][p].tokens <= acls[v][p].tokens + acls[v][p].rate
  <2>1. acls[v][p] \in Rule \cup {Nothing}
    BY DEF IInv, TypeOK, ServerType, HandlerType
  <2>2. acls'[v][p] = IF acls[v][p] = Nothing THEN Nothing ELSE Refill(acls[v][p])
    BY <1>1
  <2>. QED
    BY <2>1, <2>2, RefillFacts
<1>4. acls' \in Seq([Peers -> Rule \cup {Nothing}]) /\ Len(acls') = Len(acls)
  <2>1. \A v \in DOMAIN acls : acls'[v] \in [Peers -> Rule \cup {Nothing}]
    BY <1>1, <1>3
  <2>2. acls' \in [1..Len(acls) -> [Peers -> Rule \cup {Nothing}]]
    BY <1>1, <1>2, <2>1
  <2>. QED
    BY <1>2, <2>2
<1>5. TypeOK'
  <2>1. ServerType'
    BY <1>1, <1>4 DEF IInv, TypeOK, ServerType
  <2>2. HandlerType'
    BY <1>1 DEF IInv, TypeOK, HandlerType
  <2>. QED
    BY <2>1, <2>2 DEF TypeOK
<1>6. Advance
  <2>1. /\ now <= now' /\ us <= us' /\ ca <= ca' /\ Len(acls) <= Len(acls')
    BY <1>1, <1>2, <1>4, SipAssumption DEF IInv, TypeOK, ServerType, HandlerType
  <2>2. \A v \in DOMAIN acls : \A p \in Peers :
          /\ acls'[v][p] = Nothing <=> acls[v][p] = Nothing
          /\ acls[v][p] # Nothing => acls'[v][p].expire = acls[v][p].expire
    BY <1>3, SipAssumption
  <2>. QED
    BY <2>1, <2>2 DEF Advance
<1>7. Budget'
  <2>. SUFFICES ASSUME NEW v \in DOMAIN acls
                PROVE  born[v] <= now + 1 /\ \A p \in Peers : Paid(v, p)'
    BY <1>1 DEF Budget
  <2>1. born[v] <= now /\ born[v] \in Nat /\ (\A p \in Peers : Paid(v, p) /\ calls[v][p] \in Nat)
    BY <1>2 DEF IInv, Budget, TypeOK, ServerType, HandlerType
  <2>2. ASSUME NEW p \in Peers, acls[v][p] # Nothing
        PROVE  calls[v][p] + acls'[v][p].tokens
                 <= Burst(acls[v][p].rate) + acls[v][p].rate * ((now + 1) - born[v])
    <3>. DEFINE r == acls[v][p].rate
                t == acls[v][p].tokens
                t1 == acls'[v][p].tokens
                k == calls[v][p]
                B == Burst(r)
                e == now - born[v]
    <3>1. r \in Nat /\ t \in Nat /\ t1 \in Nat /\ t1 <= t + r /\ k \in Nat
      BY <1>3, <2>1, <2>2 DEF Rule
    <3>2. B \in Nat
      BY <3>1, BurstType
    <3>3. e \in Nat /\ (now + 1) - born[v] = e + 1
      BY <1>1, <2>1, SMTT(30)
    <3>4. k + t <= B + r * e
      BY <2>1, <2>2 DEF Paid
    <3>. HIDE DEF r, t, t1, k, B, e
    <3>5. r * e \in Nat /\ r * (e + 1) = r * e + r
      BY <3>1, <3>3
    <3>6. k + t1 <= B + r * (e + 1)
      BY <3>1, <3>2, <3>4, <3>5
    <3>. QED
      BY <3>3, <3>6 DEF r, t1, k, B
  <2>3. ASSUME NEW p \in Peers PROVE Paid(v, p)'
    <3>1. CASE acls[v][p] = Nothing
      <4>1. acls'[v][p] = Nothing /\ calls'[v][p] = 0
        BY <1>1, <1>3, <2>1, <3>1 DEF Paid
      <4>. QED
        BY <4>1, Zenon DEF Paid
    <3>2. CASE acls[v][p] # Nothing
      <4>1. /\ acls'[v][p] # Nothing /\ acls'[v][p].rate = acls[v][p].rate
            /\ calls' = calls /\ born' = born /\ now' = now + 1
        BY <1>1, <1>3, <3>2, SipAssumption
      <4>2. calls[v][p] + acls'[v][p].tokens
              <= Burst(acls[v][p].rate) + acls[v][p].rate * ((now + 1) - born[v])
        BY <2>2, <3>2
      <4>3. calls'[v][p] + acls'[v][p].tokens
              <= Burst(acls'[v][p].rate) + acls'[v][p].rate * (now' - born'[v])
        BY <4>1, <4>2
      <4>. QED
        BY <4>1, <4>3, Zenon DEF Paid
    <3>. QED
      BY <3>1, <3>2
  <2>. QED
    BY <1>1, <2>1, <2>3
<1>8. \A g \in Handlers : Right(g)'
  BY <1>1, <1>5, <1>6, RightKept DEF IInv, Still
<1>. QED
  BY <1>5, <1>7, <1>8 DEF IInv

\* The server does not move in a step of a handler that leaves it alone.
LEMMA ServerStill ==
  ASSUME IInv, UNCHANGED server
  PROVE  Advance /\ Budget'
<1>1. Advance
  BY SipAssumption DEF Advance, IInv, TypeOK, ServerType, HandlerType, server
<1>. QED
  BY <1>1, BudgetKept DEF IInv, server

\* onDataAvailable with a message that does not parse
LEMMA DropStep ==
  ASSUME IInv, NEW h \in Handlers, Drop(h)
  PROVE  IInv'
<1>. USE DEF Drop, history
<1>1. TypeOK'
  BY DEF IInv, TypeOK, ServerType, HandlerType, server
<1>2. Advance /\ Budget'
  BY ServerStill
<1>3. \A g \in Handlers : g # h => Still(g)
  BY DEF IInv, TypeOK, ServerType, HandlerType, Still
<1>4. Right(h)'
  BY DEF IInv, TypeOK, ServerType, HandlerType, Right, Forward, AclInForce, Verdict, Route, Busy, Served, server
<1>. QED
  BY <1>1, <1>2, <1>3, <1>4, RightKept DEF IInv

\* onDataAvailable with a good one
LEMMA ReceiveStep ==
  ASSUME IInv, NEW h \in Handlers, NEW p \in Peers, NEW m \in {"OPTIONS", "INVITE", "other"},
         NEW n \in Numbers \cup {NONE}, Receive(h, p, m, n)
  PROVE  IInv'
<1>. USE DEF Receive, history
<1>1. Versions \in [acl : Nat, us : Nat, ca : Nat]
  BY SipAssumption DEF IInv, TypeOK, ServerType, HandlerType, Versions
<1>2. TypeOK'
  BY <1>1 DEF IInv, TypeOK, ServerType, HandlerType, server, Busy
<1>3. Advance /\ Budget'
  BY ServerStill
<1>4. \A g \in Handlers : g # h => Still(g)
  BY DEF IInv, TypeOK, ServerType, HandlerType, Still
<1>5. pc'[h] = "parsed" /\ since'[h] = Versions /\ arrived'[h] = now /\ peer'[h] = p
  BY DEF IInv, TypeOK, ServerType, HandlerType
<1>6. Right(h)'
  <2>1. Forward(h)'
    BY <1>5, SipAssumption DEF IInv, TypeOK, ServerType, HandlerType, Forward, Versions, server
  <2>. QED
    BY <1>5, <2>1 DEF Right, AclInForce, Verdict, Route, Served
<1>. QED
  BY <1>2, <1>3, <1>4, <1>6, RightKept DEF IInv

\* The test for the mappings and the switch on the method
LEMMA DispatchStep ==
  ASSUME IInv, NEW h \in Handlers, Dispatch(h)
  PROVE  IInv'
<1>. USE DEF Dispatch, history, reply
<1>1. TypeOK'
  <2>1. ServerType'
    BY DEF IInv, TypeOK, ServerType, server
  <2>2. pc' \in [Handlers -> Busy \cup {"idle"}] /\ status' \in [Handlers -> Nat]
    BY DEF IInv, TypeOK, HandlerType, Busy
  <2>3. HandlerType'
    BY <2>2 DEF IInv, TypeOK, HandlerType
  <2>. QED
    BY <2>1, <2>3 DEF TypeOK
<1>2. Advance /\ Budget'
  BY ServerStill
<1>3. \A g \in Handlers : g # h => Still(g)
  BY SMTT(30) DEF IInv, TypeOK, ServerType, HandlerType, Still
<1>4. \/ pc'[h] = "finish" /\ status'[h] \notin {302, 401, 429}
      \/ pc'[h] = "invite" /\ us # 0 /\ ca # 0
  BY SMTT(30) DEF IInv, TypeOK, ServerType, HandlerType, isAvailable
<1>5. Right(h)'
  <2>1. Forward(h)'
    BY DEF IInv, Right, Forward, server, Busy
  <2>. QED
    BY <1>4, <2>1 DEF Right, AclInForce, Verdict, Route, Served, server
<1>. QED
  BY <1>1, <1>2, <1>3, <1>5, RightKept DEF IInv

\* ACL::get()
LEMMA GetAclStep ==
  ASSUME IInv, NEW h \in Handlers, GetAcl(h)
  PROVE  IInv'
<1>. USE DEF GetAcl, history
<1>1. TypeOK'
  <2>1. ServerType' /\ Len(acls) \in Nat
    BY DEF IInv, TypeOK, ServerType, server
  <2>2. HandlerType'
    BY <2>1 DEF IInv, TypeOK, HandlerType, Busy
  <2>. QED
    BY <2>1, <2>2 DEF TypeOK
<1>2. Advance /\ Budget'
  BY ServerStill
<1>3. \A g \in Handlers : g # h => Still(g)
  BY DEF IInv, TypeOK, ServerType, HandlerType, Still
<1>4. pc'[h] = "acl" /\ acl'[h] = Len(acls) /\ pc[h] = "invite"
  BY DEF IInv, TypeOK, ServerType, HandlerType
<1>5. Right(h)'
  <2>1. Forward(h)'
    BY <1>4 DEF IInv, Right, Forward, server, Busy
  <2>2. AclInForce(h)'
    BY <1>4 DEF IInv, TypeOK, ServerType, HandlerType, Right, Forward, AclInForce, server
  <2>. QED
    BY <1>4, <2>1, <2>2 DEF IInv, Right, Verdict, Route, Served, server
<1>. QED
  BY <1>1, <1>2, <1>3, <1>5, RightKept DEF IInv

\* A call is let through: one token of the bucket pays for it.
LEMMA LetThroughFacts ==
  ASSUME IInv, NEW h \in Handlers, pc[h] = "acl", ~Denied(h), Tokens(h) >= Unit, LetThrough(h)
  PROVE  /\ acls' \in Seq([Peers -> Rule \cup {Nothing}]) /\ Len(acls') = Len(acls)
         /\ calls' \in Seq([Peers -> Nat]) /\ Len(calls') = Len(calls)
         /\ \A v \in DOMAIN acls : \A p \in Peers :
              /\ acls'[v][p] = Nothing <=> acls[v][p] = Nothing
              /\ acls[v][p] = Nothing => calls'[v][p] = calls[v][p]
              /\ acls[v][p] # Nothing =>
                   /\ acls'[v][p].expire = acls[v][p].expire
                   /\ acls'[v][p].rate = acls[v][p].rate
                   /\ calls'[v][p] + acls'[v][p].tokens = calls[v][p] + acls[v][p].tokens
<1>0. Unit \in Nat
  BY SipAssumption
<1>1. PICK w \in DOMAIN acls, q \in Peers :
        w = acl[h] /\ q = peer[h] /\ acls[w][q] # Nothing /\ acls[w][q].tokens >= Unit
  <2>1. peer[h] \in Peers /\ acl[h] <= Len(acls) /\ acl[h] \in Nat
    BY DEF IInv, TypeOK, HandlerType, Right, Forward, AclInForce, Busy
  <2>2. acl[h] # 0 /\ acls[acl[h]][peer[h]] # Nothing
    BY DEF Denied, RuleOf
  <2>3. acl[h] \in DOMAIN acls
    BY <2>1, <2>2 DEF IInv, TypeOK, ServerType
  <2>. QED
    BY <2>1, <2>2, <2>3 DEF Tokens
<1>2. PICK r \in Rule : r = acls[w][q]
  <2>1. acls[w] \in [Peers -> Rule \cup {Nothing}]
    BY DEF IInv, TypeOK, ServerType
  <2>2. acls[w][q] \in Rule
    BY <1>1, <2>1
  <2>. QED
    BY <2>2
<1>. DEFINE r1 == [r EXCEPT !.tokens = @ - Unit]
<1>3. /\ r1 \in Rule /\ r1 # Nothing /\ r1.expire = r.expire /\ r1.rate = r.rate
      /\ r1.tokens = r.tokens - Unit /\ r.tokens \in Nat
  <2>1. r.tokens \in Nat /\ r.tokens >= Unit
    BY <1>1, <1>2 DEF Rule
  <2>2. r.tokens - Unit \in Nat
    BY <1>0, <2>1
  <2>3. r1 \in Rule /\ r1.expire = r.expire /\ r1.rate = r.rate /\ r1.tokens = r.tokens - Unit
    BY <2>2 DEF Rule
  <2>4. Nothing \notin Rule
    BY SipAssumption
  <2>. QED
    BY <2>1, <2>3, <2>4
<1>. HIDE DEF r1
<1>4. /\ acls' = [acls EXCEPT ![w] = [acls[w] EXCEPT ![q] = r1]]
      /\ calls' = [calls EXCEPT ![w] = [calls[w] EXCEPT ![q] = calls[w][q] + Unit]]
  BY <1>1, <1>2 DEF LetThrough, r1
<1>5. /\ acls \in Seq([Peers -> Rule \cup {Nothing}]) /\ calls \in Seq([Peers -> Nat])
      /\ DOMAIN calls = DOMAIN acls
  BY DEF IInv, TypeOK, ServerType
<1>6. /\ [acls[w] EXCEPT ![q] = r1] \in [Peers -> Rule \cup {Nothing}]
      /\ [calls[w] EXCEPT ![q] = calls[w][q] + Unit] \in [Peers -> Nat]
  <2>1. acls[w] \in [Peers -> Rule \cup {Nothing}] /\ calls[w] \in [Peers -> Nat]
    BY <1>5
  <2>2. calls[w][q] + Unit \in Nat
    BY <1>0, <2>1
  <2>. QED
    BY <1>3, <2>1, <2>2
<1>7. acls' \in Seq([Peers -> Rule \cup {Nothing}]) /\ Len(acls') = Len(acls)
  BY <1>4, <1>5, <1>6
<1>8. calls' \in Seq([Peers -> Nat]) /\ Len(calls') = Len(calls)
  BY <1>4, <1>5, <1>6
<1>9. ASSUME NEW v \in DOMAIN acls, NEW p \in Peers
      PROVE  /\ acls'[v][p] = Nothing <=> acls[v][p] = Nothing
             /\ acls[v][p] = Nothing => calls'[v][p] = calls[v][p]
             /\ acls[v][p] # Nothing =>
                  /\ acls'[v][p].expire = acls[v][p].expire
                  /\ acls'[v][p].rate = acls[v][p].rate
                  /\ calls'[v][p] + acls'[v][p].tokens = calls[v][p] + acls[v][p].tokens
  <2>1. CASE v = w /\ p = q
    <3>1. acls'[v][p] = r1 /\ calls'[v][p] = calls[v][p] + Unit /\ calls[v][p] \in Nat
      BY <1>4, <1>5, <2>1
    <3>2. acls[v][p] = r /\ r # Nothing
      BY <1>1, <1>2, <2>1
    <3>. QED
      BY <1>0, <1>3, <3>1, <3>2
  <2>2. CASE ~(v = w /\ p = q)
    <3>1. acls'[v][p] = acls[v][p] /\ calls'[v][p] = calls[v][p]
      BY <1>4, <1>5, <2>2
    <3>. QED
      BY <3>1
  <2>. QED
    BY <2>1, <2>2
<1>. QED
  BY <1>7, <1>8, <1>9

\* ACL::isCallAllowed and what handleInvite makes of its answer
LEMMA isCallAllowedStep ==
  ASSUME IInv, NEW h \in Handlers, isCallAllowed(h)
  PROVE  IInv'
<1>1. /\ pc[h] = "acl" /\ acl' = [acl EXCEPT ![h] = 0]
      /\ UNCHANGED <<now, us, ca, born, received, peer, method, pn, rn, lines, since, arrived>>
  BY DEF isCallAllowed, history
<1>2. \/ /\ Denied(h) /\ UNCHANGED <<acls, calls>>
         /\ pc' = [pc EXCEPT ![h] = "finish"] /\ status' = [status EXCEPT ![h] = 401]
      \/ /\ ~Denied(h) /\ UNCHANGED <<acls, calls>>
         /\ pc' = [pc EXCEPT ![h] = "finish"] /\ status' = [status EXCEPT ![h] = 429]
      \/ /\ ~Denied(h) /\ Tokens(h) >= Unit /\ LetThrough(h)
         /\ pc' = [pc EXCEPT ![h] = "us"] /\ status' = status
  BY DEF isCallAllowed, reply
<1>3. /\ acls' \in Seq([Peers -> Rule \cup {Nothing}]) /\ Len(acls') = Len(acls)
      /\ calls' \in Seq([Peers -> Nat]) /\ Len(calls') = Len(calls)
      /\ \A v \in DOMAIN acls : \A p \in Peers :
           /\ acls'[v][p] = Nothing <=> acls[v][p] = Nothing
           /\ acls[v][p] = Nothing => calls'[v][p] = calls[v][p]
           /\ acls[v][p] # Nothing =>
                /\ acls'[v][p].expire = acls[v][p].expire
                /\ acls'[v][p].rate = acls[v][p].rate
                /\ calls'[v][p] + acls'[v][p].tokens = calls[v][p] + acls[v][p].tokens
  <2>1. CASE UNCHANGED <<acls, calls>>
    BY <2>1 DEF IInv, TypeOK, ServerType
  <2>2. CASE ~Denied(h) /\ Tokens(h) >= Unit /\ LetThrough(h)
    BY <1>1, <2>2, LetThroughFacts
  <2>. QED
    BY <1>2, <2>1, <2>2
<1>4. TypeOK'
  <2>1. ServerType'
    BY <1>1, <1>3 DEF IInv, TypeOK, ServerType
  <2>2. pc' \in [Handlers -> Busy \cup {"idle"}] /\ status' \in [Handlers -> Nat]
    <3>1. PICK to \in {"finish", "us"}, s \in {401, 429, status[h]} :
            pc' = [pc EXCEPT ![h] = to] /\ status' = [status EXCEPT ![h] = s]
      <4>1. status = [status EXCEPT ![h] = status[h]]
        BY DEF IInv, TypeOK, HandlerType
      <4>2. CASE pc' = [pc EXCEPT ![h] = "finish"] /\ status' = [status EXCEPT ![h] = 401]
        BY <4>2
      <4>3. CASE pc' = [pc EXCEPT ![h] = "finish"] /\ status' = [status EXCEPT ![h] = 429]
        BY <4>3
      <4>4. CASE pc' = [pc EXCEPT ![h] = "us"] /\ status' = status
        BY <4>1, <4>4
      <4>. QED
        BY ONLY <1>2, <4>2, <4>3, <4>4, Zenon
    <3>. QED
      BY <3>1 DEF IInv, TypeOK, HandlerType, Busy
  <2>3. HandlerType'
    BY <1>1, <2>2 DEF IInv, TypeOK, HandlerType
  <2>. QED
    BY <2>1, <2>3 DEF TypeOK
<1>5. Advance
  <2>1. now <= now' /\ us <= us' /\ ca <= ca' /\ Len(acls) <= Len(acls')
    BY <1>1, <1>3, SipAssumption DEF IInv, TypeOK, ServerType
  <2>. QED
    BY <1>3, <2>1 DEF Advance
<1>6. Budget'
  <2>1. DOMAIN acls' = DOMAIN acls
    BY <1>3 DEF IInv, TypeOK, ServerType
  <2>2. ASSUME NEW v \in DOMAIN acls, NEW p \in Peers PROVE Paid(v, p)'
    <3>1. Paid(v, p) /\ now' = now /\ born' = born
      BY <1>1 DEF IInv, Budget
    <3>2. CASE acls[v][p] = Nothing
      <4>1. acls'[v][p] = Nothing /\ calls'[v][p] = 0
        BY <1>3, <3>1, <3>2 DEF Paid
      <4>. QED
        BY <4>1, Zenon DEF Paid
    <3>3. CASE acls[v][p] # Nothing
      <4>1. /\ acls'[v][p].rate = acls[v][p].rate
            /\ calls'[v][p] + acls'[v][p].tokens = calls[v][p] + acls[v][p].tokens
            /\ acls'[v][p] # Nothing
        BY <1>3, <3>3
      <4>2. calls[v][p] + acls[v][p].tokens
              <= Burst(acls[v][p].rate) + acls[v][p].rate * (now - born[v])
        BY <3>1, <3>3, Zenon DEF Paid
      <4>. QED
        BY <3>1, <4>1, <4>2, Zenon DEF Paid
    <3>. QED
      BY <3>2, <3>3
  <2>3. \A v \in DOMAIN acls : born'[v] <= now'
    BY <1>1 DEF IInv, Budget
  <2>. QED
    BY <2>1, <2>2, <2>3 DEF Budget
<1>7. \A g \in Handlers : g # h => Still(g)
  BY <1>1, <1>2 DEF IInv, TypeOK, HandlerType, Still
<1>8. Right(h)'
  <2>1. PICK p \in Peers : p = peer[h]
    BY <1>1 DEF IInv, Right, Forward, Busy
  <2>2. PICK t \in Nat : t = arrived[h] /\ t <= now
    BY DEF IInv, TypeOK, HandlerType, Right, Forward
  <2>3. PICK w \in since[h].acl..Len(acls) : w = acl[h] /\ w \in 0..Len(acls)
    BY <1>1 DEF IInv, TypeOK, HandlerType, ServerType, Right, AclInForce
  <2>4. now \in Nat
    BY DEF IInv, TypeOK, ServerType
  <2>5. HadRule(w, p) => acls[w][p].expire \in Nat \cup {Nothing}
    <3>1. HadRule(w, p) => acls[w][p] \in Rule
      BY <2>3 DEF HadRule, IInv, TypeOK, ServerType
    <3>. QED
      BY <3>1, SipAssumption DEF Rule
  <2>6. Denied(h) => ~Live(w, p, now)
    BY <2>1, <2>3, <2>4, <2>5 DEF Denied, RuleOf, Live, HadRule
  <2>7. ~Denied(h) => Live(w, p, t)
    BY <2>1, <2>2, <2>3, <2>4, <2>5 DEF Denied, RuleOf, Live, HadRule
  <2>8. Len(acls') = Len(acls) /\ since' = since /\ peer' = peer /\ arrived' = arrived
    BY <1>1, <1>3
  <2>9. Denied(h) => Refused(h)'
    <3>1. ~Live(w, p, now) => ~Live(w, p, now)'
      BY <1>4, <1>5, <2>3, <2>2, LiveKept DEF IInv
    <3>. QED
      BY <2>1, <2>3, <2>6, <2>8, <3>1 DEF Refused
  <2>10. ~Denied(h) => Admitted(h)'
    <3>1. Live(w, p, t) => Live(w, p, t)'
      BY <1>4, <1>5, <2>3, LiveKept DEF IInv
    <3>. QED
      BY <2>1, <2>2, <2>3, <2>7, <2>8, <3>1 DEF Admitted
  <2>11. \/ pc'[h] = "finish" /\ status'[h] = 401 /\ Denied(h)
         \/ pc'[h] = "finish" /\ status'[h] = 429 /\ ~Denied(h)
         \/ pc'[h] = "us" /\ ~Denied(h)
    BY <1>2 DEF IInv, TypeOK, HandlerType
  <2>12. Verdict(h)'
    BY <2>9, <2>10, <2>11 DEF Verdict
  <2>13. Forward(h)'
    BY <1>1, <1>3 DEF IInv, Right, Forward, Busy
  <2>14. AclInForce(h)' /\ Route(h)'
    BY <1>1, <2>11 DEF IInv, Right, AclInForce, Route, Served
  <2>. QED
    BY <2>12, <2>13, <2>14 DEF Right
<1>. QED
  BY <1>4, <1>5, <1>6, <1>7, <1>8, RightKept DEF IInv

\* getRN of the US mapping
LEMMA LookupUSStep ==
  ASSUME IInv, NEW h \in Handlers, LookupUS(h)
  PROVE  IInv'
<1>. USE DEF LookupUS, history
<1>1. us # 0 /\ ca # 0 /\ us \in DOMAIN UsFiles
  BY SipAssumption DEF IInv, TypeOK, ServerType, Right, Route, Served
<1>2. TypeOK'
  <2>1. ServerType'
    BY DEF IInv, TypeOK, ServerType, server
  <2>2. getRN(UsFiles, us, pn[h]) \in {UsFiles[v] : v \in DOMAIN UsFiles} \cup {NONE}
    BY <1>1 DEF getRN
  <2>3. HandlerType'
    BY <2>2 DEF IInv, TypeOK, HandlerType, Busy
  <2>. QED
    BY <2>1, <2>3 DEF TypeOK
<1>3. Advance /\ Budget'
  BY ServerStill
<1>4. \A g \in Handlers : g # h => Still(g)
  BY DEF IInv, TypeOK, HandlerType, Still
<1>5. Right(h)'
  <2>1. pc[h] = "us" /\ pc'[h] = "ca" /\ rn'[h] = getRN(UsFiles, us, pn[h])
    BY DEF IInv, TypeOK, HandlerType
  <2>2. Forward(h)' /\ AclInForce(h)'
    BY <2>1 DEF IInv, Right, Forward, AclInForce, Busy, server
  <2>3. Verdict(h)'
    BY <2>1 DEF IInv, Right, Verdict, Admitted, Live, HadRule, server
  <2>4. us \in since[h].us..us \ {0}
    BY <1>1, SipAssumption DEF IInv, TypeOK, ServerType, HandlerType, Right, Forward
  <2>5. pn[h] # NONE => FoundUS(h)'
    BY <1>1, <2>1, <2>4 DEF FoundUS, getRN, server
  <2>6. Route(h)'
    BY <1>1, <2>1, <2>5 DEF Route, server
  <2>. QED
    BY <2>2, <2>3, <2>6 DEF Right
<1>. QED
  BY <1>2, <1>3, <1>4, <1>5, RightKept DEF IInv

\* getRN of the CA mapping, and the answer
LEMMA LookupCAStep ==
  ASSUME IInv, NEW h \in Handlers, LookupCA(h)
  PROVE  IInv'
<1>. USE DEF LookupCA, history, reply
<1>1. us # 0 /\ ca # 0 /\ ca \in DOMAIN CaFiles
  BY SipAssumption DEF IInv, TypeOK, ServerType, Right, Route, Served
<1>2. TypeOK'
  <2>1. ServerType'
    BY DEF IInv, TypeOK, ServerType, server
  <2>2. getRN(CaFiles, ca, pn[h]) \in {CaFiles[v] : v \in DOMAIN CaFiles} \cup {NONE}
    BY <1>1 DEF getRN
  <2>3. HandlerType'
    BY <2>2 DEF IInv, TypeOK, HandlerType, Busy
  <2>. QED
    BY <2>1, <2>3 DEF TypeOK
<1>3. Advance /\ Budget'
  BY ServerStill
<1>4. \A g \in Handlers : g # h => Still(g)
  BY DEF IInv, TypeOK, HandlerType, Still
<1>5. Right(h)'
  <2>1. /\ pc[h] = "ca" /\ pc'[h] = "finish" /\ status'[h] = 302
        /\ rn'[h] = IF rn[h] = NONE THEN getRN(CaFiles, ca, pn[h]) ELSE rn[h]
    BY DEF IInv, TypeOK, HandlerType, NeedsCA
  <2>2. Forward(h)' /\ AclInForce(h)'
    BY <2>1 DEF IInv, Right, Forward, AclInForce, Busy, server
  <2>3. Verdict(h)'
    BY <2>1 DEF IInv, Right, Verdict, Admitted, Live, HadRule, server
  <2>4. ca \in since[h].ca..ca \ {0}
    BY <1>1, SipAssumption DEF IInv, TypeOK, ServerType, HandlerType, Right, Forward
  <2>5. ASSUME pn[h] # NONE PROVE Found(h)'
    <3>1. PICK u \in since[h].us..us \ {0} : rn[h] = UsFiles[u]
      BY <2>1, <2>5 DEF IInv, Right, Route, FoundUS
    <3>2. rn'[h] = IF UsFiles[u] # NONE THEN UsFiles[u] ELSE CaFiles[ca]
      BY <1>1, <2>1, <2>5, <3>1 DEF getRN
    <3>. QED
      BY <2>4, <3>1, <3>2 DEF Found, server
  <2>6. Route(h)'
    BY <2>1, <2>5 DEF Route, Served
  <2>. QED
    BY <2>2, <2>3, <2>6 DEF Right
<1>. QED
  BY <1>2, <1>3, <1>4, <1>5, RightKept DEF IInv

\* The answer is sent and logged.
LEMMA FinishStep ==
  ASSUME IInv, NEW h \in Handlers, Finish(h)
  PROVE  IInv'
<1>. USE DEF Finish, history
<1>1. Never \in [acl : Nat, us : Nat, ca : Nat]
  BY DEF Never
<1>2. TypeOK'
  <2>1. ServerType'
    BY DEF IInv, TypeOK, ServerType, server
  <2>2. HandlerType'
    BY <1>1 DEF IInv, TypeOK, HandlerType
  <2>. QED
    BY <2>1, <2>2 DEF TypeOK
<1>3. Advance /\ Budget'
  BY ServerStill
<1>4. \A g \in Handlers : g # h => Still(g)
  BY DEF IInv, TypeOK, HandlerType, Still
<1>5. Right(h)'
  <2>1. pc'[h] = "idle" /\ since'[h] = Never /\ arrived'[h] = 0
    BY DEF IInv, TypeOK, HandlerType
  <2>2. Forward(h)'
    BY <2>1, SipAssumption DEF IInv, TypeOK, ServerType, Forward, Never, Busy, server
  <2>. QED
    BY <2>1, <2>2 DEF Right, AclInForce, Verdict, Route, Served
<1>. QED
  BY <1>2, <1>3, <1>4, <1>5, RightKept DEF IInv

-----------------------------------------------------------------------------
(* The theorems.                                                           *)

\* No handler has anything to account for at the start.
LEMMA InitIInv == Init => IInv
<1>. SUFFICES ASSUME Init PROVE IInv
  OBVIOUS
<1>. USE DEF Init
<1>1. ServerType
  BY SipAssumption DEF ServerType
<1>2. HandlerType
  BY DEF HandlerType, Never
<1>3. Budget
  BY DEF Budget
<1>4. \A h \in Handlers : Right(h)
  BY DEF Right, Forward, AclInForce, Verdict, Route, Busy, Served, Never
<1>. QED
  BY <1>1, <1>2, <1>3, <1>4 DEF IInv, TypeOK

\* Every step keeps the invariant.
LEMMA StepIInv == IInv /\ [Next]_vars => IInv'
<1>. SUFFICES ASSUME IInv, [Next]_vars PROVE IInv'
  OBVIOUS
<1>1. CASE Tick
  BY <1>1, TickStep
<1>2. CASE Command
  BY <1>2, CommitAclStep, CommitMappingStep DEF Command
<1>3. ASSUME NEW h \in Handlers, Step(h) PROVE IInv'
  BY <1>3, DispatchStep, GetAclStep, isCallAllowedStep, LookupUSStep, LookupCAStep, FinishStep
  DEF Step
<1>4. ASSUME NEW h \in Handlers, Arrival(h) PROVE IInv'
  BY <1>4, DropStep, ReceiveStep DEF Arrival
<1>5. CASE Exhausted \/ UNCHANGED vars
  <2>1. UNCHANGED vars
    BY <1>5 DEF Exhausted
  <2>2. TypeOK'
    BY <2>1 DEF vars, server, history, IInv, TypeOK, ServerType, HandlerType
  <2>3. Advance /\ Budget' /\ \A h \in Handlers : Still(h)
    BY <2>1, ServerStill DEF vars, history, Still
  <2>. QED
    BY <2>2, <2>3, RightKept DEF IInv
<1>. QED
  BY <1>1, <1>2, <1>3, <1>4, <1>5 DEF Next

\* The inductive invariant holds in every state.
THEOREM Invariance == Spec => []IInv
BY InitIInv, StepIInv, PTL DEF Spec

\* The verdict on a call comes from an ACL that was in force after the datagram
\* arrived, for any number of handlers and however reloads fall between their
\* steps.
THEOREM VerdictsAreInForce == Spec => []VerdictInForce
<1>1. IInv => VerdictInForce
  BY DEF IInv, Right, Verdict, Admitted, Refused, VerdictInForce
<1>. QED
  BY <1>1, Invariance, PTL

\* However many handlers share a bucket, a peer makes no more calls than its burst
\* and the rate earned since the ACL was loaded.
THEOREM BudgetsHold == Spec => []BudgetHolds
<1>1. ASSUME IInv PROVE BudgetHolds
  <2>. SUFFICES ASSUME NEW v \in DOMAIN acls, NEW p \in Peers, calls[v][p] > 0
                PROVE  /\ acls[v][p] # Nothing
                       /\ calls[v][p] <= Burst(acls[v][p].rate) + acls[v][p].rate * (now - born[v])
    BY DEF BudgetHolds
  <2>1. Paid(v, p) /\ born[v] <= now /\ born[v] \in Nat /\ now \in Nat /\ calls[v][p] \in Nat
    BY <1>1 DEF IInv, Budget, TypeOK, ServerType
  <2>2. acls[v][p] # Nothing
    BY <2>1 DEF Paid
  <2>3. acls[v][p].tokens \in Nat /\ acls[v][p].rate \in Nat
    <3>1. acls[v] \in [Peers -> Rule \cup {Nothing}]
      BY <1>1 DEF IInv, TypeOK, ServerType
    <3>2. acls[v][p] \in Rule
      BY <2>2, <3>1
    <3>. QED
      BY <3>2 DEF Rule
  <2>. DEFINE R == Burst(acls[v][p].rate) + acls[v][p].rate * (now - born[v])
  <2>4. R \in Nat
    <3>1. PICK b \in Nat : b = Burst(acls[v][p].rate)
      BY <2>3, BurstType
    <3>2. PICK s \in Nat : s = now - born[v]
      BY <2>1
    <3>3. PICK r \in Nat : r = acls[v][p].rate
      BY <2>3
    <3>4. b + r * s \in Nat
      OBVIOUS
    <3>. QED
      BY ONLY <3>1, <3>2, <3>3, <3>4, Zenon
  <2>5. calls[v][p] + acls[v][p].tokens <= R
    BY <2>1, <2>2, Zenon DEF Paid
  <2>. HIDE DEF R
  <2>6. calls[v][p] <= R
    BY <2>1, <2>3, <2>4, <2>5
  <2>. QED
    BY <2>2, <2>6 DEF R
<1>. QED
  BY <1>1, Invariance, PTL

\* The routing number of a redirect comes from mappings that were in service while
\* the call was handled, and no handler meets a mapping that is not loaded.
THEOREM RoutesAreInForce == Spec => []RouteInForce
<1>1. IInv => RouteInForce
  BY DEF IInv, Right, Route, Found, Served, RouteInForce
<1>. QED
  BY <1>1, Invariance, PTL

=============================================================================
