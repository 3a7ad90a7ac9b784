--------------------------- MODULE Control_proofs ---------------------------
(***************************************************************************)
(* Proofs about Control for any number of clients, descriptors and         *)
(* requests: whose descriptors a command works on, what an answer means,   *)
(* what the "current" link names and which descriptors are leaked.         *)
(***************************************************************************)
EXTENDS Control, FiniteSetsExt, WellFoundedInduction, FiniteSetTheorems, FunctionTheorems,
        SequenceTheorems, TLAPS

-----------------------------------------------------------------------------
(* Least elements of sets of naturals.                                     *)

\* A set of naturals that is not empty has a least element, and Min is it.
LEMMA MinIsLeast ==
  ASSUME NEW S \in SUBSET Nat, S # {}
  PROVE  Min(S) \in S /\ \A y \in S : Min(S) <= y
<1>1. PICK x \in S : \A y \in S : ~(<<y, x>> \in OpToRel(<, Nat))
  BY NatLessThanWellFounded, WFMin, Zenon
<1>2. \A y \in S : ~(y < x)
  BY <1>1, x \in Nat DEF OpToRel
<1>3. \A y \in S : x <= y
  BY <1>2, x \in Nat
<1>. QED
  BY <1>3 DEF Min

-----------------------------------------------------------------------------
(* The inductive invariant.                                                *)

Role == {"in", "out", "err"}
Description == Clients \X Role

\* Where a dispatch thread has not yet decided on its answer.
Undecided == {"begin", "command", "opened"}

\* Every variable the argument speaks of has its type.
TypeOK ==
  /\ up \in BOOLEAN /\ crashed \in BOOLEAN
  /\ cli \in [Clients -> {"new", "raised", "waiting", "S", "F"} \cup Linking]
  /\ req \in [Clients -> Requests]
  /\ inbox \in Seq(Clients)
  /\ fdtab \in [Fds -> Description \cup {Nothing}]
  /\ wpc \in [Clients -> Working \cup {"none", "close", "done", "thrown"}]
  /\ argfd \in [Clients -> Seq(Fds)]
  /\ opened \in [Clients -> Description \cup {Nothing}]
  /\ status \in [Clients -> {"S", "F"}]
  /\ global \in [Globals -> Clients \cup {Nothing}]
  /\ link \in [Links -> Clients \cup {Old, Nothing}]
  /\ installed \in SUBSET (Clients \X Globals)
  /\ gone \in SUBSET (Clients \cup {Old})
  /\ alone \in SUBSET Clients

\* A datagram is queued once, and its client waits and has no thread.
QueueOnce ==
  /\ \A i, j \in DOMAIN inbox : inbox[i] = inbox[j] => i = j
  /\ \A c \in Clients : Queued(c) => cli[c] = "waiting" /\ wpc[c] = "none"

\* Clients and their threads keep step.
Phases ==
  \A c \in Clients :
    /\ cli[c] \in {"new", "raised"} => wpc[c] = "none"
    /\ wpc[c] \in Working => cli[c] = "waiting" /\ req[c].form \in {"ok", "badarg"}
    /\ wpc[c] \in Working \ {"begin"} => req[c].form = "ok"
    /\ wpc[c] = "thrown" => Unanswerable(req[c])
    /\ wpc[c] = "opened" => req[c].cmd \in {"load", "verify", "dump"}
    /\ wpc[c] \in {"none", "done"} => argfd[c] = <<>>
    /\ cli[c] \in Linking => req[c].link \in Links /\ req[c].cmd = "load"

\* The descriptors of a thread are open, its client's, and different; until it
\* closes them there is one for each role, in order.
HoldsOwn(c) ==
  /\ \A k \in DOMAIN argfd[c] : fdtab[argfd[c][k]] # Nothing /\ fdtab[argfd[c][k]][1] = c
  /\ \A j, k \in DOMAIN argfd[c] : argfd[c][j] = argfd[c][k] => j = k
  /\ wpc[c] \in Working =>
       /\ Len(argfd[c]) = Len(Roles(req[c]))
       /\ \A k \in DOMAIN argfd[c] : fdtab[argfd[c][k]] = <<c, Roles(req[c])[k]>>

ThreadFds == \A c \in Clients : HoldsOwn(c)

\* An open descriptor is one that its client has passed, in one of its roles, and
\* has been received; no description is open twice.
Passed(n) ==
  LET c == fdtab[n][1] IN
  /\ cli[c] \notin {"new", "raised"} /\ ~Queued(c)
  /\ \E k \in DOMAIN Roles(req[c]) : fdtab[n][2] = Roles(req[c])[k]

OpenFds ==
  /\ \A n \in Fds : fdtab[n] # Nothing => Passed(n)
  /\ \A m, n \in Fds : fdtab[m] # Nothing /\ fdtab[m] = fdtab[n] => m = n

\* A command that has opened its first descriptor has its own client's file.
OpenedOwn ==
  \A c \in Clients : wpc[c] = "opened" => opened[c] = <<c, Roles(req[c])[1]>>

\* Nothing of c has been installed.
Uninstalled(c) == \A d \in Globals : <<c, d>> \notin installed

\* What is installed is what the request asked for; nothing is before the command
\* decides; and the answer, decided or sent, tells which.
Truthful(c) ==
  req[c].cmd = "load" =>
    /\ \A d \in Globals : <<c, d>> \in installed =>
         d = req[c].db /\ req[c].file \notin Loader(d).throws
    /\ (cli[c] \in {"new", "raised"} \/ Queued(c) \/ wpc[c] \in Undecided) => Uninstalled(c)
    /\ wpc[c] = "answer" => IF status[c] = "S" THEN <<c, req[c].db>> \in installed
                                                ELSE Uninstalled(c)
    /\ cli[c] \in {"S"} \cup Linking => <<c, req[c].db>> \in installed
    /\ cli[c] = "F" => Uninstalled(c)

Installs == \A c \in Clients : Truthful(c)

\* c has put its file in service.
Committed(c) == (wpc[c] = "answer" /\ status[c] = "S") \/ cli[c] \in {"S"} \cup Linking

\* What the steps of a reload by itself know of the link while they move it.
LinkKnown(c) ==
  LET l == req[c].link IN
  /\ cli[c] = "unlink" => link[l] # Nothing
  /\ cli[c] = "symlink" => link[l] \in gone \cup {Nothing}
  /\ cli[c] = "linked" => link[l] = c
  /\ cli[c] = "linkraised" => link[l] \in gone

\* A reload by itself: none that it conflicts with has anything left to do.
Solo(c) ==
  /\ req[c].cmd = "load" /\ cli[c] # "new"
  /\ \A b \in Clients : Conflict(b, c) => ~UnderWay(b)
  /\ Committed(c) => Serves(c)
  /\ LinkKnown(c)

Alone == \A c \in alone : Solo(c)

IInv ==
  /\ TypeOK /\ QueueOnce /\ Phases /\ ThreadFds /\ OpenFds
  /\ OpenedOwn /\ OnlyUnanswerableLeaks /\ Installs /\ Alone

-----------------------------------------------------------------------------
(* Facts about requests and loaders.                                       *)

\* Every command of callfwdctl passes one or two descriptors in different roles,
\* those that read or write a file two.
LEMMA RolesFacts ==
  ASSUME NEW q \in Request
  PROVE  /\ Roles(q) \in Seq(Role)
         /\ Len(Roles(q)) \in {1, 2}
         /\ DOMAIN Roles(q) = 1..Len(Roles(q))
         /\ \A j, k \in DOMAIN Roles(q) : Roles(q)[j] = Roles(q)[k] => j = k
         /\ \A k \in DOMAIN Roles(q) : (k = 2 /\ Len(Roles(q)) = 2) \/ Len(Roles(q)) = 1
              <=> Roles(q)[k] = "err"
         /\ q.cmd \in {"load", "verify", "dump"} => Len(Roles(q)) = 2
<1>1. Roles(q) \in {<<"in", "err">>, <<"out", "err">>, <<"err">>}
  BY DEF Roles
<1>2. CASE Roles(q) = <<"in", "err">>
  BY <1>2 DEF Role
<1>3. CASE Roles(q) = <<"out", "err">>
  BY <1>3 DEF Role
<1>4. CASE Roles(q) = <<"err">>
  <2>1. q.cmd \notin {"load", "verify", "dump"}
    BY <1>4 DEF Roles
  <2>. QED
    BY <1>4, <2>1 DEF Role
<1>. QED
  BY <1>1, <1>2, <1>3, <1>4

\* A loader commits to the mapping it is asked to load.
LEMMA LoaderCommits ==
  ASSUME NEW d \in Globals
  PROVE  Loader(d).commits = d
BY DEF Globals, Loader, Loads, loadACLFile, loadMappingFile, loadDNCMappingFile,
       loadDnoMappingFile, loadTollFreeMappingFile, loadLergMappingFile,
       loadYoumailMappingFile, loadGeoMappingFile, loadFtcMappingFile,
       load404MappingFile, load606MappingFile

\* Requests are requests.
LEMMA RequestsTyped ==
  ASSUME TypeOK, NEW c \in Clients
  PROVE  /\ req[c] \in Request /\ req[c].db \in Globals
         /\ req[c].link # Nothing => req[c].link \in Links /\ req[c].cmd = "load"
         /\ req[c].cmd \in {"load", "verify", "dump", "meta", "other"}
BY ControlAssumption DEF TypeOK, Request

-----------------------------------------------------------------------------
(* Descriptors of the daemon.                                              *)

\* While a datagram is queued, two descriptor numbers are free: every other client
\* has two open at most, one for its messages and one for its file.
LEMMA RoomForTwo ==
  ASSUME IInv, inbox # <<>>
  PROVE  IsFiniteSet(FreeFds) /\ Cardinality(FreeFds) >= 2
<1>. DEFINE c == Head(inbox)
            Used == {n \in Fds : fdtab[n] # Nothing}
            Others == Clients \ {c}
            F == [n \in Used |-> <<fdtab[n][1], IF fdtab[n][2] = "err" THEN 2 ELSE 1>>]
<1>1. c \in Clients /\ Queued(c)
  BY DEF IInv, TypeOK, Queued
<1>2. F \in [Used -> Others \X {1, 2}]
  BY <1>1 DEF IInv, TypeOK, OpenFds, Passed, Description
<1>3. ASSUME NEW m \in Used, NEW n \in Used, F[m] = F[n]
      PROVE  m = n
  <2>. DEFINE b == fdtab[m][1]
  <2>1. /\ b \in Clients /\ fdtab[n][1] = b
        /\ fdtab[m][2] = "err" <=> fdtab[n][2] = "err"
    BY <1>3 DEF IInv, TypeOK, Description
  <2>2. /\ \E k \in DOMAIN Roles(req[b]) : fdtab[m][2] = Roles(req[b])[k]
        /\ \E k \in DOMAIN Roles(req[b]) : fdtab[n][2] = Roles(req[b])[k]
    BY <2>1 DEF IInv, OpenFds, Passed
  <2>3. req[b] \in Request
    BY <2>1, RequestsTyped DEF IInv
  <2>4. fdtab[m][2] = fdtab[n][2]
    BY <2>1, <2>2, <2>3, RolesFacts
  <2>5. fdtab[m] \in Clients \X Role /\ fdtab[n] \in Clients \X Role
    BY DEF IInv, TypeOK, Description
  <2>6. fdtab[m] = fdtab[n]
    BY <2>1, <2>4, <2>5
  <2>. QED
    BY <2>6 DEF IInv, OpenFds
<1>4. F \in Injection(Used, Others \X {1, 2})
  BY <1>2, <1>3, Fun_IsInj
<1>5. IsFiniteSet(Others) /\ Cardinality(Others) = Cardinality(Clients) - 1
  BY <1>1, FS_RemoveElement, ControlAssumption
<1>6. IsFiniteSet({1, 2}) /\ Cardinality({1, 2}) = 2
  <2>1. IsFiniteSet({1}) /\ Cardinality({1}) = 1
    BY FS_Singleton
  <2>2. {1} \cup {2} = {1, 2} /\ 2 \notin {1}
    OBVIOUS
  <2>3. IsFiniteSet({1} \cup {2}) /\ Cardinality({1} \cup {2}) = Cardinality({1}) + 1
    BY <2>1, <2>2, FS_AddElement
  <2>4. 1 + 1 = 2
    OBVIOUS
  <2>. QED
    BY <2>1, <2>2, <2>3, <2>4, Zenon
<1>7. /\ IsFiniteSet(Others \X {1, 2})
      /\ Cardinality(Others \X {1, 2}) = (Cardinality(Clients) - 1) * 2
  BY <1>5, <1>6, FS_Product
<1>8. IsFiniteSet(Used) /\ Cardinality(Used) <= (Cardinality(Clients) - 1) * 2
  BY <1>4, <1>7, FS_Injection
<1>9. IsFiniteSet(Fds) /\ FreeFds = Fds \ Used /\ Fds \cap Used = Used
  BY ControlAssumption DEF FreeFds
<1>10. /\ IsFiniteSet(FreeFds)
       /\ Cardinality(FreeFds) = Cardinality(Fds) - Cardinality(Used)
  <2>1. /\ IsFiniteSet(Fds \ Used)
        /\ Cardinality(Fds \ Used) = Cardinality(Fds) - Cardinality(Fds \cap Used)
    <3>. HIDE DEF Used
    <3>. QED
      BY <1>9, FS_Difference, Zenon
  <2>. QED
    BY <1>9, <2>1, Zenon
<1>11. /\ Cardinality(Fds) \in Nat /\ Cardinality(Clients) \in Nat
       /\ Cardinality(Used) \in Nat /\ Cardinality(Fds) >= 2 * Cardinality(Clients)
  BY <1>8, FS_CardinalityType, ControlAssumption
<1>. QED
  BY <1>8, <1>10, <1>11

\* The two lowest free numbers are free and different.
LEMMA NthIsFree ==
  ASSUME IInv, inbox # <<>>
  PROVE  Nth(1) \in FreeFds /\ Nth(2) \in FreeFds /\ Nth(1) # Nth(2)
<1>1. FreeFds \in SUBSET Nat
  BY ControlAssumption DEF FreeFds
<1>2. IsFiniteSet(FreeFds) /\ Cardinality(FreeFds) >= 2
  BY RoomForTwo
<1>3. FreeFds # {}
  BY <1>2, FS_EmptySet
<1>4. Min(FreeFds) \in FreeFds
  BY <1>1, <1>3, MinIsLeast
<1>5. Cardinality(FreeFds \ {Min(FreeFds)}) = Cardinality(FreeFds) - 1
  BY <1>2, <1>4, FS_RemoveElement
<1>6. FreeFds \ {Min(FreeFds)} # {}
  BY <1>2, <1>5, FS_EmptySet, FS_CardinalityType
<1>7. Min(FreeFds \ {Min(FreeFds)}) \in FreeFds \ {Min(FreeFds)}
  BY <1>1, <1>6, MinIsLeast
<1>. QED
  BY <1>4, <1>7 DEF Nth

\* What receiving a datagram does to the table of descriptors.
LEMMA ReceiveInstalls ==
  ASSUME IInv, Receive
  PROVE  LET c == Head(inbox)
             fds == [k \in DOMAIN Roles(req[c]) |-> Nth(k)]
         IN  /\ c \in Clients /\ Queued(c)
             /\ fds \in Seq(Fds) /\ Len(fds) = Len(Roles(req[c]))
             /\ DOMAIN fds = DOMAIN Roles(req[c])
             /\ \A k \in DOMAIN fds : fds[k] \in FreeFds
             /\ \A j, k \in DOMAIN fds : fds[j] = fds[k] => j = k
             /\ \A k \in DOMAIN fds : fdtab'[fds[k]] = <<c, Roles(req[c])[k]>>
             /\ \A n \in Fds : (\A k \in DOMAIN fds : fds[k] # n) => fdtab'[n] = fdtab[n]
             /\ fdtab' \in [Fds -> Description \cup {Nothing}]
<1>. DEFINE c == Head(inbox)
            q == req[c]
            fds == [k \in DOMAIN Roles(q) |-> Nth(k)]
<1>1. c \in Clients /\ Queued(c) /\ inbox # <<>>
  BY DEF IInv, TypeOK, Queued, Receive
<1>2. /\ Roles(q) \in Seq(Role) /\ Len(Roles(q)) \in {1, 2}
      /\ DOMAIN Roles(q) = 1..Len(Roles(q))
  BY <1>1, RequestsTyped, RolesFacts DEF IInv
<1>3. Nth(1) \in FreeFds /\ Nth(2) \in FreeFds /\ Nth(1) # Nth(2)
  BY <1>1, NthIsFree
<1>4. /\ \A k \in DOMAIN fds : fds[k] \in FreeFds
      /\ \A j, k \in DOMAIN fds : fds[j] = fds[k] => j = k
      /\ DOMAIN fds = 1..Len(Roles(q))
  <2>1. \A k \in DOMAIN Roles(q) : k \in {1, 2}
    <3>1. \A n \in {1, 2} : \A k \in 1..n : k \in {1, 2}
      OBVIOUS
    <3>. QED
      BY <1>2, <3>1, Zenon
  <2>2. DOMAIN fds = DOMAIN Roles(q) /\ \A k \in DOMAIN Roles(q) : fds[k] = Nth(k)
    OBVIOUS
  <2>. QED
    BY <1>2, <1>3, <2>1, <2>2
<1>5. fds \in [1..Len(Roles(q)) -> Fds]
  BY <1>4 DEF FreeFds
<1>6. fds \in Seq(Fds) /\ Len(fds) = Len(Roles(q))
  BY <1>2, <1>5
<1>7. fdtab' = [n \in Fds |-> IF \E k \in DOMAIN fds : fds[k] = n
                 THEN <<c, Roles(q)[CHOOSE k \in DOMAIN fds : fds[k] = n]>>
                 ELSE fdtab[n]]
  BY DEF Receive
<1>8. \A k \in DOMAIN fds : (CHOOSE j \in DOMAIN fds : fds[j] = fds[k]) = k
  BY <1>4
<1>9. \A k \in DOMAIN fds : fdtab'[fds[k]] = <<c, Roles(q)[k]>>
  BY <1>4, <1>5, <1>7, <1>8
<1>10. \A n \in Fds : (\A k \in DOMAIN fds : fds[k] # n) => fdtab'[n] = fdtab[n]
  BY <1>7
<1>11. ASSUME NEW n \in Fds PROVE fdtab'[n] \in Description \cup {Nothing}
  <2>1. CASE \E k \in DOMAIN fds : fds[k] = n
    <3>1. PICK k \in DOMAIN fds : fds[k] = n
      BY <2>1
    <3>2. Roles(q)[k] \in Role
      BY <1>2
    <3>. QED
      <4>1. <<c, Roles(q)[k]>> \in Clients \X Role
        BY <1>1, <3>2
      <4>2. fdtab'[n] = <<c, Roles(q)[k]>>
        BY <1>9, <3>1
      <4>. QED
        BY <4>1, <4>2, Zenon DEF Description
  <2>2. CASE ~\E k \in DOMAIN fds : fds[k] = n
    BY <2>2, <1>10 DEF IInv, TypeOK
  <2>. QED
    BY <2>1, <2>2
<1>12. fdtab' \in [Fds -> Description \cup {Nothing}]
  BY <1>7, <1>11
<1>. QED
  BY <1>1, <1>2, <1>4, <1>6, <1>9, <1>10, <1>12

-----------------------------------------------------------------------------
(* Every action preserves the invariant.                                   *)

\* What is known of a reload by itself stays true if it does not move on, or just
\* gets its answer, and the reloads it conflicts with do not come back.
LEMMA SoloFrame ==
  ASSUME NEW c \in Clients, Solo(c), req' = req,
         cli'[c] = cli[c] \/ cli'[c] \in {"S", "F"},
         cli[c] \in Linking => link'[req[c].link] = link[req[c].link], gone \subseteq gone',
         Committed(c)' => Serves(c)',
         \A b \in Clients : Conflict(b, c) => (UnderWay(b)' => UnderWay(b))
  PROVE  Solo(c)'
<1>1. \A b \in Clients : Conflict(b, c)' <=> Conflict(b, c)
  BY DEF Conflict
<1>2. req'[c].cmd = "load" /\ cli'[c] # "new"
  BY DEF Solo
<1>3. LinkKnown(c)'
  BY DEF Solo, LinkKnown, Linking
<1>. QED
  BY <1>1, <1>2, <1>3 DEF Solo

\* The same for all of them at once, when the disk is as it was.
LEMMA AloneFrame ==
  ASSUME TypeOK, Alone, req' = req, link' = link, gone' = gone, alone' = alone,
         \A b \in alone : /\ cli'[b] = cli[b] \/ cli'[b] \in {"S", "F"}
                          /\ Committed(b)' => Serves(b)',
         \A b \in Clients : UnderWay(b)' => UnderWay(b)
  PROVE  Alone'
<1>. SUFFICES ASSUME NEW c \in alone PROVE Solo(c)'
  BY DEF Alone
<1>1. c \in Clients /\ Solo(c)
  BY DEF TypeOK, Alone
<1>. QED
  BY <1>1, SoloFrame

\* _make_request
LEMMA MakeRequestStep ==
  ASSUME IInv, NEW c \in Clients, MakeRequest(c)
  PROVE  IInv'
<1>. USE DEF MakeRequest, daemon
<1>1. TypeOK'
  <2>1. req[c].db \in Globals
    BY RequestsTyped DEF IInv
  <2>. QED
    BY <2>1 DEF IInv, TypeOK, Interfere
<1>2. /\ Len(inbox') = Len(inbox) + 1 /\ inbox'[Len(inbox')] = c
      /\ \A i \in DOMAIN inbox : inbox'[i] = inbox[i]
      /\ DOMAIN inbox = 1..Len(inbox) /\ DOMAIN inbox' = 1..Len(inbox')
  BY DEF IInv, TypeOK
<1>3. ~Queued(c) /\ wpc[c] = "none"
  BY DEF IInv, QueueOnce, Phases
<1>4. \A b \in Clients : Queued(b)' <=> Queued(b) \/ b = c
  <2>1. Len(inbox) \in Nat
    BY DEF IInv, TypeOK
  <2>2. \A i : i \in DOMAIN inbox' <=> i \in DOMAIN inbox \/ i = Len(inbox')
    BY <1>2, <2>1
  <2>. QED
    BY <1>2, <2>2 DEF Queued
<1>5. QueueOnce'
  <2>1. \A i, j \in DOMAIN inbox' : inbox'[i] = inbox'[j] => i = j
    BY <1>2, <1>3 DEF IInv, TypeOK, QueueOnce, Queued
  <2>. QED
    BY <2>1, <1>3, <1>4 DEF IInv, TypeOK, QueueOnce
<1>6. Phases'
  BY <1>3 DEF IInv, TypeOK, Phases, Unanswerable, Linking
<1>7. ThreadFds' /\ OpenedOwn' /\ OnlyUnanswerableLeaks'
  BY <1>3 DEF IInv, TypeOK, ThreadFds, HoldsOwn, OpenedOwn, OnlyUnanswerableLeaks, Unanswerable
<1>8. OpenFds'
  BY <1>4, ZenonT(60) DEF IInv, TypeOK, OpenFds, Passed, Description
<1>9. Installs'
  BY <1>3, <1>4 DEF IInv, TypeOK, Installs, Truthful, Uninstalled, Linking
<1>10. Alone'
  <2>. SUFFICES ASSUME NEW b \in alone' PROVE Solo(b)'
    BY DEF Alone
  <2>1. \/ b = c /\ req[c].cmd = "load" /\ \A a \in Clients : Conflict(a, c) => ~UnderWay(a)
        \/ b \in alone /\ b # c /\ ~Conflict(b, c) /\ Solo(b)
    <3>1. \A a \in alone : a # c
      BY DEF IInv, Alone, Solo
    <3>. QED
      BY <3>1 DEF Interfere, IInv, Alone
  <2>2. \A a \in Clients : a # c => /\ UnderWay(a)' <=> UnderWay(a)
                                    /\ Committed(a)' <=> Committed(a)
                                    /\ cli'[a] = cli[a]
    BY <1>4 DEF IInv, TypeOK, UnderWay, Committed
  <2>3. CASE b = c
    <3>1. cli'[c] = "waiting"
      BY DEF IInv, TypeOK
    <3>2. ~Committed(c)' /\ LinkKnown(c)'
      BY <1>3, <3>1 DEF Committed, LinkKnown, Linking
    <3>3. \A a \in Clients : Conflict(a, c)' => a # c /\ Conflict(a, c)
      BY DEF Conflict
    <3>4. req[c].cmd = "load" /\ \A a \in Clients : Conflict(a, c) => ~UnderWay(a)
      BY <2>1, <2>3
    <3>. QED
      BY <2>2, <2>3, <3>1, <3>2, <3>3, <3>4 DEF Solo
  <2>4. CASE b \in alone /\ b # c /\ ~Conflict(b, c) /\ Solo(b)
    <3>1. b \in Clients /\ \A a \in Clients : Conflict(a, b) => a # c
      BY <2>4 DEF IInv, TypeOK, Conflict
    <3>2. Serves(b)' <=> Serves(b)
      BY DEF Serves
    <3>3. Committed(b)' => Serves(b)'
      BY <2>2, <2>4, <3>1, <3>2 DEF Solo
    <3>. QED
      BY <2>2, <2>4, <3>1, <3>3, SoloFrame
  <2>. QED
    BY <2>1, <2>3, <2>4
<1>. QED
  BY <1>1, <1>5, <1>6, <1>7, <1>8, <1>9, <1>10 DEF IInv

\* A client that goes on behind its answer leaves the daemon alone.
LEMMA LinkingFrame ==
  ASSUME IInv, NEW c \in Clients, NEW s \in Linking, cli' = [cli EXCEPT ![c] = s],
         req[c].link # Nothing, cli[c] \in {"S", "unlink", "symlink"},
         UNCHANGED <<up, crashed, req, inbox, daemon, installed>>,
         link' \in [Links -> Clients \cup {Old, Nothing}], gone' = gone, alone' = alone
  PROVE  /\ TypeOK' /\ QueueOnce' /\ Phases' /\ ThreadFds' /\ OpenFds'
         /\ OpenedOwn' /\ OnlyUnanswerableLeaks' /\ Installs'
         /\ req[c].link \in Links /\ req[c].cmd = "load" /\ cli'[c] = s
         /\ \A b \in Clients : b # c => cli'[b] = cli[b]
         /\ \A b \in Clients : /\ UnderWay(b)' => UnderWay(b)
                               /\ Committed(b)' <=> Committed(b)
                               /\ Serves(b)' <=> Serves(b)
<1>. USE DEF daemon
<1>1. TypeOK'
  BY DEF IInv, TypeOK
<1>2. \A b \in Clients : Queued(b)' <=> Queued(b)
  BY DEF Queued
<1>3. /\ req[c].link \in Links /\ req[c].cmd = "load" /\ cli'[c] = s
      /\ \A b \in Clients : b # c => cli'[b] = cli[b]
      /\ cli'[c] \notin {"new", "raised", "waiting", "F"}
      /\ cli[c] \notin {"new", "raised", "waiting", "F"}
  BY RequestsTyped DEF IInv, TypeOK, Linking
<1>4. ~Queued(c) /\ wpc[c] \notin Working
  BY <1>3 DEF IInv, QueueOnce, Phases
<1>5. QueueOnce' /\ Phases'
  BY <1>2, <1>3, <1>4 DEF IInv, TypeOK, QueueOnce, Phases, Unanswerable
<1>6. ThreadFds' /\ OpenedOwn' /\ OnlyUnanswerableLeaks'
  BY DEF IInv, TypeOK, ThreadFds, HoldsOwn, OpenedOwn, OnlyUnanswerableLeaks, Unanswerable
<1>7. OpenFds'
  <2>1. ASSUME NEW n \in Fds, fdtab[n] # Nothing PROVE Passed(n)'
    <3>1. fdtab[n][1] \in Clients /\ Passed(n)
      BY <2>1 DEF IInv, TypeOK, OpenFds, Description
    <3>. QED
      BY <1>2, <1>3, <3>1 DEF Passed
  <2>. QED
    BY <2>1 DEF IInv, OpenFds
<1>8. Installs'
  BY <1>2, <1>3 DEF IInv, Installs, Truthful, Uninstalled, Linking
<1>9. \A b \in Clients : /\ UnderWay(b)' => UnderWay(b)
                         /\ Committed(b)' <=> Committed(b)
                         /\ Serves(b)' <=> Serves(b)
  BY <1>2, <1>3 DEF UnderWay, Committed, Serves, Linking
<1>. QED
  BY <1>1, <1>3, <1>5, <1>6, <1>7, <1>8, <1>9

\* os.path.exists
LEMMA TestLinkStep ==
  ASSUME IInv, NEW c \in Clients, TestLink(c)
  PROVE  IInv'
<1>1. PICK s \in {"unlink", "symlink"} :
        cli' = [cli EXCEPT ![c] = s] /\ (s = "unlink" <=> Exists(req[c].link))
  BY DEF TestLink
<1>2. /\ s \in Linking /\ req[c].link # Nothing /\ cli[c] = "S"
      /\ UNCHANGED <<up, crashed, req, inbox, daemon, installed, link, gone, alone>>
      /\ link' \in [Links -> Clients \cup {Old, Nothing}]
  BY <1>1 DEF TestLink, disk, Linking, IInv, TypeOK
<1>3. /\ TypeOK' /\ QueueOnce' /\ Phases' /\ ThreadFds' /\ OpenFds'
      /\ OpenedOwn' /\ OnlyUnanswerableLeaks' /\ Installs'
      /\ req[c].link \in Links /\ req[c].cmd = "load" /\ cli'[c] = s
      /\ \A b \in Clients : b # c => cli'[b] = cli[b]
      /\ \A b \in Clients : /\ UnderWay(b)' => UnderWay(b)
                            /\ Committed(b)' <=> Committed(b)
                            /\ Serves(b)' <=> Serves(b)
  BY <1>1, <1>2, LinkingFrame
<1>4. ASSUME NEW b \in alone PROVE Solo(b)'
  <2>1. b \in Clients /\ Solo(b)
    BY DEF IInv, TypeOK, Alone
  <2>2. Committed(b)' => Serves(b)'
    BY <1>3, <2>1 DEF Solo
  <2>3. CASE b # c
    BY <1>2, <1>3, <2>1, <2>2, <2>3, SoloFrame
  <2>4. CASE b = c
    <3>1. LinkKnown(c)'
      BY <1>1, <1>2, <1>3 DEF LinkKnown, Exists
    <3>2. \A a \in Clients : Conflict(a, c)' <=> Conflict(a, c)
      BY <1>2 DEF Conflict
    <3>3. cli'[c] # "new" /\ req' = req
      BY <1>1, <1>2, <1>3
    <3>. QED
      BY <1>3, <2>1, <2>2, <2>4, <3>1, <3>2, <3>3 DEF Solo
  <2>. QED
    BY <2>3, <2>4
<1>. QED
  BY <1>2, <1>3, <1>4 DEF IInv, Alone

\* A step that changes the link it is to move, from what it knows to what it knows next.
LEMMA MoveStep ==
  ASSUME IInv, NEW c \in Clients, NEW s \in Linking, NEW f \in Clients \cup {Old, Nothing},
         cli[c] \in {"unlink", "symlink"},
         cli' = [cli EXCEPT ![c] = s], link' = [link EXCEPT ![req[c].link] = f],
         UNCHANGED <<up, crashed, req, inbox, daemon, installed, gone, alone>>,
         c \in alone => LinkKnown(c)'
  PROVE  IInv'
<1>1. req[c].link \in Links /\ req[c].cmd = "load" /\ req[c].link # Nothing
  BY ControlAssumption DEF IInv, Phases, Linking
<1>2. link' \in [Links -> Clients \cup {Old, Nothing}]
  BY DEF IInv, TypeOK
<1>3. /\ TypeOK' /\ QueueOnce' /\ Phases' /\ ThreadFds' /\ OpenFds'
      /\ OpenedOwn' /\ OnlyUnanswerableLeaks' /\ Installs' /\ cli'[c] = s
      /\ \A b \in Clients : b # c => cli'[b] = cli[b]
      /\ \A b \in Clients : /\ UnderWay(b)' => UnderWay(b)
                            /\ Committed(b)' <=> Committed(b)
                            /\ Serves(b)' <=> Serves(b)
  BY <1>1, <1>2, LinkingFrame
<1>4. ASSUME NEW b \in alone PROVE Solo(b)'
  <2>1. b \in Clients /\ Solo(b) /\ req[b].cmd = "load"
    BY DEF IInv, TypeOK, Alone, Solo
  <2>2. Committed(b)' => Serves(b)'
    BY <1>3, <2>1 DEF Solo
  <2>3. CASE b # c
    <3>1. UnderWay(c)
      BY <1>1 DEF UnderWay
    <3>2. req[b].link # req[c].link
      BY <1>1, <2>1, <2>3, <3>1 DEF Solo, Conflict
    <3>3. cli[b] \in Linking => link'[req[b].link] = link[req[b].link]
      BY <2>1, <3>2 DEF IInv, TypeOK, Phases
    <3>. QED
      BY <1>3, <2>1, <2>2, <2>3, <3>3, SoloFrame
  <2>4. CASE b = c
    <3>1. \A a \in Clients : Conflict(a, c)' <=> Conflict(a, c)
      BY DEF Conflict
    <3>2. cli'[c] # "new" /\ req' = req /\ LinkKnown(c)'
      BY <1>3, <2>4 DEF Linking
    <3>. QED
      BY <1>3, <2>1, <2>2, <2>4, <3>1, <3>2 DEF Solo
  <2>. QED
    BY <2>3, <2>4
<1>. QED
  BY <1>3, <1>4 DEF IInv, Alone

\* os.unlink
LEMMA UnlinkStep ==
  ASSUME IInv, NEW c \in Clients, Unlink(c)
  PROVE  IInv'
<1>1. PICK s \in {"linkraised", "symlink"} :
        /\ cli' = [cli EXCEPT ![c] = s]
        /\ s = "linkraised" <=> link[req[c].link] = Nothing
  BY DEF Unlink
<1>2. /\ s \in Linking /\ cli[c] = "unlink" /\ req[c].link \in Links
      /\ link' = [link EXCEPT ![req[c].link] = Nothing]
      /\ UNCHANGED <<up, crashed, req, inbox, daemon, installed, gone, alone>>
  BY <1>1 DEF Unlink, Linking, IInv, Phases
<1>3. c \in alone => LinkKnown(c)'
  <2>1. link'[req[c].link] = Nothing /\ cli'[c] = s
    BY <1>1, <1>2 DEF IInv, TypeOK
  <2>2. c \in alone => link[req[c].link] # Nothing
    BY <1>2 DEF IInv, Alone, Solo, LinkKnown
  <2>. QED
    BY <1>1, <1>2, <2>1, <2>2 DEF LinkKnown
<1>. QED
  BY <1>1, <1>2, <1>3, MoveStep

\* os.symlink
LEMMA SymlinkStep ==
  ASSUME IInv, NEW c \in Clients, Symlink(c)
  PROVE  IInv'
<1>1. PICK s \in {"linked", "linkraised"} :
        /\ cli' = [cli EXCEPT ![c] = s]
        /\ s = "linked" <=> link[req[c].link] = Nothing
  BY DEF Symlink
<1>2. /\ s \in Linking /\ cli[c] = "symlink" /\ req[c].link \in Links
      /\ UNCHANGED <<up, crashed, req, inbox, daemon, installed, gone, alone>>
  BY <1>1 DEF Symlink, Linking, IInv, Phases
<1>3. PICK f \in Clients \cup {Old, Nothing} :
        /\ f = IF link[req[c].link] = Nothing THEN c ELSE link[req[c].link]
        /\ link' = [link EXCEPT ![req[c].link] = f]
  BY <1>2 DEF Symlink, IInv, TypeOK
<1>4. c \in alone => LinkKnown(c)'
  <2>1. link'[req[c].link] = f /\ cli'[c] = s
    BY <1>1, <1>2, <1>3 DEF IInv, TypeOK
  <2>2. c \in alone => link[req[c].link] \in gone \cup {Nothing}
    BY <1>2 DEF IInv, Alone, Solo, LinkKnown
  <2>. QED
    BY <1>1, <1>2, <1>3, <2>1, <2>2 DEF LinkKnown
<1>. QED
  BY <1>1, <1>2, <1>3, <1>4, MoveStep

\* Somebody removes a file that a link names.
LEMMA RemoveFileStep ==
  ASSUME IInv, NEW l \in Links, RemoveFile(l)
  PROVE  IInv'
<1>. USE DEF RemoveFile, daemon
<1>1. TypeOK'
  BY DEF IInv, TypeOK, Exists
<1>2. \A b \in Clients : Queued(b)' <=> Queued(b)
  BY DEF Queued
<1>3. QueueOnce' /\ Phases' /\ OpenedOwn'
  BY <1>2 DEF IInv, QueueOnce, Phases, OpenedOwn, Unanswerable
<1>4. ThreadFds' /\ OnlyUnanswerableLeaks'
  BY DEF IInv, ThreadFds, HoldsOwn, OnlyUnanswerableLeaks, Unanswerable
<1>5. OpenFds'
  BY DEF IInv, OpenFds, Passed, Queued
<1>6. Installs'
  BY <1>2 DEF IInv, Installs, Truthful, Uninstalled
<1>7. ASSUME NEW b \in alone PROVE Solo(b)'
  <2>1. b \in Clients /\ Solo(b)
    BY DEF IInv, TypeOK, Alone
  <2>2. /\ Committed(b)' <=> Committed(b)
        /\ Serves(b)' <=> Serves(b)
        /\ \A a \in Clients : UnderWay(a)' <=> UnderWay(a)
    BY <1>2 DEF Committed, Serves, UnderWay
  <2>3. Committed(b)' => Serves(b)'
    BY <2>1, <2>2 DEF Solo
  <2>. QED
    BY <2>1, <2>2, <2>3, SoloFrame
<1>. QED
  BY <1>1, <1>3, <1>4, <1>5, <1>6, <1>7 DEF IInv, Alone

\* verify_db
LEMMA VerifyDbStep ==
  ASSUME IInv, NEW c \in Clients, VerifyDb(c)
  PROVE  IInv'
<1>. USE DEF VerifyDb, daemon, disk
<1>1. TypeOK'
  BY DEF IInv, TypeOK
<1>2. \A b \in Clients : Queued(b)' <=> Queued(b)
  BY DEF Queued
<1>3. QueueOnce' /\ Phases'
  BY <1>2 DEF IInv, TypeOK, QueueOnce, Phases, Unanswerable, Linking
<1>4. ThreadFds' /\ OpenedOwn' /\ OnlyUnanswerableLeaks'
  BY DEF IInv, TypeOK, ThreadFds, HoldsOwn, OpenedOwn, OnlyUnanswerableLeaks, Unanswerable
<1>5. OpenFds'
  BY <1>2, ZenonT(60) DEF IInv, TypeOK, OpenFds, Passed, Description
<1>6. Installs'
  BY <1>2 DEF IInv, TypeOK, Installs, Truthful, Uninstalled
<1>7. Alone'
  <2>1. \A b \in alone : b \in Clients /\ Solo(b)
    BY DEF IInv, TypeOK, Alone
  <2>2. \A b \in Clients : UnderWay(b)' => UnderWay(b)
    BY <1>2 DEF IInv, TypeOK, UnderWay, Working
  <2>3. \A b \in alone : /\ cli'[b] = cli[b] \/ cli'[b] \in {"S", "F"}
                         /\ Committed(b)' => Serves(b)'
    BY <1>2, <2>1 DEF IInv, TypeOK, Solo, Committed, Serves
  <2>. QED
    BY <2>2, <2>3, AloneFrame DEF IInv
<1>. QED
  BY <1>1, <1>3, <1>4, <1>5, <1>6, <1>7 DEF IInv

\* awaitMessage, parseJson and the start of a dispatch thread
LEMMA ReceiveStep ==
  ASSUME IInv, Receive
  PROVE  IInv'
<1>a. PICK c \in Clients : c = Head(inbox)
  BY ReceiveInstalls
<1>b. PICK fds \in Seq(Fds) : fds = [k \in DOMAIN Roles(req[c]) |-> Nth(k)]
  BY <1>a, ReceiveInstalls
<1>1. /\ c \in Clients /\ Queued(c)
      /\ fds \in Seq(Fds) /\ Len(fds) = Len(Roles(req[c]))
      /\ DOMAIN fds = DOMAIN Roles(req[c])
      /\ \A k \in DOMAIN fds : fds[k] \in FreeFds
      /\ \A j, k \in DOMAIN fds : fds[j] = fds[k] => j = k
      /\ \A k \in DOMAIN fds : fdtab'[fds[k]] = <<c, Roles(req[c])[k]>>
      /\ \A n \in Fds : (\A k \in DOMAIN fds : fds[k] # n) => fdtab'[n] = fdtab[n]
      /\ fdtab' \in [Fds -> Description \cup {Nothing}]
  BY <1>a, <1>b, ReceiveInstalls
<1>2. /\ inbox # <<>> /\ inbox' = Tail(inbox)
      /\ \/ /\ req[c].form \in {"ok", "badarg"}
            /\ argfd' = [argfd EXCEPT ![c] = fds] /\ wpc' = [wpc EXCEPT ![c] = "begin"]
         \/ /\ req[c].form \notin {"ok", "badarg"}
            /\ argfd' = argfd /\ wpc' = wpc
      /\ up' = up /\ crashed' = crashed /\ cli' = cli /\ req' = req /\ opened' = opened
      /\ status' = status /\ global' = global /\ installed' = installed
      /\ link' = link /\ gone' = gone /\ alone' = alone
  BY <1>a, <1>b DEF Receive, StartThread, disk
<1>3. cli[c] = "waiting" /\ wpc[c] = "none" /\ argfd[c] = <<>>
  BY <1>1 DEF IInv, QueueOnce, Phases
<1>4. TypeOK'
  <2>a. wpc' \in [Clients -> Working \cup {"none", "close", "done", "thrown"}]
    BY <1>2 DEF IInv, TypeOK, Working
  <2>b. [argfd EXCEPT ![c] = fds] \in [Clients -> Seq(Fds)] /\ argfd \in [Clients -> Seq(Fds)]
    BY <1>1 DEF IInv, TypeOK
  <2>1. argfd' \in [Clients -> Seq(Fds)]
    BY <1>2, <2>b
  <2>2. inbox' \in Seq(Clients)
    BY <1>2 DEF IInv, TypeOK
  <2>. QED
    BY <1>1, <1>2, <2>a, <2>1, <2>2 DEF IInv, TypeOK
<1>5. /\ DOMAIN inbox' = 1..Len(inbox') /\ Len(inbox') = Len(inbox) - 1
      /\ DOMAIN inbox = 1..Len(inbox) /\ Len(inbox) \in Nat /\ Len(inbox) > 0
      /\ \A i \in DOMAIN inbox' : inbox'[i] = inbox[i + 1]
      /\ inbox[1] = c
  BY <1>2, <1>a DEF IInv, TypeOK
<1>6. \A b \in Clients : Queued(b)' <=> Queued(b) /\ b # c
  <2>1. ASSUME NEW b \in Clients, Queued(b)' PROVE Queued(b) /\ b # c
    <3>1. PICK i \in DOMAIN inbox' : inbox'[i] = b
      BY <2>1 DEF Queued
    <3>2. i + 1 \in DOMAIN inbox /\ 1 \in DOMAIN inbox /\ i + 1 # 1
      BY <1>5
    <3>. QED
      BY <1>5, <3>1, <3>2 DEF Queued, IInv, QueueOnce
  <2>2. ASSUME NEW b \in Clients, Queued(b), b # c PROVE Queued(b)'
    <3>1. PICK i \in DOMAIN inbox : inbox[i] = b
      BY <2>2 DEF Queued
    <3>2. i - 1 \in DOMAIN inbox' /\ i = (i - 1) + 1
      BY <1>5, <2>2, <3>1
    <3>3. inbox'[i - 1] = b
      BY <1>5, <3>1, <3>2
    <3>. QED
      BY <3>2, <3>3 DEF Queued
  <2>. QED
    BY <2>1, <2>2
<1>7. QueueOnce'
  <2>1. ASSUME NEW i \in DOMAIN inbox', NEW j \in DOMAIN inbox', inbox'[i] = inbox'[j]
        PROVE  i = j
    <3>1. i + 1 \in DOMAIN inbox /\ j + 1 \in DOMAIN inbox /\ i \in Int /\ j \in Int
      BY <1>5
    <3>2. i + 1 = j + 1
      BY <1>5, <2>1, <3>1 DEF IInv, QueueOnce
    <3>. QED
      BY <3>1, <3>2
  <2>. QED
    BY <2>1, <1>2, <1>6 DEF IInv, TypeOK, QueueOnce
<1>8. Phases'
  BY <1>2, <1>3, SMTT(30) DEF IInv, TypeOK, Phases, Working, Unanswerable
<1>9. \A n \in Fds : fdtab[n] # Nothing => fdtab'[n] = fdtab[n]
  BY <1>1 DEF FreeFds
<1>10. ThreadFds'
  <2>1. ASSUME NEW b \in Clients, argfd'[b] = argfd[b], wpc'[b] = wpc[b]
        PROVE  HoldsOwn(b)'
    <3>1. \A k \in DOMAIN argfd[b] : argfd[b][k] \in Fds
      BY DEF IInv, TypeOK
    <3>2. \A k \in DOMAIN argfd[b] : fdtab'[argfd[b][k]] = fdtab[argfd[b][k]]
      BY <3>1, <1>9 DEF IInv, ThreadFds, HoldsOwn
    <3>3. HoldsOwn(b) /\ req' = req
      BY <1>2 DEF IInv, ThreadFds
    <3>. QED
      BY <2>1, <3>2, <3>3 DEF HoldsOwn
  <2>2. CASE argfd'[c] = fds
    <3>1. \A k \in DOMAIN fds : fdtab'[fds[k]] # Nothing /\ fdtab'[fds[k]][1] = c
      <4>1. \A k \in DOMAIN fds : <<c, Roles(req[c])[k]>> \in Clients \X Role
        BY <1>1, RequestsTyped, RolesFacts DEF IInv
      <4>2. Nothing \notin Clients \X Role
        BY ControlAssumption DEF Role
      <4>3. \A k \in DOMAIN fds : fdtab'[fds[k]] = <<c, Roles(req[c])[k]>>
        BY <1>1
      <4>4. \A k \in DOMAIN fds : fdtab'[fds[k]] # Nothing
        BY <4>1, <4>2, <4>3, Zenon
      <4>. QED
        BY <4>3, <4>4
    <3>2. HoldsOwn(c)'
      BY <1>1, <1>2, <2>2, <3>1 DEF HoldsOwn
    <3>3. \A b \in Clients : b # c => argfd'[b] = argfd[b] /\ wpc'[b] = wpc[b]
      BY <1>2 DEF IInv, TypeOK
    <3>. QED
      BY <2>1, <3>2, <3>3 DEF ThreadFds
  <2>3. CASE argfd' = argfd /\ wpc' = wpc
    BY <2>1, <2>3 DEF ThreadFds
  <2>. QED
    BY <1>1, <1>2, <2>2, <2>3 DEF IInv, TypeOK
<1>11. \A n \in Fds : fdtab'[n] = fdtab[n] \/ (fdtab[n] = Nothing /\ \E k \in DOMAIN fds : n = fds[k])
  BY <1>1 DEF FreeFds
<1>12. OpenFds'
  <2>1. ASSUME NEW n \in Fds, fdtab[n] # Nothing
        PROVE  Passed(n)' /\ fdtab[n][1] # c
    <3>1. fdtab[n][1] \in Clients /\ Passed(n) /\ fdtab'[n] = fdtab[n]
      BY <2>1, <1>9 DEF IInv, TypeOK, OpenFds, Description
    <3>. QED
      BY <1>1, <1>2, <1>6, <3>1 DEF Passed
  <2>2. ASSUME NEW k \in DOMAIN fds
        PROVE  Passed(fds[k])' /\ fdtab'[fds[k]] = <<c, Roles(req[c])[k]>>
    <3>1. fdtab'[fds[k]] = <<c, Roles(req[c])[k]>> /\ k \in DOMAIN Roles(req[c])
      BY <1>1
    <3>2. fdtab'[fds[k]][1] = c /\ fdtab'[fds[k]][2] = Roles(req[c])[k]
      BY <3>1
    <3>. QED
      BY <1>2, <1>3, <1>6, <3>1, <3>2 DEF Passed
  <2>3. \A n \in Fds : fdtab'[n] # Nothing => Passed(n)'
    BY <1>11, <2>1, <2>2
  <2>4. ASSUME NEW m \in Fds, NEW n \in Fds, fdtab'[m] # Nothing, fdtab'[m] = fdtab'[n]
        PROVE  m = n
    <3>1. CASE fdtab[m] # Nothing /\ fdtab[n] # Nothing
      BY <2>4, <3>1, <1>9 DEF IInv, OpenFds
    <3>2. CASE fdtab[m] = Nothing /\ fdtab[n] = Nothing
      <4>1. PICK j \in DOMAIN fds : m = fds[j]
        BY <1>11, <2>4, <3>2
      <4>2. PICK k \in DOMAIN fds : n = fds[k]
        BY <1>11, <2>4, <3>2
      <4>3. Roles(req[c])[j] = Roles(req[c])[k]
        BY <2>2, <2>4, <4>1, <4>2
      <4>. QED
        BY <1>1, <4>1, <4>2, <4>3, RequestsTyped, RolesFacts DEF IInv
    <3>3. CASE fdtab[m] # Nothing /\ fdtab[n] = Nothing
      BY <1>9, <1>11, <2>1, <2>2, <2>4, <3>3
    <3>4. CASE fdtab[m] = Nothing /\ fdtab[n] # Nothing
      BY <1>9, <1>11, <2>1, <2>2, <2>4, <3>4
    <3>. QED
      BY <3>1, <3>2, <3>3, <3>4
  <2>. QED
    BY <2>3, <2>4 DEF OpenFds
<1>13. OpenedOwn'
  BY <1>2, <1>3 DEF IInv, TypeOK, OpenedOwn
<1>14. OnlyUnanswerableLeaks'
  <2>. SUFFICES ASSUME NEW n \in Fds, fdtab'[n] # Nothing
                PROVE  LET b == fdtab'[n][1] IN
                       \/ /\ wpc'[b] \notin {"none", "thrown", "done"}
                          /\ \E k \in DOMAIN argfd'[b] : argfd'[b][k] = n
                       \/ Unanswerable(req[b])
    BY <1>2 DEF OnlyUnanswerableLeaks
  <2>1. CASE fdtab[n] # Nothing
    <3>1. PICK b \in Clients : b = fdtab[n][1] /\ fdtab'[n] = fdtab[n]
      BY <2>1, <1>9 DEF IInv, TypeOK, Description
    <3>2. \/ wpc[b] \notin {"none", "thrown", "done"} /\ \E k \in DOMAIN argfd[b] : argfd[b][k] = n
          \/ Unanswerable(req[b])
      BY <2>1, <3>1 DEF IInv, OnlyUnanswerableLeaks
    <3>3. b # c => argfd'[b] = argfd[b] /\ wpc'[b] = wpc[b]
      BY <1>2 DEF IInv, TypeOK
    <3>. QED
      BY <1>3, <3>1, <3>2, <3>3
  <2>2. CASE fdtab[n] = Nothing
    <3>1. PICK k \in DOMAIN fds : n = fds[k]
      BY <1>11, <2>2
    <3>2. fdtab'[n][1] = c
      BY <1>1, <3>1
    <3>. QED
      BY <1>1, <1>2, <3>1, <3>2, ZenonT(60) DEF Unanswerable, IInv, TypeOK
  <2>. QED
    BY <2>1, <2>2
<1>15. Installs'
  BY <1>1, <1>2, <1>6 DEF IInv, TypeOK, Installs, Truthful, Uninstalled
<1>16. Alone'
  <2>1. \A b \in alone : b \in Clients /\ Solo(b)
    BY DEF IInv, TypeOK, Alone
  <2>2. \A b \in Clients : UnderWay(b)' => UnderWay(b)
    BY <1>1, <1>2, <1>3, <1>6 DEF IInv, TypeOK, UnderWay, Working
  <2>3. \A b \in alone : /\ cli'[b] = cli[b] \/ cli'[b] \in {"S", "F"}
                         /\ Committed(b)' => Serves(b)'
    BY <1>1, <1>2, <1>3, <1>6, <2>1 DEF IInv, TypeOK, Solo, Committed, Serves
  <2>. QED
    BY <1>2, <2>2, <2>3, AloneFrame DEF IInv
<1>. QED
  BY <1>4, <1>7, <1>8, <1>10, <1>12, <1>13, <1>14, <1>15, <1>16 DEF IInv

\* A thread that moves on, and answers no earlier than it decided to, keeps its
\* descriptors and its place in the order of things.
LEMMA ThreadFrame ==
  ASSUME IInv, NEW c \in Clients, NEW s, wpc[c] \in Working, wpc' = [wpc EXCEPT ![c] = s],
         s \in {"command", "opened", "answer", "close"} \/ (s = "thrown" /\ Unanswerable(req[c])),
         req' = req, inbox' = inbox, fdtab' = fdtab, argfd' = argfd,
         cli'[c] \notin {"new", "raised"}, \A b \in Clients : b # c => cli'[b] = cli[b]
  PROVE  QueueOnce' /\ ThreadFds' /\ OpenFds' /\ OnlyUnanswerableLeaks'
<1>1. \A b \in Clients : Queued(b)' <=> Queued(b)
  BY DEF Queued
<1>2. ~Queued(c)
  BY DEF IInv, QueueOnce, Working
<1>3. QueueOnce'
  BY <1>1, <1>2 DEF IInv, TypeOK, QueueOnce
<1>4. ThreadFds'
  <2>. SUFFICES ASSUME NEW b \in Clients PROVE HoldsOwn(b)'
    BY DEF ThreadFds
  <2>1. HoldsOwn(b)
    BY DEF IInv, ThreadFds
  <2>2. wpc'[b] \in Working => wpc[b] \in Working
    BY DEF IInv, TypeOK
  <2>. QED
    BY <2>1, <2>2 DEF HoldsOwn
<1>5. OpenFds'
  <2>1. ASSUME NEW n \in Fds, fdtab[n] # Nothing
        PROVE  Passed(n)'
    <3>1. fdtab[n][1] \in Clients /\ Passed(n)
      BY <2>1 DEF IInv, TypeOK, OpenFds, Description
    <3>. QED
      BY <1>1, <3>1 DEF Passed
  <2>. QED
    BY <2>1 DEF IInv, OpenFds
<1>6. OnlyUnanswerableLeaks'
  <2>. SUFFICES ASSUME NEW n \in Fds, fdtab[n] # Nothing
                PROVE  LET b == fdtab[n][1] IN
                       \/ /\ wpc'[b] \notin {"none", "thrown", "done"}
                          /\ \E k \in DOMAIN argfd[b] : argfd[b][k] = n
                       \/ Unanswerable(req[b])
    BY DEF OnlyUnanswerableLeaks
  <2>1. PICK b \in Clients : b = fdtab[n][1]
    BY DEF IInv, TypeOK, Description
  <2>2. \/ wpc[b] \notin {"none", "thrown", "done"} /\ \E k \in DOMAIN argfd[b] : argfd[b][k] = n
        \/ Unanswerable(req[b])
    BY <2>1 DEF IInv, OnlyUnanswerableLeaks
  <2>3. wpc'[b] = IF b = c THEN s ELSE wpc[b]
    BY DEF IInv, TypeOK
  <2>. QED
    BY <2>1, <2>2, <2>3
<1>. QED
  BY <1>3, <1>4, <1>5, <1>6

\* mapfd and the log sink
LEMMA BeginStep ==
  ASSUME IInv, NEW c \in Clients, Begin(c)
  PROVE  IInv'
<1>. USE DEF Begin, disk
<1>1. TypeOK'
  BY DEF IInv, TypeOK, Working
<1>2. \A b \in Clients : Queued(b)' <=> Queued(b)
  BY DEF Queued
<1>3. wpc[c] = "begin" /\ cli[c] = "waiting"
  BY DEF IInv, Phases, Working
<1>4. PICK s \in {"command", "thrown"} :
        /\ wpc' = [wpc EXCEPT ![c] = s]
        /\ s = "command" => req[c].form = "ok"
        /\ s = "thrown" => Unanswerable(req[c])
  BY DEF Unanswerable
<1>5. QueueOnce' /\ ThreadFds' /\ OpenFds' /\ OnlyUnanswerableLeaks'
  <2>1. /\ wpc[c] \in Working /\ cli'[c] \notin {"new", "raised"}
        /\ s \in {"command", "opened", "answer", "close"} \/ (s = "thrown" /\ Unanswerable(req[c]))
    BY <1>3, <1>4 DEF Working
  <2>. QED
    BY <1>4, <2>1, ThreadFrame
<1>6. Phases'
  BY <1>3, <1>4 DEF IInv, TypeOK, Phases, Working, Unanswerable
<1>7. OpenedOwn'
  BY <1>4 DEF IInv, TypeOK, OpenedOwn
<1>8. Installs'
  BY <1>2, <1>3, <1>4 DEF IInv, TypeOK, Installs, Truthful, Uninstalled, Undecided
<1>9. Alone'
  <2>1. \A b \in alone : b \in Clients /\ Solo(b)
    BY DEF IInv, TypeOK, Alone
  <2>2. \A b \in Clients : UnderWay(b)' => UnderWay(b)
    BY <1>2, <1>3, <1>4 DEF IInv, TypeOK, UnderWay, Working
  <2>3. \A b \in alone : /\ cli'[b] = cli[b] \/ cli'[b] \in {"S", "F"}
                         /\ Committed(b)' => Serves(b)'
    BY <1>2, <1>3, <1>4, <2>1 DEF IInv, TypeOK, Solo, Committed, Serves
  <2>. QED
    BY <2>2, <2>3, AloneFrame DEF IInv
<1>. QED
  BY <1>1, <1>5, <1>6, <1>7, <1>8, <1>9 DEF IInv

\* A command opens its file.
LEMMA OpenStep ==
  ASSUME IInv, NEW c \in Clients, Open(c)
  PROVE  IInv'
<1>. USE DEF Open, disk
<1>1. wpc[c] = "command" /\ cli[c] = "waiting" /\ wpc[c] \in Working
  BY DEF IInv, Phases, Working
<1>2. fdtab[argfd[c][1]] = <<c, Roles(req[c])[1]>>
  <2>1. Len(argfd[c]) = 2 /\ DOMAIN argfd[c] = 1..Len(argfd[c])
    BY <1>1, RequestsTyped, RolesFacts DEF IInv, TypeOK, ThreadFds, HoldsOwn
  <2>2. 1 \in DOMAIN argfd[c]
    BY <2>1
  <2>. QED
    BY <1>1, <2>2 DEF IInv, ThreadFds, HoldsOwn
<1>3. fdtab[argfd[c][1]] \in Description
  <2>1. Roles(req[c])[1] \in Role
    BY RequestsTyped, RolesFacts DEF IInv
  <2>. QED
    BY <1>2, <2>1 DEF Description
<1>4. TypeOK'
  BY <1>3 DEF IInv, TypeOK, Working
<1>5. \A b \in Clients : Queued(b)' <=> Queued(b)
  BY DEF Queued
<1>6. QueueOnce' /\ ThreadFds' /\ OpenFds' /\ OnlyUnanswerableLeaks'
  BY <1>1, ThreadFrame
<1>7. Phases'
  BY <1>1 DEF IInv, TypeOK, Phases, Working, Unanswerable
<1>8. OpenedOwn'
  BY <1>2 DEF IInv, TypeOK, OpenedOwn
<1>9. Installs'
  BY <1>5, <1>1 DEF IInv, TypeOK, Installs, Truthful, Uninstalled, Undecided
<1>10. Alone'
  <2>1. \A b \in alone : b \in Clients /\ Solo(b)
    BY DEF IInv, TypeOK, Alone
  <2>2. \A b \in Clients : UnderWay(b)' => UnderWay(b)
    BY <1>1, <1>5 DEF IInv, TypeOK, UnderWay, Working
  <2>3. \A b \in alone : /\ cli'[b] = cli[b] \/ cli'[b] \in {"S", "F"}
                         /\ Committed(b)' => Serves(b)'
    BY <1>1, <1>5, <2>1 DEF IInv, TypeOK, Solo, Committed, Serves
  <2>. QED
    BY <2>2, <2>3, AloneFrame DEF IInv
<1>. QED
  BY <1>4, <1>6, <1>7, <1>8, <1>9, <1>10 DEF IInv

\* A loader commits the file, refuses it, or throws.
LEMMA LoadStep ==
  ASSUME IInv, NEW c \in Clients, Load(c)
  PROVE  IInv'
<1>. DEFINE d == req[c].db
<1>1. /\ wpc[c] = "opened" /\ cli[c] = "waiting" /\ wpc[c] \in Working /\ req[c].form = "ok"
      /\ req[c].cmd = "load" /\ wpc[c] \in Undecided
  BY DEF IInv, Phases, Working, Undecided, Load
<1>2. opened[c] # Nothing /\ opened[c][1] = c
  <2>1. opened[c] = <<c, Roles(req[c])[1]>>
    BY <1>1 DEF IInv, OpenedOwn
  <2>2. Roles(req[c])[1] = "in"
    BY <1>1 DEF Roles
  <2>3. <<c, "in">> \in Clients \X {"in", "out", "err"}
    OBVIOUS
  <2>4. <<c, "in">> # Nothing
    BY <2>3, ControlAssumption, Zenon
  <2>. QED
    BY <2>1, <2>2, <2>4
<1>3. d \in Globals /\ Loader(d).commits = d
  BY RequestsTyped, LoaderCommits DEF IInv
<1>4. /\ req' = req /\ inbox' = inbox /\ fdtab' = fdtab /\ argfd' = argfd /\ cli' = cli
      /\ up' = up /\ crashed' = crashed /\ opened' = opened /\ link' = link /\ gone' = gone /\ alone' = alone
  BY DEF Load, disk
<1>5. Uninstalled(c)
  BY <1>1 DEF IInv, Installs, Truthful
<1>6. \A b \in Clients : Queued(b)' <=> Queued(b)
  BY <1>4 DEF Queued
<1>8. CASE /\ Outcome(d, req[c]) = "commit"
           /\ global' = [global EXCEPT ![d] = c]
           /\ installed' = installed \cup {<<c, d>>}
           /\ status' = [status EXCEPT ![c] = "S"]
           /\ wpc' = [wpc EXCEPT ![c] = "answer"]
  <2>1. TypeOK'
    BY <1>3, <1>4, <1>8 DEF IInv, TypeOK, Working
  <2>2. QueueOnce' /\ ThreadFds' /\ OpenFds' /\ OnlyUnanswerableLeaks'
    BY <1>1, <1>4, <1>8, ThreadFrame
  <2>3. Phases' /\ OpenedOwn'
    BY <1>1, <1>4, <1>8 DEF IInv, TypeOK, Phases, OpenedOwn, Working, Unanswerable
  <2>4. Installs'
    <3>1. req[c].file \notin Loader(d).throws
      BY <1>8 DEF Outcome
    <3>2. \A b \in Clients : \A e \in Globals :
            <<b, e>> \in installed' <=> <<b, e>> \in installed \/ (b = c /\ e = d)
      BY <1>8
    <3>3. \A b \in Clients : b # c => wpc'[b] = wpc[b] /\ status'[b] = status[b]
                                      /\ (Uninstalled(b)' <=> Uninstalled(b))
      BY <1>8, <3>2 DEF IInv, TypeOK, Uninstalled
    <3>4. wpc'[c] = "answer" /\ status'[c] = "S" /\ ~Queued(c)
      BY <1>1, <1>8 DEF IInv, TypeOK, QueueOnce
    <3>5. Truthful(c)'
      BY <1>1, <1>3, <1>4, <1>5, <1>6, <3>1, <3>2, <3>4 DEF Truthful, Uninstalled, Undecided
    <3>6. ASSUME NEW b \in Clients, b # c PROVE Truthful(b)'
      <4>1. Truthful(b) /\ \A e \in Globals : <<b, e>> \in installed' <=> <<b, e>> \in installed
        BY <3>2, <3>6 DEF IInv, Installs
      <4>2. req[b].cmd = "load" => req[b].db \in Globals
        BY RequestsTyped DEF IInv
      <4>. QED
        BY <1>4, <1>6, <3>3, <3>6, <4>1, <4>2 DEF Truthful
    <3>. QED
      BY <3>5, <3>6 DEF Installs
  <2>5. Alone'
    <3>. SUFFICES ASSUME NEW b \in alone PROVE Solo(b)'
      BY <1>4 DEF Alone
    <3>1. b \in Clients /\ Solo(b) /\ req[b].cmd = "load"
      BY DEF IInv, TypeOK, Alone, Solo
    <3>2. UnderWay(c) /\ \A a \in Clients : UnderWay(a)' => UnderWay(a)
      BY <1>1, <1>4, <1>6, <1>8 DEF IInv, TypeOK, UnderWay
    <3>3. Committed(b)' => Serves(b)'
      <4>1. CASE b = c
        BY <1>3, <1>4, <1>8, <4>1 DEF Serves, IInv, TypeOK
      <4>2. CASE b # c
        <5>1. req[b].db # d
          BY <1>1, <3>1, <3>2, <4>2 DEF Solo, Conflict
        <5>2. (Committed(b)' <=> Committed(b)) /\ (Serves(b)' <=> Serves(b))
          BY <1>4, <1>8, <4>2, <5>1, <3>1, RequestsTyped DEF IInv, TypeOK, Committed, Serves
        <5>. QED
          BY <3>1, <5>2 DEF Solo
      <4>. QED
        BY <4>1, <4>2
    <3>. QED
      BY <1>4, <3>1, <3>2, <3>3, SoloFrame
  <2>. QED
    BY <2>1, <2>2, <2>3, <2>4, <2>5 DEF IInv
<1>9. ASSUME NEW s \in {"answer", "thrown"}, wpc' = [wpc EXCEPT ![c] = s],
             global' = global, installed' = installed,
             s = "answer" => status' = [status EXCEPT ![c] = "F"],
             s = "thrown" => status' = status /\ Unanswerable(req[c])
      PROVE  IInv'
  <2>1. TypeOK'
    BY <1>4, <1>9 DEF IInv, TypeOK, Working
  <2>2. QueueOnce' /\ ThreadFds' /\ OpenFds' /\ OnlyUnanswerableLeaks'
    <3>1. s \in {"command", "opened", "answer", "close"} \/ (s = "thrown" /\ Unanswerable(req[c]))
      BY <1>9
    <3>. QED
      BY <1>1, <1>4, <1>9, <3>1, ThreadFrame
  <2>3. Phases' /\ OpenedOwn'
    BY <1>1, <1>4, <1>9 DEF IInv, TypeOK, Phases, OpenedOwn, Working, Unanswerable
  <2>4. Installs'
    <3>1. \A b \in Clients : b # c => wpc'[b] = wpc[b] /\ status'[b] = status[b]
      BY <1>9 DEF IInv, TypeOK
    <3>2. \A b \in Clients : Uninstalled(b)' <=> Uninstalled(b)
      BY <1>9 DEF Uninstalled
    <3>3. wpc'[c] = "answer" => status'[c] = "F"
      BY <1>9 DEF IInv, TypeOK
    <3>4. wpc'[c] \in {"answer", "thrown"}
      BY <1>9 DEF IInv, TypeOK
    <3>. QED
      BY <1>4, <1>5, <1>6, <1>9, <3>1, <3>2, <3>3, <3>4 DEF IInv, Installs, Truthful, Undecided
  <2>5. Alone'
    <3>1. \A b \in alone : b \in Clients /\ Solo(b)
      BY DEF IInv, TypeOK, Alone
    <3>2. \A b \in Clients : UnderWay(b)' => UnderWay(b)
      BY <1>1, <1>4, <1>6, <1>9 DEF IInv, TypeOK, UnderWay, Working
    <3>3. \A b \in alone : /\ cli'[b] = cli[b] \/ cli'[b] \in {"S", "F"}
                           /\ Committed(b)' => Serves(b)'
      BY <1>1, <1>4, <1>6, <1>9, <3>1 DEF IInv, TypeOK, Solo, Committed, Serves
    <3>. QED
      BY <1>4, <3>2, <3>3, AloneFrame DEF IInv
  <2>. QED
    BY <2>1, <2>2, <2>3, <2>4, <2>5 DEF IInv
<1>10. \/ /\ Outcome(d, req[c]) = "commit"
          /\ global' = [global EXCEPT ![d] = c]
          /\ installed' = installed \cup {<<c, d>>}
          /\ Answer(c, "S")
       \/ Answer(c, "F") /\ UNCHANGED <<global, installed>>
       \/ /\ Outcome(d, req[c]) = "escape" /\ wpc' = [wpc EXCEPT ![c] = "thrown"]
          /\ UNCHANGED <<global, installed, status>>
  BY <1>2, <1>3 DEF Load
<1>. QED
  BY <1>1, <1>8, <1>9, <1>10 DEF Answer, Unanswerable

\* verify, dump, meta and unknown commands decide on an answer and install nothing.
LEMMA AnswerStep ==
  ASSUME IInv, NEW c \in Clients, VerifyOrDump(c) \/ Report(c)
  PROVE  IInv'
<1>1. /\ wpc[c] \in {"command", "opened"} /\ cli[c] = "waiting" /\ wpc[c] \in Working
      /\ req[c].form = "ok" /\ req[c].cmd # "load"
  BY DEF IInv, Phases, Working, VerifyOrDump, Report
<1>2. PICK s \in {"S", "F"} : /\ status' = [status EXCEPT ![c] = s]
                              /\ wpc' = [wpc EXCEPT ![c] = "answer"]
  BY DEF VerifyOrDump, Report, Answer
<1>3. /\ req' = req /\ inbox' = inbox /\ fdtab' = fdtab /\ argfd' = argfd /\ cli' = cli
      /\ up' = up /\ crashed' = crashed /\ opened' = opened /\ link' = link /\ gone' = gone /\ alone' = alone
      /\ global' = global /\ installed' = installed
  BY DEF VerifyOrDump, Report, disk
<1>4. \A b \in Clients : Queued(b)' <=> Queued(b)
  BY <1>3 DEF Queued
<1>5. TypeOK'
  BY <1>2, <1>3 DEF IInv, TypeOK, Working
<1>6. QueueOnce' /\ ThreadFds' /\ OpenFds' /\ OnlyUnanswerableLeaks'
  BY <1>1, <1>2, <1>3, ThreadFrame
<1>7. Phases' /\ OpenedOwn'
  BY <1>1, <1>2, <1>3 DEF IInv, TypeOK, Phases, OpenedOwn, Working, Unanswerable
<1>8. Installs'
  BY <1>1, <1>2, <1>3, <1>4 DEF IInv, TypeOK, Installs, Truthful, Uninstalled, Undecided
<1>9. Alone'
  <2>1. \A b \in alone : b \in Clients /\ Solo(b)
    BY DEF IInv, TypeOK, Alone
  <2>2. \A b \in Clients : UnderWay(b)' => UnderWay(b)
    BY <1>1, <1>2, <1>3, <1>4 DEF IInv, TypeOK, UnderWay, Working
  <2>3. \A b \in alone : /\ cli'[b] = cli[b] \/ cli'[b] \in {"S", "F"}
                         /\ Committed(b)' => Serves(b)'
    BY <1>1, <1>2, <1>3, <1>4, <2>1 DEF IInv, TypeOK, Solo, Committed, Serves
  <2>. QED
    BY <1>3, <2>2, <2>3, AloneFrame DEF IInv
<1>. QED
  BY <1>5, <1>6, <1>7, <1>8, <1>9 DEF IInv

\* sendto
LEMMA SendStep ==
  ASSUME IInv, NEW c \in Clients, Send(c)
  PROVE  IInv'
<1>. USE DEF Send, disk
<1>1. /\ wpc[c] = "answer" /\ cli[c] = "waiting" /\ wpc[c] \in Working /\ req[c].form = "ok"
      /\ status[c] \in {"S", "F"} /\ cli'[c] = status[c] /\ wpc'[c] = "close"
  BY DEF IInv, TypeOK, Phases, Working
<1>2. \A b \in Clients : b # c => cli'[b] = cli[b] /\ wpc'[b] = wpc[b]
  BY DEF IInv, TypeOK
<1>3. \A b \in Clients : Queued(b)' <=> Queued(b)
  BY DEF Queued
<1>4. ~Queued(c)
  BY <1>1 DEF IInv, QueueOnce
<1>5. TypeOK'
  BY <1>1 DEF IInv, TypeOK, Working
<1>6. QueueOnce' /\ ThreadFds' /\ OpenFds' /\ OnlyUnanswerableLeaks'
  <2>1. cli'[c] \notin {"new", "raised"}
    BY <1>1
  <2>. QED
    BY <1>1, <1>2, <2>1, ThreadFrame
<1>7. Phases' /\ OpenedOwn'
  BY <1>1, <1>2 DEF IInv, TypeOK, Phases, OpenedOwn, Working, Unanswerable, Linking
<1>8. Installs'
  BY <1>1, <1>2, <1>3, <1>4 DEF IInv, Installs, Truthful, Uninstalled, Undecided, Linking
<1>9. Alone'
  <2>1. \A b \in alone : b \in Clients /\ Solo(b)
    BY DEF IInv, TypeOK, Alone
  <2>2. \A b \in Clients : UnderWay(b)' => UnderWay(b)
    BY <1>1, <1>2, <1>3 DEF IInv, TypeOK, UnderWay, Working
  <2>3. \A b \in alone : /\ cli'[b] = cli[b] \/ cli'[b] \in {"S", "F"}
                         /\ Committed(b)' => Serves(b)'
    BY <1>1, <1>2, <1>3, <2>1 DEF IInv, TypeOK, Solo, Committed, Serves, Linking
  <2>. QED
    BY <2>2, <2>3, AloneFrame DEF IInv
<1>. QED
  BY <1>5, <1>6, <1>7, <1>8, <1>9 DEF IInv

\* for (int fd : argfd) close(fd)
LEMMA CloseStep ==
  ASSUME IInv, NEW c \in Clients, Close(c)
  PROVE  IInv'
<1>. USE DEF Close, disk
<1>1. PICK h \in Fds : h = Head(argfd[c])
  BY DEF IInv, TypeOK
<1>2. /\ wpc[c] = "close" /\ fdtab' = [fdtab EXCEPT ![h] = Nothing]
      /\ argfd' = [argfd EXCEPT ![c] = Tail(argfd[c])]
  BY <1>1
<1>3. /\ DOMAIN argfd[c] = 1..Len(argfd[c]) /\ Len(argfd[c]) \in Nat \ {0} /\ argfd[c][1] = h
      /\ argfd'[c] \in Seq(Fds) /\ DOMAIN argfd'[c] = 1..Len(argfd'[c])
      /\ Len(argfd'[c]) = Len(argfd[c]) - 1
      /\ \A k \in DOMAIN argfd'[c] : argfd'[c][k] = argfd[c][k + 1]
  BY <1>1, <1>2 DEF IInv, TypeOK
<1>4. /\ 1 \in DOMAIN argfd[c]
      /\ \A k \in DOMAIN argfd'[c] : k + 1 \in DOMAIN argfd[c] /\ k + 1 # 1 /\ k \in Nat
  BY <1>3
<1>5. HoldsOwn(c)
  BY DEF IInv, ThreadFds
<1>6. fdtab[h] # Nothing /\ fdtab[h][1] = c
  BY <1>3, <1>4, <1>5 DEF HoldsOwn
<1>7. \A n \in Fds : fdtab'[n] = IF n = h THEN Nothing ELSE fdtab[n]
  BY <1>2 DEF IInv, TypeOK
<1>8. \A b \in Clients : b # c => argfd'[b] = argfd[b]
  BY <1>2 DEF IInv, TypeOK
<1>9. \A b \in Clients : Queued(b)' <=> Queued(b)
  BY DEF Queued
<1>10. TypeOK'
  <2>1. argfd' \in [Clients -> Seq(Fds)]
    BY <1>2, <1>3 DEF IInv, TypeOK
  <2>2. fdtab' \in [Fds -> Description \cup {Nothing}]
    BY <1>2 DEF IInv, TypeOK
  <2>. QED
    BY <2>1, <2>2 DEF IInv, TypeOK
<1>11. QueueOnce' /\ OpenedOwn'
  BY <1>9 DEF IInv, TypeOK, QueueOnce, OpenedOwn
<1>12. Phases'
  BY <1>2, <1>8 DEF IInv, Phases, Working, Unanswerable
<1>13. ThreadFds'
  <2>1. HoldsOwn(c)'
    <3>1. \A k \in DOMAIN argfd'[c] : argfd[c][k + 1] # h /\ argfd[c][k + 1] \in Fds
      <4>1. \A k \in DOMAIN argfd[c] : argfd[c][k] \in Fds
        BY DEF IInv, TypeOK
      <4>2. \A k \in DOMAIN argfd[c] : k # 1 => argfd[c][k] # argfd[c][1]
        BY <1>4, <1>5 DEF HoldsOwn
      <4>. QED
        BY <1>3, <1>4, <4>1, <4>2
    <3>2. \A k \in DOMAIN argfd'[c] : fdtab'[argfd'[c][k]] # Nothing /\ fdtab'[argfd'[c][k]][1] = c
      BY <1>3, <1>4, <1>5, <1>7, <3>1 DEF HoldsOwn
    <3>3. ASSUME NEW j \in DOMAIN argfd'[c], NEW k \in DOMAIN argfd'[c],
                 argfd'[c][j] = argfd'[c][k]
          PROVE  j = k
      <4>1. j + 1 = k + 1
        BY <1>3, <1>4, <1>5, <3>3 DEF HoldsOwn
      <4>. QED
        BY <1>4, <4>1
    <3>. QED
      BY <1>2, <3>2, <3>3 DEF HoldsOwn, Working
  <2>2. ASSUME NEW b \in Clients, b # c PROVE HoldsOwn(b)'
    <3>1. HoldsOwn(b)
      BY DEF IInv, ThreadFds
    <3>2. \A k \in DOMAIN argfd[b] : argfd[b][k] \in Fds /\ argfd[b][k] # h
      BY <1>6, <2>2, <3>1 DEF HoldsOwn, IInv, TypeOK
    <3>3. argfd'[b] = argfd[b] /\ \A k \in DOMAIN argfd[b] : fdtab'[argfd[b][k]] = fdtab[argfd[b][k]]
      BY <1>7, <1>8, <2>2, <3>2
    <3>4. wpc' = wpc /\ req' = req
      OBVIOUS
    <3>. HIDE DEF Close, disk
    <3>. QED
      BY <3>1, <3>3, <3>4, ZenonT(60) DEF HoldsOwn
  <2>. QED
    BY <2>1, <2>2 DEF ThreadFds
<1>14. OpenFds'
  <2>1. ASSUME NEW n \in Fds, fdtab'[n] # Nothing PROVE Passed(n)'
    <3>1. fdtab'[n] = fdtab[n] /\ fdtab[n][1] \in Clients /\ Passed(n)
      BY <1>7, <2>1 DEF IInv, TypeOK, OpenFds, Description
    <3>. QED
      BY <1>9, <3>1 DEF Passed
  <2>. QED
    BY <1>7, <2>1 DEF IInv, OpenFds
<1>15. OnlyUnanswerableLeaks'
  <2>. SUFFICES ASSUME NEW n \in Fds, fdtab'[n] # Nothing
                PROVE  LET b == fdtab'[n][1] IN
                       \/ /\ wpc[b] \notin {"none", "thrown", "done"}
                          /\ \E k \in DOMAIN argfd'[b] : argfd'[b][k] = n
                       \/ Unanswerable(req[b])
    BY DEF OnlyUnanswerableLeaks
  <2>1. PICK b \in Clients : b = fdtab[n][1] /\ fdtab'[n] = fdtab[n] /\ n # h
    BY <1>7 DEF IInv, TypeOK, Description
  <2>2. \/ wpc[b] \notin {"none", "thrown", "done"} /\ \E k \in DOMAIN argfd[b] : argfd[b][k] = n
        \/ Unanswerable(req[b])
    BY <2>1 DEF IInv, OnlyUnanswerableLeaks
  <2>3. ASSUME b = c, NEW k \in DOMAIN argfd[b], argfd[b][k] = n
        PROVE  \E j \in DOMAIN argfd'[b] : argfd'[b][j] = n
    <3>1. k - 1 \in DOMAIN argfd'[c] /\ (k - 1) + 1 = k
      BY <1>3, <2>1, <2>3
    <3>. QED
      BY <1>3, <2>3, <3>1
  <2>. QED
    BY <1>8, <2>1, <2>2, <2>3
<1>16. Installs'
  BY <1>9 DEF IInv, Installs, Truthful, Uninstalled
<1>17. Alone'
  <2>1. \A b \in alone : b \in Clients /\ Solo(b)
    BY DEF IInv, TypeOK, Alone
  <2>2. \A b \in Clients : UnderWay(b)' => UnderWay(b)
    BY <1>9 DEF IInv, TypeOK, UnderWay, Working
  <2>3. \A b \in alone : /\ cli'[b] = cli[b] \/ cli'[b] \in {"S", "F"}
                         /\ Committed(b)' => Serves(b)'
    BY <1>9, <2>1 DEF IInv, TypeOK, Solo, Committed, Serves
  <2>. QED
    BY <2>2, <2>3, AloneFrame DEF IInv
<1>. QED
  BY <1>10, <1>11, <1>12, <1>13, <1>14, <1>15, <1>16, <1>17 DEF IInv

\* The end of a dispatch thread
LEMMA RemoveLogSinkStep ==
  ASSUME IInv, NEW c \in Clients, RemoveLogSink(c)
  PROVE  IInv'
<1>. USE DEF RemoveLogSink, disk
<1>1. /\ wpc[c] = "close" /\ wpc'[c] = "done" /\ argfd[c] = <<>>
      /\ \A b \in Clients : b # c => wpc'[b] = wpc[b]
  BY DEF IInv, TypeOK
<1>2. \A b \in Clients : Queued(b)' <=> Queued(b)
  BY DEF Queued
<1>3. TypeOK'
  BY DEF IInv, TypeOK
<1>4. QueueOnce' /\ OpenedOwn'
  BY <1>1, <1>2 DEF IInv, QueueOnce, OpenedOwn
<1>5. Phases'
  BY <1>1 DEF IInv, Phases, Working, Unanswerable
<1>6. ThreadFds'
  BY <1>1 DEF IInv, ThreadFds, HoldsOwn, Working
<1>7. OpenFds'
  <2>1. ASSUME NEW n \in Fds, fdtab[n] # Nothing PROVE Passed(n)'
    <3>1. fdtab[n][1] \in Clients /\ Passed(n)
      BY <2>1 DEF IInv, TypeOK, OpenFds, Description
    <3>. QED
      BY <1>2, <3>1 DEF Passed
  <2>. QED
    BY <2>1 DEF IInv, OpenFds
<1>8. OnlyUnanswerableLeaks'
  <2>. SUFFICES ASSUME NEW n \in Fds, fdtab[n] # Nothing
                PROVE  LET b == fdtab[n][1] IN
                       \/ /\ wpc'[b] \notin {"none", "thrown", "done"}
                          /\ \E k \in DOMAIN argfd[b] : argfd[b][k] = n
                       \/ Unanswerable(req[b])
    BY DEF OnlyUnanswerableLeaks
  <2>1. PICK b \in Clients : b = fdtab[n][1]
    BY DEF IInv, TypeOK, Description
  <2>2. \/ wpc[b] \notin {"none", "thrown", "done"} /\ \E k \in DOMAIN argfd[b] : argfd[b][k] = n
        \/ Unanswerable(req[b])
    BY <2>1 DEF IInv, OnlyUnanswerableLeaks
  <2>3. DOMAIN argfd[c] = {}
    BY <1>1
  <2>. QED
    BY <1>1, <2>1, <2>2, <2>3
<1>9. Installs'
  BY <1>1, <1>2 DEF IInv, Installs, Truthful, Uninstalled, Undecided
<1>10. Alone'
  <2>1. \A b \in alone : b \in Clients /\ Solo(b)
    BY DEF IInv, TypeOK, Alone
  <2>2. \A b \in Clients : UnderWay(b)' => UnderWay(b)
    BY <1>1, <1>2 DEF IInv, TypeOK, UnderWay, Working
  <2>3. \A b \in alone : /\ cli'[b] = cli[b] \/ cli'[b] \in {"S", "F"}
                         /\ Committed(b)' => Serves(b)'
    BY <1>1, <1>2, <2>1 DEF IInv, TypeOK, Solo, Committed, Serves
  <2>. QED
    BY <2>2, <2>3, AloneFrame DEF IInv
<1>. QED
  BY <1>3, <1>4, <1>5, <1>6, <1>7, <1>8, <1>9, <1>10 DEF IInv

\* The daemon dies: descriptors, threads and mappings are gone, the queue is not.
LEMMA CrashStep ==
  ASSUME IInv, NEW c \in Clients, Crash(c)
  PROVE  IInv'
<1>. USE DEF Crash, disk
<1>1. \A b \in Clients : (Queued(b)' <=> Queued(b)) /\ wpc'[b] = "none" /\ argfd'[b] = <<>>
  BY DEF Queued
<1>2. TypeOK'
  <2>1. argfd' \in [Clients -> Seq(Fds)]
    OBVIOUS
  <2>. QED
    BY <2>1 DEF IInv, TypeOK
<1>3. QueueOnce' /\ OpenedOwn' /\ Phases'
  BY <1>1 DEF IInv, QueueOnce, OpenedOwn, Phases, Working
<1>4. ThreadFds'
  <2>1. \A b \in Clients : DOMAIN argfd'[b] = {} /\ wpc'[b] \notin Working
    BY <1>1 DEF Working
  <2>. QED
    BY <2>1 DEF ThreadFds, HoldsOwn
<1>5. OpenFds' /\ OnlyUnanswerableLeaks'
  BY DEF OpenFds, OnlyUnanswerableLeaks
<1>6. Installs'
  BY <1>1 DEF IInv, Installs, Truthful, Uninstalled, Undecided
<1>7. Alone'
  <2>1. \A b \in alone : b \in Clients /\ Solo(b)
    BY DEF IInv, TypeOK, Alone
  <2>2. \A b \in Clients : UnderWay(b)' => UnderWay(b)
    BY <1>1 DEF IInv, TypeOK, UnderWay, Working
  <2>3. \A b \in alone : /\ cli'[b] = cli[b] \/ cli'[b] \in {"S", "F"}
                         /\ Committed(b)' => Serves(b)'
    BY <2>1, RequestsTyped DEF IInv, Serves
  <2>. QED
    BY <2>2, <2>3, AloneFrame DEF IInv
<1>. QED
  BY <1>2, <1>3, <1>4, <1>5, <1>6, <1>7 DEF IInv

\* Steps that change nothing the invariant speaks of but whether the daemon is up.
LEMMA QuietStep ==
  ASSUME IInv, up' \in BOOLEAN,
         UNCHANGED <<crashed, cli, req, inbox, daemon, installed, disk>>
  PROVE  IInv'
<1>. USE DEF daemon, disk
<1>1. TypeOK'
  BY DEF IInv, TypeOK
<1>2. \A b \in Clients : Queued(b)' <=> Queued(b)
  BY DEF Queued
<1>3. QueueOnce' /\ Phases' /\ OpenedOwn'
  BY <1>2 DEF IInv, QueueOnce, Phases, OpenedOwn, Unanswerable
<1>4. ThreadFds' /\ OnlyUnanswerableLeaks'
  BY DEF IInv, ThreadFds, HoldsOwn, OnlyUnanswerableLeaks, Unanswerable
<1>5. OpenFds'
  BY DEF IInv, OpenFds, Passed, Queued
<1>6. Installs'
  BY <1>2 DEF IInv, Installs, Truthful, Uninstalled
<1>7. Alone'
  <2>1. \A b \in alone : b \in Clients /\ Solo(b)
    BY DEF IInv, TypeOK, Alone
  <2>2. \A b \in Clients : UnderWay(b)' => UnderWay(b)
    BY <1>2 DEF IInv, TypeOK, UnderWay, Working
  <2>3. \A b \in alone : /\ cli'[b] = cli[b] \/ cli'[b] \in {"S", "F"}
                         /\ Committed(b)' => Serves(b)'
    BY <1>2, <2>1 DEF IInv, TypeOK, Solo, Committed, Serves
  <2>. QED
    BY <2>2, <2>3, AloneFrame DEF IInv
<1>. QED
  BY <1>1, <1>3, <1>4, <1>5, <1>6, <1>7 DEF IInv

-----------------------------------------------------------------------------
(* The theorems.                                                           *)

\* The daemon starts with nothing open and nothing in service.
LEMMA InitIInv == Init => IInv
<1>. SUFFICES ASSUME Init PROVE IInv
  OBVIOUS
<1>. USE DEF Init
<1>1. TypeOK
  <2>1. inbox \in Seq(Clients) /\ argfd \in [Clients -> Seq(Fds)]
    OBVIOUS
  <2>. QED
    BY <2>1 DEF TypeOK
<1>2. \A b \in Clients : ~Queued(b) /\ DOMAIN argfd[b] = {} /\ wpc[b] \notin Working
  BY DEF Queued, Working
<1>3. QueueOnce /\ Phases /\ OpenedOwn
  BY <1>2 DEF QueueOnce, Phases, OpenedOwn, Working, Linking
<1>4. ThreadFds /\ OpenFds /\ OnlyUnanswerableLeaks
  BY <1>2 DEF ThreadFds, HoldsOwn, OpenFds, OnlyUnanswerableLeaks
<1>5. Installs
  BY DEF Installs, Truthful, Uninstalled, Linking
<1>6. Alone
  BY DEF Alone
<1>. QED
  BY <1>1, <1>3, <1>4, <1>5, <1>6 DEF IInv

\* Every step keeps the invariant.
LEMMA StepIInv == IInv /\ [Next]_vars => IInv'
<1>. SUFFICES ASSUME IInv, [Next]_vars PROVE IInv'
  OBVIOUS
<1>1. ASSUME NEW c \in Clients, MakeRequest(c) \/ VerifyDb(c) PROVE IInv'
  BY <1>1, MakeRequestStep, VerifyDbStep
<1>5. ASSUME NEW c \in Clients, TestLink(c) \/ Unlink(c) \/ Symlink(c) PROVE IInv'
  BY <1>5, TestLinkStep, UnlinkStep, SymlinkStep
<1>6. ASSUME NEW l \in Links, RemoveFile(l) PROVE IInv'
  BY <1>6, RemoveFileStep
<1>2. ASSUME NEW c \in Clients, Worker(c) PROVE IInv'
  BY <1>2, BeginStep, OpenStep, LoadStep, AnswerStep, CrashStep, SendStep, CloseStep,
     RemoveLogSinkStep DEF Worker
<1>3. CASE Receive
  BY <1>3, ReceiveStep
<1>4. CASE Restart \/ Log \/ UNCHANGED vars
  <2>1. /\ up' \in BOOLEAN
        /\ UNCHANGED <<crashed, cli, req, inbox, daemon, installed, disk>>
    BY <1>4 DEF Restart, Log, vars, IInv, TypeOK
  <2>. QED
    BY <2>1, QuietStep
<1>. QED
  BY <1>1, <1>2, <1>3, <1>4, <1>5, <1>6 DEF Next

\* The inductive invariant holds in every state.
THEOREM Invariance == Spec => []IInv
BY InitIInv, StepIInv, PTL DEF Spec

\* For any number of clients and descriptors, the descriptors of a command are
\* those its own client sent until it closes them: no command loads, verifies or
\* overwrites the file of another, whatever numbers the kernel has reused.
THEOREM CommandsOwnTheirDescriptors == Spec => []OwnDescriptors
<1>1. IInv => OwnDescriptors
  BY DEF IInv, ThreadFds, HoldsOwn, Working, OwnDescriptors
<1>. QED
  BY <1>1, Invariance, PTL

\* The answer to a reload is true: "S" only when the file was put in service and
\* was readable, "F" only when it never was.
THEOREM AnswersAreTrue == Spec => []AnswerIsTrue
<1>1. IInv => AnswerIsTrue
  BY DEF IInv, Installs, Truthful, Uninstalled, AnswerIsTrue
<1>. QED
  BY <1>1, Invariance, PTL

\* A reload that no other of its mapping or link interferes with leaves the "current"
\* link naming the file in service, and fails to only on a link to a file that is gone.
THEOREM LinksFollowService == Spec => []LinkFollowsService
<1>1. IInv => LinkFollowsService
  BY DEF IInv, Alone, Solo, LinkKnown, Committed, Linking, LinkFollowsService
<1>. QED
  BY <1>1, Invariance, PTL

\* Descriptors are leaked only by requests that are never answered.
THEOREM AnsweredLeakNothing == Spec => []OnlyUnanswerableLeaks
<1>1. IInv => OnlyUnanswerableLeaks
  BY DEF IInv
<1>. QED
  BY <1>1, Invariance, PTL

=============================================================================
