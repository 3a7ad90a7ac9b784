------------------------- MODULE VerifyDump_proofs -------------------------
(***************************************************************************)
(* Proofs about VerifyDump for files and mappings of any length: a dump    *)
(* writes the mapping the command took, and verify tells a file that lists *)
(* it from one that does not, whatever is reloaded meanwhile.              *)
(***************************************************************************)
EXTENDS VerifyDump, FiniteSetTheorems, FunctionTheorems, SequenceTheorems, TLAPS

-----------------------------------------------------------------------------
(* The inductive invariant.                                                *)

AnyLine == Rows \cup {Short(k) : k \in Keys} \cup {Bad}

\* What the Builder makes of a file of any length.
Mapping == {t \in Seq(Rows) : Loadable(t)}

TypeOK ==
  /\ current \in Mapping /\ snap \in Mapping
  /\ file \in Seq(AnyLine) /\ newline \in BOOLEAN
  /\ nrows \in Nat /\ maxdiff \in Nat

\* The file of a dump is the part of the mapping that has been written.
Dumped ==
  pc = "dump" => /\ newline /\ Len(file) = nrows /\ nrows <= Len(snap)
                 /\ \A i \in 1..nrows : file[i] = snap[i]

\* Row i of the file says something the mapping of the command does not.
Wrong(i) == file[i].form = "row" /\ ~\E j \in DOMAIN snap : snap[j] = file[i]
WrongUpTo(n) == {i \in 1..n : Wrong(i)}

\* verify has counted the wrong rows among those it has seen, and perhaps lines
\* of one column, and has counted nothing if every row is right.
Counted ==
  pc = "verify" =>
    /\ nrows <= Len(file) /\ maxdiff > 0
    /\ Cardinality(WrongUpTo(nrows)) + maxdiff <= MaxDiff
    /\ Matches(file, snap) => maxdiff = MaxDiff

IInv == TypeOK /\ Dumped /\ Counted

-----------------------------------------------------------------------------
(* Facts about files and mappings.                                         *)

\* A loadable file is a mapping.
LEMMA LoadableIsMapping ==
  ASSUME NEW f \in Seq(AnyLine), Loadable(f)
  PROVE  f \in Mapping
<1>1. \A i \in DOMAIN f : f[i] \in Rows
  <2>. SUFFICES ASSUME NEW i \in DOMAIN f PROVE f[i] \in Rows
    OBVIOUS
  <2>1. f[i] \in AnyLine /\ f[i].form = "row"
    BY DEF Loadable
  <2>2. \A k \in Keys : Short(k).form # "row"
    BY DEF Short
  <2>3. Bad.form # "row"
    BY DEF Bad
  <2>. QED
    BY <2>1, <2>2, <2>3 DEF AnyLine
<1>2. f \in Seq(Rows)
  BY <1>1
<1>. QED
  BY <1>2 DEF Mapping

\* A bounded table is a mapping.
LEMMA TablesAreMappings == Tables \subseteq Mapping
<1>. SUFFICES ASSUME NEW t \in Tables PROVE t \in Mapping
  OBVIOUS
<1>1. PICK m \in 0..MaxTable : t \in [1..m -> Rows]
  BY DEF Tables, SeqsUpTo
<1>2. t \in Seq(Rows)
  BY <1>1, VerifyDumpAssumption
<1>. QED
  BY <1>2 DEF Tables, Mapping

\* Two loadable files with the same rows have as many lines.
LEMMA MatchesHaveSameLength ==
  ASSUME NEW f \in Mapping, NEW t \in Mapping, Matches(f, t)
  PROVE  Len(f) = Len(t)
<1>. DEFINE R == {f[i] : i \in DOMAIN f}
<1>1. ASSUME NEW g \in Mapping, {g[i] : i \in DOMAIN g} = R
      PROVE  IsFiniteSet(R) /\ Cardinality(R) = Len(g)
  <2>1. g \in Seq(Rows) /\ Loadable(g)
    BY DEF Mapping
  <2>2. Len(g) \in Nat /\ DOMAIN g = 1..Len(g)
    BY <2>1
  <2>3. g \in [1..Len(g) -> R]
    BY <1>1, <2>1, <2>2, SMTT(30)
  <2>4. \A i, j \in 1..Len(g) : g[i] = g[j] => i = j
    BY <2>1, <2>2 DEF Loadable
  <2>5. \A y \in R : \E i \in 1..Len(g) : g[i] = y
    BY <1>1, <2>2
  <2>6. g \in Bijection(1..Len(g), R)
    BY <2>3, <2>4, <2>5, Fun_IsBij
  <2>7. ExistsBijection(1..Len(g), R)
    BY <2>6 DEF ExistsBijection
  <2>. QED
    BY <2>2, <2>7, FS_CountingElements, FS_NatBijection
<1>2. {t[i] : i \in DOMAIN t} = R
  BY DEF Matches
<1>. QED
  BY <1>1, <1>2

\* A row differs from what getRN says of its number just if the mapping has no
\* such row.
LEMMA DiffersIffWrong ==
  ASSUME TypeOK, NEW i \in DOMAIN file, file[i].form = "row"
  PROVE  Differs(file[i].key, file[i].value) <=> Wrong(i)
<1>1. snap \in Seq(Rows) /\ Loadable(snap)
  BY DEF TypeOK, Mapping
<1>2. file[i] \in AnyLine
  BY DEF TypeOK
<1>3. (\A k \in Keys : Short(k).form # "row") /\ Bad.form # "row"
  BY DEF Short, Bad
<1>4. file[i] \in Rows
  BY <1>2, <1>3 DEF AnyLine
<1>5. PICK k \in Keys, v \in Values : file[i] = [form |-> "row", key |-> k, value |-> v]
  BY <1>4 DEF Rows, Row
<1>6. file[i].key = k /\ file[i].value = v
  BY <1>5
<1>7. \A j \in DOMAIN snap : snap[j] = file[i] <=> snap[j].key = k /\ snap[j].value = v
  <2>. SUFFICES ASSUME NEW j \in DOMAIN snap
                PROVE  snap[j] = file[i] <=> snap[j].key = k /\ snap[j].value = v
    OBVIOUS
  <2>1. snap[j] \in Rows
    BY <1>1
  <2>2. PICK k1 \in Keys, v1 \in Values : snap[j] = [form |-> "row", key |-> k1, value |-> v1]
    BY <2>1 DEF Rows, Row
  <2>. QED
    BY <1>5, <2>2
<1>8. CASE \E j \in DOMAIN snap : snap[j].key = k
  <2>1. PICK j \in DOMAIN snap : snap[j].key = k
    BY <1>8
  <2>2. \A m \in DOMAIN snap : snap[m].key = k => m = j
    BY <1>1, <2>1 DEF Loadable
  <2>3. getRN(k) = snap[j].value
    BY <1>8, <2>1, <2>2 DEF getRN
  <2>. QED
    BY <1>6, <1>7, <2>1, <2>2, <2>3 DEF Differs, Wrong
<1>9. CASE ~\E j \in DOMAIN snap : snap[j].key = k
  <2>1. getRN(k) = NONE
    BY <1>9 DEF getRN
  <2>. QED
    BY <1>6, <1>7, <1>9, <2>1, VerifyDumpAssumption DEF Differs, Wrong
<1>. QED
  BY <1>8, <1>9

\* Seeing one more line adds one wrong row at most, and none if it is not wrong.
LEMMA OneMoreWrong ==
  ASSUME NEW n \in Nat
  PROVE  /\ Cardinality(WrongUpTo(n)) \in Nat /\ Cardinality(WrongUpTo(n + 1)) \in Nat
         /\ Cardinality(WrongUpTo(n + 1)) <= Cardinality(WrongUpTo(n)) + 1
         /\ ~Wrong(n + 1) => Cardinality(WrongUpTo(n + 1)) = Cardinality(WrongUpTo(n))
<1>1. IsFiniteSet(1..n)
  BY FS_Interval
<1>2. WrongUpTo(n) \subseteq 1..n
  BY DEF WrongUpTo
<1>3. IsFiniteSet(WrongUpTo(n))
  BY <1>1, <1>2, FS_Subset
<1>4. \A i : i \in 1..(n + 1) <=> i \in 1..n \/ i = n + 1
  OBVIOUS
<1>5. CASE Wrong(n + 1)
  <2>1. WrongUpTo(n + 1) = WrongUpTo(n) \cup {n + 1}
    BY <1>4, <1>5 DEF WrongUpTo
  <2>2. n + 1 \notin WrongUpTo(n)
    BY <1>2
  <2>3. Cardinality(WrongUpTo(n) \cup {n + 1}) = Cardinality(WrongUpTo(n)) + 1
    BY <1>3, <2>2, FS_AddElement
  <2>4. Cardinality(WrongUpTo(n)) \in Nat
    BY <1>3, FS_CardinalityType
  <2>5. Cardinality(WrongUpTo(n + 1)) = Cardinality(WrongUpTo(n)) + 1
    BY <2>1, <2>3, Zenon
  <2>. QED
    BY <1>5, <2>4, <2>5
<1>6. CASE ~Wrong(n + 1)
  <2>1. WrongUpTo(n + 1) = WrongUpTo(n)
    BY <1>4, <1>6 DEF WrongUpTo
  <2>2. Cardinality(WrongUpTo(n)) \in Nat
    BY <1>3, FS_CardinalityType
  <2>. QED
    BY <1>6, <2>1, <2>2
<1>. QED
  BY <1>5, <1>6

\* A file that lists the mapping has no wrong row.
LEMMA MatchIsNotWrong ==
  ASSUME TypeOK, Matches(file, snap), NEW i \in DOMAIN file
  PROVE  file[i].form = "row" /\ ~Wrong(i)
<1>1. file[i].form = "row"
  BY DEF Matches, Loadable
<1>2. file[i] \in {snap[j] : j \in DOMAIN snap}
  BY DEF Matches
<1>. QED
  BY <1>1, <1>2 DEF Wrong

-----------------------------------------------------------------------------
(* Every action preserves the invariant.                                   *)

\* Nothing runs at the start.
LEMMA InitIInv == Init => IInv
<1>. SUFFICES ASSUME Init PROVE IInv
  OBVIOUS
<1>1. current \in Mapping
  BY TablesAreMappings DEF Init
<1>2. PICK m \in 0..MaxFile : file \in [1..m -> Lines]
  BY DEF Init, SeqsUpTo
<1>3. file \in Seq(AnyLine)
  <2>1. Lines \subseteq AnyLine
    BY DEF Lines, AnyLine
  <2>2. file \in Seq(Lines)
    BY <1>2, VerifyDumpAssumption
  <2>. QED
    BY <2>1, <2>2
<1>4. TypeOK
  BY <1>1, <1>3, VerifyDumpAssumption DEF Init, TypeOK
<1>. QED
  BY <1>4 DEF Init, IInv, Dumped, Counted

\* A reload leaves the mapping a command has taken alone.
LEMMA ReloadStep ==
  ASSUME IInv, Reload
  PROVE  IInv'
<1>1. current' \in Mapping
  BY TablesAreMappings, LoadableIsMapping DEF Reload, IInv, TypeOK
<1>. QED
  BY <1>1 DEF Reload, IInv, TypeOK, Dumped, Counted, WrongUpTo, Wrong

\* A dump begins with an empty file.
LEMMA StartDumpStep ==
  ASSUME IInv, StartDump
  PROVE  IInv'
<1>1. TypeOK'
  BY DEF StartDump, IInv, TypeOK
<1>2. Len(snap') \in Nat
  BY <1>1 DEF TypeOK, Mapping
<1>3. Dumped'
  BY <1>2 DEF StartDump, Dumped
<1>. QED
  BY <1>1, <1>3 DEF StartDump, IInv, Counted

\* A dump writes the next row of its mapping.
LEMMA DumpRowStep ==
  ASSUME IInv, DumpRow
  PROVE  IInv'
<1>1. /\ snap \in Seq(Rows) /\ Len(snap) \in Nat /\ DOMAIN snap = 1..Len(snap)
      /\ nrows \in Nat /\ file \in Seq(AnyLine)
  BY DEF IInv, TypeOK, Mapping
<1>2. /\ pc = "dump" /\ nrows < Len(snap) /\ file' = Append(file, snap[nrows + 1])
      /\ nrows' = nrows + 1 /\ UNCHANGED <<current, snap, newline, pc, maxdiff, result>>
  BY DEF DumpRow
<1>3. snap[nrows + 1] \in AnyLine
  BY <1>1, <1>2 DEF AnyLine
<1>4. TypeOK'
  BY <1>1, <1>2, <1>3 DEF IInv, TypeOK
<1>5. newline /\ Len(file) = nrows /\ \A i \in 1..nrows : file[i] = snap[i]
  BY <1>2 DEF IInv, Dumped
<1>6. Dumped'
  BY <1>1, <1>2, <1>5 DEF Dumped
<1>. QED
  BY <1>2, <1>4, <1>6 DEF IInv, Counted

\* The command is over: nothing is claimed of an idle one.
LEMMA ReturnStep ==
  ASSUME IInv, UNCHANGED <<current, snap, file, newline, nrows, maxdiff>>, pc' = "idle"
  PROVE  IInv'
BY DEF IInv, TypeOK, Dumped, Counted

\* A verify begins with nothing counted.
LEMMA StartVerifyStep ==
  ASSUME IInv, StartVerify
  PROVE  IInv'
<1>1. TypeOK'
  BY VerifyDumpAssumption DEF StartVerify, IInv, TypeOK
<1>2. Counted'
  <2>1. Cardinality({}) = 0
    BY FS_EmptySet
  <2>2. Len(file) \in Nat
    BY DEF IInv, TypeOK
  <2>3. nrows' = 0 /\ maxdiff' = MaxDiff /\ file' = file
    BY DEF StartVerify
  <2>4. WrongUpTo(nrows)' = {}
    BY <2>3 DEF WrongUpTo
  <2>5. Cardinality(WrongUpTo(nrows))' = 0
    BY <2>1, <2>4, Zenon
  <2>. QED
    BY <2>2, <2>3, <2>5, VerifyDumpAssumption DEF Counted
<1>. QED
  BY <1>1, <1>2 DEF StartVerify, IInv, Dumped

\* What verify makes of a line that can be split.
LEMMA VerifyRowFacts ==
  ASSUME IInv, VerifyRow, file[nrows + 1].form # "bad"
  PROVE  /\ nrows + 1 \in DOMAIN file /\ nrows' = nrows + 1
         /\ \/ /\ maxdiff' = maxdiff - 1
               /\ ~Matches(file, snap)
               /\ IF maxdiff' = 0 THEN pc' = "idle" /\ result' = "F" ELSE pc' = pc
            \/ /\ maxdiff' = maxdiff /\ pc' = pc
               /\ ~Wrong(nrows + 1)
<1>. DEFINE line == file[nrows + 1]
<1>1. nrows + 1 \in DOMAIN file
  BY DEF IInv, TypeOK, VerifyRow
<1>2. PICK v \in Value(line) :
        IF Differs(line.key, v)
        THEN /\ maxdiff' = maxdiff - 1
             /\ IF maxdiff' = 0 THEN pc' = "idle" /\ result' = "F" ELSE pc' = pc
        ELSE maxdiff' = maxdiff /\ pc' = pc
  BY DEF VerifyRow, Return
<1>3. nrows' = nrows + 1
  BY DEF VerifyRow
<1>4. CASE line.form = "row"
  <2>1. v = line.value
    BY <1>2, <1>4 DEF Value
  <2>2. Differs(line.key, v) <=> Wrong(nrows + 1)
    BY <1>1, <1>4, <2>1, DiffersIffWrong DEF IInv
  <2>3. Wrong(nrows + 1) => ~Matches(file, snap)
    BY <1>1, MatchIsNotWrong DEF IInv
  <2>. QED
    BY <1>1, <1>2, <1>3, <2>2, <2>3
<1>5. CASE line.form # "row"
  <2>1. ~Wrong(nrows + 1) /\ ~Matches(file, snap)
    BY <1>1, <1>5, MatchIsNotWrong DEF Wrong, IInv
  <2>. QED
    BY <1>1, <1>2, <1>3, <2>1
<1>. QED
  BY <1>4, <1>5

\* A verify counts the rows that differ.
LEMMA VerifyRowStep ==
  ASSUME IInv, VerifyRow
  PROVE  IInv'
<1>1. UNCHANGED <<current, snap, file, newline>> /\ pc = "verify"
  BY DEF VerifyRow
<1>2. CASE file[nrows + 1].form = "bad"
  BY <1>1, <1>2, ReturnStep DEF VerifyRow, Return
<1>3. CASE file[nrows + 1].form # "bad"
  <2>1. /\ nrows + 1 \in DOMAIN file /\ nrows' = nrows + 1
        /\ \/ /\ maxdiff' = maxdiff - 1
              /\ ~Matches(file, snap)
              /\ IF maxdiff' = 0 THEN pc' = "idle" /\ result' = "F" ELSE pc' = pc
           \/ /\ maxdiff' = maxdiff /\ pc' = pc
              /\ ~Wrong(nrows + 1)
    BY <1>3, VerifyRowFacts
  <2>2. nrows \in Nat /\ maxdiff \in Nat /\ maxdiff > 0 /\ nrows + 1 <= Len(file)
    BY <1>1, <2>1 DEF IInv, TypeOK, Counted
  <2>3. TypeOK'
    BY <1>1, <2>1, <2>2 DEF IInv, TypeOK
  <2>4. /\ Cardinality(WrongUpTo(nrows)) \in Nat /\ Cardinality(WrongUpTo(nrows + 1)) \in Nat
        /\ Cardinality(WrongUpTo(nrows + 1)) <= Cardinality(WrongUpTo(nrows)) + 1
        /\ ~Wrong(nrows + 1) =>
             Cardinality(WrongUpTo(nrows + 1)) = Cardinality(WrongUpTo(nrows))
    BY <2>2, OneMoreWrong
  <2>5. /\ Cardinality(WrongUpTo(nrows)) + maxdiff <= MaxDiff
        /\ Matches(file, snap) => maxdiff = MaxDiff
    BY <1>1 DEF IInv, Counted
  <2>6. WrongUpTo(nrows)' = WrongUpTo(nrows + 1) /\ (Matches(file, snap)' <=> Matches(file, snap))
    BY <1>1, <2>1 DEF WrongUpTo, Wrong, Matches
  <2>7. Counted'
    BY <1>1, <2>1, <2>2, <2>4, <2>5, <2>6, VerifyDumpAssumption DEF Counted
  <2>8. Dumped'
    BY <1>1, <2>1 DEF Dumped
  <2>. QED
    BY <2>3, <2>7, <2>8 DEF IInv
<1>. QED
  BY <1>2, <1>3

\* Every step keeps the invariant.
LEMMA StepIInv == IInv /\ [Next]_vars => IInv'
<1>. SUFFICES ASSUME IInv, [Next]_vars PROVE IInv'
  OBVIOUS
<1>1. CASE DumpEnd \/ DumpFails \/ VerifyEnd
  BY <1>1, ReturnStep DEF DumpEnd, DumpFails, VerifyEnd, Return
<1>2. CASE UNCHANGED vars
  BY <1>2 DEF vars, IInv, TypeOK, Dumped, Counted, WrongUpTo, Wrong
<1>. QED
  BY <1>1, <1>2, ReloadStep, StartDumpStep, DumpRowStep, StartVerifyStep, VerifyRowStep
  DEF Next, Command

-----------------------------------------------------------------------------
(* The theorems.                                                           *)

\* The inductive invariant holds in every state.
THEOREM Invariance == Spec => []IInv
BY InitIInv, StepIInv, PTL DEF Spec

\* Whatever is reloaded meanwhile and however long the files are, verify accepts a
\* file of terminated lines that lists the mapping it took.
THEOREM MatchesAreAccepted == Spec => MatchIsNeverRefused
<1>1. ASSUME IInv, [Next]_vars, pc = "verify", pc' = "idle", newline, Matches(file, snap)
      PROVE  result' = "S"
  <2>1. VerifyRow \/ VerifyEnd
    BY <1>1 DEF Next, Command, StartDump, StartVerify, DumpRow, DumpEnd, DumpFails, Reload, vars
  <2>2. ASSUME VerifyRow PROVE FALSE
    <3>1. nrows + 1 \in DOMAIN file
      BY <1>1, <2>2 DEF IInv, TypeOK, VerifyRow
    <3>2. file[nrows + 1].form = "row" /\ ~Wrong(nrows + 1)
      BY <1>1, <3>1, MatchIsNotWrong DEF IInv
    <3>. QED
      BY <1>1, <2>2, <3>2, VerifyRowFacts
  <2>3. CASE VerifyEnd
    <3>1. Len(file) = Len(snap)
      BY <1>1, MatchesHaveSameLength, LoadableIsMapping DEF IInv, TypeOK, Matches
    <3>. QED
      BY <1>1, <2>3, <3>1 DEF VerifyEnd, Return, EndOfFileThrows
  <2>. QED
    BY <2>1, <2>2, <2>3
<1>2. IInv /\ [Next]_vars =>
        [pc = "verify" /\ pc' = "idle" /\ newline /\ Matches(file, snap) => result' = "S"]_vars
  BY <1>1
<1>. QED
  BY <1>2, Invariance, PTL DEF Spec, MatchIsNeverRefused

\* A dump that succeeds has written the mapping it took, row for row, whatever was
\* put in service since.
THEOREM DumpsAreSnapshots == Spec => DumpIsSnapshot
<1>1. ASSUME IInv, [Next]_vars, pc = "dump", pc' = "idle", result' = "S"
      PROVE  newline' /\ Matches(file', snap)
  <2>1. DumpEnd
    BY <1>1 DEF Next, Command, StartDump, StartVerify, DumpRow, DumpFails, VerifyRow, VerifyEnd,
                Reload, Return, vars
  <2>2. /\ newline' /\ file' = file /\ Len(file) = Len(snap)
        /\ \A i \in 1..Len(snap) : file[i] = snap[i]
    BY <1>1, <2>1 DEF IInv, Dumped, DumpEnd
  <2>3. snap \in Seq(Rows) /\ Loadable(snap) /\ file \in Seq(AnyLine)
    BY <1>1 DEF IInv, TypeOK, Mapping
  <2>4. file = snap
    BY <2>2, <2>3
  <2>. QED
    BY <2>2, <2>3, <2>4 DEF Matches
<1>2. IInv /\ [Next]_vars =>
        [pc = "dump" /\ pc' = "idle" /\ result' = "S" => newline' /\ Matches(file', snap)]_vars
  BY <1>1
<1>. QED
  BY <1>2, Invariance, PTL DEF Spec, DumpIsSnapshot

\* A file that verify accepts has the size of the mapping it took and fewer than
\* MaxDiff wrong rows.
THEOREM AcceptedFilesAreClose == Spec => AcceptedIsClose
<1>1. ASSUME IInv, [Next]_vars, pc = "verify", pc' = "idle", result' = "S"
      PROVE  /\ Len(file) = Len(snap)
             /\ Cardinality({i \in DOMAIN file :
                  file[i].form = "row" /\ ~\E j \in DOMAIN snap : snap[j] = file[i]}) < MaxDiff
  <2>1. VerifyRow \/ VerifyEnd
    BY <1>1 DEF Next, Command, StartDump, StartVerify, DumpRow, DumpEnd, DumpFails, Reload, vars
  <2>2. ~VerifyRow
    <3>1. ASSUME VerifyRow, file[nrows + 1].form # "bad" PROVE FALSE
      BY <1>1, <3>1, VerifyRowFacts
    <3>2. ASSUME VerifyRow, file[nrows + 1].form = "bad" PROVE FALSE
      BY <1>1, <3>2 DEF VerifyRow, Return
    <3>. QED
      BY <3>1, <3>2
  <2>3. nrows = Len(file) /\ Len(file) = Len(snap)
    BY <1>1, <2>1, <2>2 DEF VerifyEnd, Return
  <2>4. WrongUpTo(nrows) = {i \in DOMAIN file :
          file[i].form = "row" /\ ~\E j \in DOMAIN snap : snap[j] = file[i]}
    BY <1>1, <2>3 DEF WrongUpTo, Wrong, IInv, TypeOK
  <2>5. Cardinality(WrongUpTo(nrows)) \in Nat
    BY <1>1, OneMoreWrong DEF IInv, TypeOK
  <2>6. Cardinality(WrongUpTo(nrows)) < MaxDiff
    BY <1>1, <2>5, VerifyDumpAssumption DEF IInv, TypeOK, Counted
  <2>. QED
    BY <2>3, <2>4, <2>6
<1>2. IInv /\ [Next]_vars =>
        [pc = "verify" /\ pc' = "idle" /\ result' = "S" =>
           /\ Len(file) = Len(snap)
           /\ Cardinality({i \in DOMAIN file :
                file[i].form = "row" /\ ~\E j \in DOMAIN snap : snap[j] = file[i]}) < MaxDiff]_vars
  BY <1>1
<1>. QED
  BY <1>2, Invariance, PTL DEF Spec, AcceptedIsClose

=============================================================================
