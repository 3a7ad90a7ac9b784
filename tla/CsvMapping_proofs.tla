------------------------- MODULE CsvMapping_proofs -------------------------
(***************************************************************************)
(* Proofs about CsvMapping and TableRows for files of any length, any base *)
(* of the digits and any number of threads: what is in service is what the *)
(* lines of one unbroken file say, and every lookup finds the record of    *)
(* the number it is asked for.                                             *)
(***************************************************************************)
EXTENDS CsvMapping, FiniteSetTheorems, SequenceTheorems, WellFoundedInduction, TLAPS

-----------------------------------------------------------------------------
(* Numbers and their digits.                                               *)

\* Division with remainder.
LEMMA Division ==
  ASSUME NEW n \in Nat, NEW b \in Nat \ {0}
  PROVE  \E q \in Nat, r \in 0..b-1 : q = n \div b /\ r = n % b /\ n = b * q + r
<1>1. PICK q \in Nat, r \in 0..b-1 : q = n \div b /\ r = n % b
  OBVIOUS
<1>2. n = b * q + r
  BY <1>1
<1>. QED
  BY <1>1, <1>2

\* Quotient and remainder are the only ones.
LEMMA Quotient ==
  ASSUME NEW b \in Nat \ {0}, NEW q \in Nat, NEW r \in 0..b-1
  PROVE  (b * q + r) \div b = q /\ (b * q + r) % b = r
OBVIOUS

\* Cutting digits twice is cutting them at once.
LEMMA DivisionTwice ==
  ASSUME NEW n \in Nat, NEW b \in Nat \ {0}, NEW c \in Nat \ {0}
  PROVE  n \div (b * c) = (n \div b) \div c
OBVIOUS

\* Weights are numbers.
LEMMA Weights ==
  /\ Base \in Nat \ {0, 1} /\ Base * Base \in Nat \ {0} /\ Base * Base * Base \in Nat \ {0}
  /\ Weight[1] = Base * Base * Base /\ Weight[2] = Base * Base /\ Weight[3] = Base
  /\ Weight[4] = 1
BY RowsAssumption DEF Weight

\* What is left of a number when digits are cut off at the right.
LEMMA Cuts ==
  ASSUME NEW n \in Numbers
  PROVE  \E a \in Digit, b \in Digit, c \in Digit, d \in Digit :
           /\ n \div Weight[1] = a
           /\ n \div Weight[2] = Base * a + b
           /\ n \div Weight[3] = Base * (Base * a + b) + c
           /\ n \div Weight[4] = n /\ n = Base * (Base * (Base * a + b) + c) + d
           /\ Digits(n) = <<a, b, c, d>>
<1>1. Base \in Nat \ {0} /\ n \in Nat /\ n < Base * (Base * Base * Base)
  BY Weights DEF Numbers
<1>2. PICK x \in Nat, d \in 0..Base-1 : x = n \div Base /\ d = n % Base /\ n = Base * x + d
  BY <1>1, Division
<1>3. PICK y \in Nat, c \in 0..Base-1 : y = x \div Base /\ c = x % Base /\ x = Base * y + c
  BY <1>1, Division
<1>4. PICK a \in Nat, b \in 0..Base-1 : a = y \div Base /\ b = y % Base /\ y = Base * a + b
  BY <1>1, Division
<1>5. n \div Weight[3] = x /\ n \div Weight[4] = n
  BY <1>1, <1>2, Weights
<1>6. n \div Weight[2] = y
  BY <1>1, <1>2, <1>3, Weights, DivisionTwice
<1>7. n \div Weight[1] = a
  <2>1. n \div Weight[1] = (n \div (Base * Base)) \div Base
    BY <1>1, Weights, DivisionTwice
  <2>. QED
    BY <1>4, <1>6, <2>1, Weights
<1>8. a < Base
  <2>1. Base * (Base * (Base * a)) <= n
    <3>1. Base * a <= y /\ Base * a \in Nat
      BY <1>1, <1>4
    <3>2. Base * (Base * a) <= Base * y /\ Base * (Base * a) \in Nat
      BY <1>1, <3>1
    <3>3. Base * y <= x
      BY <1>1, <1>3
    <3>4. Base * (Base * a) <= x
      BY <1>1, <3>2, <3>3
    <3>5. Base * (Base * (Base * a)) <= Base * x
      BY <1>1, <3>2, <3>4
    <3>. QED
      BY <1>1, <1>2, <3>2, <3>5
  <2>2. SUFFICES ASSUME a >= Base PROVE FALSE
    BY <1>1
  <2>3. Base * a >= Base * Base
    BY <1>1, <2>2
  <2>4. Base * (Base * a) >= Base * (Base * Base)
    BY <1>1, <2>3
  <2>5. Base * (Base * (Base * a)) >= Base * (Base * (Base * Base))
    BY <1>1, <2>4
  <2>6. Base * (Base * (Base * Base)) = Base * (Base * Base * Base)
    BY <1>1
  <2>. QED
    BY <1>1, <2>1, <2>5, <2>6
<1>9. a \in Digit /\ b \in Digit /\ c \in Digit /\ d \in Digit
  BY <1>1, <1>8 DEF Digit
<1>10. a % Base = a
  BY <1>1, <1>8
<1>11. Digits(n) = <<a, b, c, d>>
  <2>1. Digits(n)[1] = a
    BY <1>7, <1>10 DEF Digits
  <2>2. Digits(n)[2] = b
    BY <1>4, <1>6 DEF Digits
  <2>3. Digits(n)[3] = c
    BY <1>3, <1>5 DEF Digits
  <2>4. Digits(n)[4] = d
    BY <1>2, <1>5 DEF Digits
  <2>. QED
    BY <2>1, <2>2, <2>3, <2>4 DEF Digits
<1>12. n = Base * (Base * (Base * a + b) + c) + d
  BY <1>2, <1>3, <1>4
<1>13. n \div Weight[2] = Base * a + b /\ n \div Weight[3] = Base * (Base * a + b) + c
  BY <1>3, <1>4, <1>5, <1>6
<1>. QED
  BY <1>5, <1>7, <1>9, <1>11, <1>12, <1>13, Zenon

\* A digit put behind a number can be told from it.
LEMMA LastDigit ==
  ASSUME NEW a \in Nat, NEW b \in Digit, NEW c \in Nat, NEW d \in Digit
  PROVE  Base * a + b = Base * c + d <=> a = c /\ b = d
<1>1. Base \in Nat \ {0} /\ b \in 0..Base-1 /\ d \in 0..Base-1
  BY Weights DEF Digit
<1>2. Base * a + b = Base * c + d => a = c /\ b = d
  BY <1>1, Quotient
<1>. QED
  BY <1>2

\* Two numbers start with the same digits if they are the same when the others
\* are cut off.
LEMMA SameStart ==
  ASSUME NEW m \in Numbers, NEW n \in Numbers, NEW i \in 1..4
  PROVE  m \div Weight[i] = n \div Weight[i] <=> \A j \in 1..i : Digits(m)[j] = Digits(n)[j]
<1>1. PICK a \in Digit, b \in Digit, c \in Digit, d \in Digit :
        /\ m \div Weight[1] = a
        /\ m \div Weight[2] = Base * a + b
        /\ m \div Weight[3] = Base * (Base * a + b) + c
        /\ m \div Weight[4] = m /\ m = Base * (Base * (Base * a + b) + c) + d
        /\ Digits(m) = <<a, b, c, d>>
  BY Cuts
<1>2. PICK p \in Digit, q \in Digit, r \in Digit, s \in Digit :
        /\ n \div Weight[1] = p
        /\ n \div Weight[2] = Base * p + q
        /\ n \div Weight[3] = Base * (Base * p + q) + r
        /\ n \div Weight[4] = n /\ n = Base * (Base * (Base * p + q) + r) + s
        /\ Digits(n) = <<p, q, r, s>>
  BY Cuts
<1>3. /\ a \in Nat /\ p \in Nat /\ b \in Nat /\ q \in Nat /\ c \in Nat /\ r \in Nat
      /\ Base * a + b \in Nat /\ Base * p + q \in Nat
      /\ Base * (Base * a + b) + c \in Nat /\ Base * (Base * p + q) + r \in Nat
  BY Weights DEF Digit
<1>4. Base * a + b = Base * p + q <=> a = p /\ b = q
  BY <1>3, LastDigit
<1>5. Base * (Base * a + b) + c = Base * (Base * p + q) + r <=> Base * a + b = Base * p + q /\ c = r
  BY <1>3, LastDigit
<1>6. m = n <=> Base * (Base * a + b) + c = Base * (Base * p + q) + r /\ d = s
  BY <1>1, <1>2, <1>3, LastDigit
<1>7. /\ Digits(m)[1] = a /\ Digits(m)[2] = b /\ Digits(m)[3] = c /\ Digits(m)[4] = d
      /\ Digits(n)[1] = p /\ Digits(n)[2] = q /\ Digits(n)[3] = r /\ Digits(n)[4] = s
  BY <1>1, <1>2
<1>8. CASE i = 1
  <2>1. \A j : j \in 1..i <=> j = 1
    BY <1>8
  <2>. QED
    BY <1>1, <1>2, <1>7, <1>8, <2>1
<1>9. CASE i = 2
  <2>1. \A j : j \in 1..i <=> j = 1 \/ j = 2
    BY <1>9
  <2>. QED
    BY <1>1, <1>2, <1>4, <1>7, <1>9, <2>1
<1>10. CASE i = 3
  <2>1. \A j : j \in 1..i <=> j = 1 \/ j = 2 \/ j = 3
    BY <1>10
  <2>. QED
    BY <1>1, <1>2, <1>4, <1>5, <1>7, <1>10, <2>1
<1>11. CASE i = 4
  <2>1. \A j : j \in 1..i <=> j = 1 \/ j = 2 \/ j = 3 \/ j = 4
    BY <1>11
  <2>2. m = n <=> a = p /\ b = q /\ c = r /\ d = s
    BY <1>4, <1>5, <1>6
  <2>3. (\A j \in 1..i : Digits(m)[j] = Digits(n)[j]) <=> a = p /\ b = q /\ c = r /\ d = s
    BY <1>7, <2>1
  <2>. QED
    BY <1>1, <1>2, <1>11, <2>2, <2>3
<1>. QED
  BY <1>8, <1>9, <1>10, <1>11

\* The leading digits of a number spell what is left when the others are cut off.
LEMMA StartsWithCut ==
  ASSUME NEW n \in Numbers, NEW i \in 1..4, NEW key
  PROVE  StartsWith(n, i, key) <=> n \div Weight[i] = key
BY SameStart DEF StartsWith

-----------------------------------------------------------------------------
(* The inductive invariant: a Builder holds the rows of the lines read so  *)
(* far, and what is in service holds the rows of a whole file.             *)

\* The rows among the first l lines, and those for one dictionary.
RowsUpTo(k, f, l) == {i \in 1..l : Outcome(k, f[i]).is = "row"}
Place(k, line) == IF k = "lerg" THEN Dict(line) ELSE "all"
RowsIn(k, f, l, p) == {i \in RowsUpTo(k, f, l) : Place(k, f[i]) = p}

KeyAt(k, f, i) == Outcome(k, f[i]).key
KeysIn(k, f, l, p) == {KeyAt(k, f, i) : i \in RowsIn(k, f, l, p)}

\* The first l lines are read without an error.
Clean(k, f, l) ==
  /\ \A i \in 1..l : Outcome(k, f[i]).is \in {"skip", "row"}
  /\ \A i, j \in RowsUpTo(k, f, l) :
       Place(k, f[i]) = Place(k, f[j]) /\ KeyAt(k, f, i) = KeyAt(k, f, j) => i = j
  /\ k \notin DnoKinds => Cardinality(RowsUpTo(k, f, l)) <= MAXROWS

\* The record made of line i.
RecordOf(k, f, i) ==
  IF k = "lerg" THEN [lerg_key |-> KeyAt(k, f, i), row |-> i]
  ELSE [row |-> i, garbage |-> Outcome(k, f[i]).past]

\* A dictionary, the sets of DNO and the dictionaries of LERG after l lines.
DictHas(dict, k, f, l, p) ==
  /\ DOMAIN dict = KeysIn(k, f, l, p)
  /\ \A i \in RowsIn(k, f, l, p) : dict[KeyAt(k, f, i)] = RecordOf(k, f, i)
DnoHas(sets, k, f, l) ==
  sets = [dk \in DnoKinds |-> IF dk = k THEN KeysIn(k, f, l, "all") ELSE {}]
LergHas(dicts, f, l) ==
  /\ dicts = [d \in {"block", "exchange"} |-> dicts[d]]
  /\ \A d \in {"block", "exchange"} : DictHas(dicts[d], "lerg", f, l, d)

BuilderHas(b, k, f, l) ==
  /\ b = [dno |-> b.dno, lerg |-> b.lerg, table |-> b.table, meta |-> <<k, f>>]
  /\ k \in DnoKinds => DnoHas(b.dno, k, f, l)
  /\ k = "lerg" => LergHas(b.lerg, f, l)
  /\ k \in TableKinds => DictHas(b.table, k, f, l, "all")

\* Every variable that is a function has its domain.
Shape ==
  /\ job = [t \in Threads |-> job[t]] /\ builder = [t \in Threads |-> builder[t]]
  /\ tables = [k \in TableKinds |-> tables[k]] /\ meta = [m \in Mappings |-> meta[m]]

\* Thread t has read l lines of its file without an error, and its Builder holds
\* their rows.
HasRead(t, k, f, l) ==
  /\ job[t] = [kind |-> k, file |-> f, line |-> l + 1]
  /\ Clean(k, f, l) /\ BuilderHas(builder[t], k, f, l)
Loading ==
  \A t \in Threads : job[t] # NONE =>
    \E k \in Kinds : \E f \in Files[k] : \E l \in 0..Len(f) : HasRead(t, k, f, l)

\* What is in service is a file without an error.
DnoServed ==
  dno # NONE \/ meta["dno"] # NONE =>
    \E k \in DnoKinds : \E f \in Files[k] :
      meta["dno"] = <<k, f>> /\ Clean(k, f, Len(f)) /\ DnoHas(dno, k, f, Len(f))
LergServed ==
  lerg # NONE \/ meta["lerg"] # NONE =>
    \E f \in Files["lerg"] :
      meta["lerg"] = <<"lerg", f>> /\ Clean("lerg", f, Len(f)) /\ LergHas(lerg, f, Len(f))
TableServed(k) ==
  tables[k] # NONE \/ meta[k] # NONE =>
    \E f \in Files[k] :
      meta[k] = <<k, f>> /\ Clean(k, f, Len(f)) /\ DictHas(tables[k], k, f, Len(f), "all")
TablesServed == \A k \in TableKinds : TableServed(k)

IInv == Shape /\ Loading /\ DnoServed /\ LergServed /\ TablesServed

-----------------------------------------------------------------------------
(* One more line.                                                          *)

\* A file has a number of lines.
LEMMA FilesAreFinite ==
  ASSUME NEW k \in Kinds, NEW f \in Files[k]
  PROVE  Len(f) \in Nat /\ DOMAIN f = 1..Len(f)
<1>1. CASE k \in DnoKinds
  BY <1>1, CsvAssumption
<1>2. CASE k = "lerg"
  BY <1>2, CsvAssumption
<1>3. CASE k \in TableKinds
  BY <1>3, CsvAssumption
<1>. QED
  BY <1>1, <1>2, <1>3 DEF Kinds

\* A line that is passed over adds no row.
LEMMA SkippedLine ==
  ASSUME NEW k, NEW f, NEW l \in Nat, Clean(k, f, l), Outcome(k, f[l + 1]).is = "skip"
  PROVE  /\ Clean(k, f, l + 1) /\ \A p : RowsIn(k, f, l + 1, p) = RowsIn(k, f, l, p)
<1>1. 1..(l + 1) = (1..l) \cup {l + 1}
  OBVIOUS
<1>2. RowsUpTo(k, f, l + 1) = RowsUpTo(k, f, l)
  BY <1>1 DEF RowsUpTo
<1>3. \A i \in 1..(l + 1) : Outcome(k, f[i]).is \in {"skip", "row"}
  BY <1>1 DEF Clean
<1>. QED
  BY <1>2, <1>3 DEF Clean, RowsIn

\* A Builder is not changed by a line that is passed over.
LEMMA SkippedLineBuilds ==
  ASSUME NEW k, NEW f, NEW l \in Nat, Clean(k, f, l), Outcome(k, f[l + 1]).is = "skip",
         NEW b, BuilderHas(b, k, f, l)
  PROVE  BuilderHas(b, k, f, l + 1)
<1>1. \A p : RowsIn(k, f, l + 1, p) = RowsIn(k, f, l, p)
  BY SkippedLine
<1>2. \A p : KeysIn(k, f, l + 1, p) = KeysIn(k, f, l, p)
  BY <1>1 DEF KeysIn
<1>. QED
  BY <1>1, <1>2 DEF BuilderHas, DnoHas, LergHas, DictHas

\* The rows of a file are finitely many.
LEMMA RowsAreFinite ==
  ASSUME NEW k, NEW f, NEW l \in Nat
  PROVE  /\ IsFiniteSet(RowsUpTo(k, f, l)) /\ Cardinality(RowsUpTo(k, f, l)) \in Nat
         /\ \A p : IsFiniteSet(RowsIn(k, f, l, p)) /\ Cardinality(RowsIn(k, f, l, p)) \in Nat
<1>1. IsFiniteSet(1..l)
  BY FS_Interval
<1>2. RowsUpTo(k, f, l) \subseteq 1..l /\ \A p : RowsIn(k, f, l, p) \subseteq 1..l
  BY DEF RowsUpTo, RowsIn
<1>. QED
  BY <1>1, <1>2, FS_Subset, FS_CardinalityType

\* A row with a new key that still fits.
LEMMA AddedLine ==
  ASSUME NEW k, NEW f, NEW l \in Nat, Clean(k, f, l), Outcome(k, f[l + 1]).is = "row",
         KeyAt(k, f, l + 1) \notin KeysIn(k, f, l, Place(k, f[l + 1])),
         k \notin DnoKinds => Cardinality(RowsUpTo(k, f, l)) < MAXROWS
  PROVE  /\ Clean(k, f, l + 1)
         /\ RowsIn(k, f, l + 1, Place(k, f[l + 1])) =
              RowsIn(k, f, l, Place(k, f[l + 1])) \cup {l + 1}
         /\ \A p : p # Place(k, f[l + 1]) => RowsIn(k, f, l + 1, p) = RowsIn(k, f, l, p)
<1>1. 1..(l + 1) = (1..l) \cup {l + 1} /\ l + 1 \notin 1..l
  OBVIOUS
<1>2. RowsUpTo(k, f, l + 1) = RowsUpTo(k, f, l) \cup {l + 1} /\ l + 1 \notin RowsUpTo(k, f, l)
  BY <1>1 DEF RowsUpTo
<1>3. \A i \in 1..(l + 1) : Outcome(k, f[i]).is \in {"skip", "row"}
  BY <1>1 DEF Clean
<1>4. \A i \in RowsUpTo(k, f, l) :
        Place(k, f[i]) = Place(k, f[l + 1]) => KeyAt(k, f, i) # KeyAt(k, f, l + 1)
  BY DEF KeysIn, RowsIn
<1>5. \A i, j \in RowsUpTo(k, f, l + 1) :
        Place(k, f[i]) = Place(k, f[j]) /\ KeyAt(k, f, i) = KeyAt(k, f, j) => i = j
  BY <1>2, <1>4 DEF Clean
<1>6. Cardinality(RowsUpTo(k, f, l + 1)) = Cardinality(RowsUpTo(k, f, l)) + 1
  BY <1>2, RowsAreFinite, FS_AddElement
<1>7. k \notin DnoKinds => Cardinality(RowsUpTo(k, f, l + 1)) <= MAXROWS
  BY <1>6, RowsAreFinite, CsvAssumption
<1>8. Clean(k, f, l + 1)
  BY <1>3, <1>5, <1>7 DEF Clean
<1>9. \A p : RowsIn(k, f, l + 1, p) =
               RowsIn(k, f, l, p) \cup (IF p = Place(k, f[l + 1]) THEN {l + 1} ELSE {})
  BY <1>2 DEF RowsIn
<1>. QED
  BY <1>8, <1>9

\* A dictionary with the record of the new row holds the rows up to it.
LEMMA InsertedRow ==
  ASSUME NEW k, NEW f, NEW l \in Nat, NEW p, NEW dict, DictHas(dict, k, f, l, p),
         KeyAt(k, f, l + 1) \notin KeysIn(k, f, l, p),
         RowsIn(k, f, l + 1, p) = RowsIn(k, f, l, p) \cup {l + 1}
  PROVE  DictHas(Insert(dict, KeyAt(k, f, l + 1), RecordOf(k, f, l + 1)), k, f, l + 1, p)
<1>. DEFINE key == KeyAt(k, f, l + 1)
            new == Insert(dict, key, RecordOf(k, f, l + 1))
<1>1. KeysIn(k, f, l + 1, p) = KeysIn(k, f, l, p) \cup {key}
  BY DEF KeysIn
<1>2. DOMAIN new = KeysIn(k, f, l + 1, p)
  BY <1>1 DEF Insert, DictHas
<1>3. \A i \in RowsIn(k, f, l, p) : new[KeyAt(k, f, i)] = RecordOf(k, f, i)
  BY <1>1 DEF Insert, DictHas, KeysIn
<1>4. new[key] = RecordOf(k, f, l + 1)
  BY DEF Insert
<1>. QED
  BY <1>2, <1>3, <1>4 DEF DictHas

\* A dictionary has as many keys as rows went into it.
LEMMA DictSize ==
  ASSUME NEW k, NEW f, NEW l \in Nat, NEW p, NEW dict, DictHas(dict, k, f, l, p), Clean(k, f, l)
  PROVE  Cardinality(DOMAIN dict) = Cardinality(RowsIn(k, f, l, p))
<1>. DEFINE g == [i \in RowsIn(k, f, l, p) |-> KeyAt(k, f, i)]
<1>1. g \in Bijection(RowsIn(k, f, l, p), DOMAIN dict)
  <2>1. g \in [RowsIn(k, f, l, p) -> DOMAIN dict]
    BY DEF DictHas, KeysIn
  <2>2. \A i, j \in RowsIn(k, f, l, p) : g[i] = g[j] => i = j
    BY DEF Clean, RowsIn
  <2>3. \A x \in DOMAIN dict : \E i \in RowsIn(k, f, l, p) : g[i] = x
    BY DEF DictHas, KeysIn
  <2>. QED
    BY <2>1, <2>2, <2>3 DEF Bijection, Injection, Surjection, IsInjective
<1>2. IsFiniteSet(RowsIn(k, f, l, p))
  BY RowsAreFinite
<1>. QED
  BY <1>1, <1>2, FS_Bijection DEF ExistsBijection

-----------------------------------------------------------------------------
(* Steps of a thread.                                                      *)

\* Nothing is loaded in a new process.
LEMMA FreshProcess ==
  /\ Fresh.dno = NONE /\ Fresh.lerg = NONE /\ Fresh.tables = [k \in TableKinds |-> NONE]
  /\ Fresh.meta = [m \in Mappings |-> NONE] /\ Fresh.job = [t \in Threads |-> NONE]
  /\ Fresh.builder = [t \in Threads |-> Empty]
BY DEF Fresh

\* The invariant holds before the first load.
LEMMA InitIInv == Init => IInv
<1>. SUFFICES ASSUME Init PROVE IInv
  OBVIOUS
<1>1. /\ dno = NONE /\ lerg = NONE /\ tables = [k \in TableKinds |-> NONE]
      /\ meta = [m \in Mappings |-> NONE] /\ job = [t \in Threads |-> NONE]
      /\ builder = [t \in Threads |-> Empty]
  BY FreshProcess DEF Init
<1>2. Shape
  BY <1>1 DEF Shape
<1>3. Loading
  BY <1>1 DEF Loading
<1>4. "dno" \in Mappings /\ "lerg" \in Mappings /\ TableKinds \subseteq Mappings
  BY DEF Mappings
<1>5. DnoServed /\ LergServed /\ TablesServed
  BY <1>1, <1>4 DEF DnoServed, LergServed, TablesServed, TableServed
<1>. QED
  BY <1>2, <1>3, <1>5 DEF IInv

\* A step of thread t leaves the other threads alone.
LEMMA ThreadStep ==
  ASSUME Shape, Loading, NEW t \in Threads, NEW j, NEW b,
         job' = [job EXCEPT ![t] = j], builder' = [builder EXCEPT ![t] = b],
         j # NONE =>
           \E k \in Kinds : \E f \in Files[k] : \E l \in 0..Len(f) :
             /\ j = [kind |-> k, file |-> f, line |-> l + 1]
             /\ Clean(k, f, l) /\ BuilderHas(b, k, f, l)
  PROVE  /\ job' = [u \in Threads |-> job'[u]] /\ builder' = [u \in Threads |-> builder'[u]]
         /\ Loading'
<1>1. /\ job' = [u \in Threads |-> job'[u]] /\ builder' = [u \in Threads |-> builder'[u]]
      /\ job'[t] = j /\ builder'[t] = b
      /\ \A u \in Threads : u # t => job'[u] = job[u] /\ builder'[u] = builder[u]
  BY DEF Shape
<1>. SUFFICES ASSUME NEW u \in Threads, job'[u] # NONE
              PROVE  \E k \in Kinds : \E f \in Files[k] : \E l \in 0..Len(f) : HasRead(u, k, f, l)'
  BY <1>1 DEF Loading
<1>2. CASE u = t
  BY <1>1, <1>2 DEF HasRead
<1>3. CASE u # t
  <2>1. PICK k \in Kinds : \E f \in Files[k] : \E l \in 0..Len(f) : HasRead(u, k, f, l)
    BY <1>1, <1>3 DEF Loading
  <2>2. PICK f \in Files[k] : \E l \in 0..Len(f) : HasRead(u, k, f, l)
    BY <2>1
  <2>3. PICK l \in 0..Len(f) : HasRead(u, k, f, l)
    BY <2>2
  <2>4. HasRead(u, k, f, l)'
    BY <1>1, <1>3, <2>3 DEF HasRead
  <2>. QED
    BY <2>4
<1>. QED
  BY <1>2, <1>3

\* If it does not commit, it leaves what is in service alone.
LEMMA LoadStep ==
  ASSUME IInv, UNCHANGED service, NEW t \in Threads, NEW j, NEW b,
         job' = [job EXCEPT ![t] = j], builder' = [builder EXCEPT ![t] = b],
         j # NONE =>
           \E k \in Kinds : \E f \in Files[k] : \E l \in 0..Len(f) :
             /\ j = [kind |-> k, file |-> f, line |-> l + 1]
             /\ Clean(k, f, l) /\ BuilderHas(b, k, f, l)
  PROVE  IInv'
<1>1. /\ job' = [u \in Threads |-> job'[u]] /\ builder' = [u \in Threads |-> builder'[u]]
      /\ Loading'
  BY ThreadStep DEF IInv
<1>2. dno' = dno /\ lerg' = lerg /\ tables' = tables /\ meta' = meta
  BY DEF service
<1>3. Shape'
  BY <1>1, <1>2 DEF IInv, Shape
<1>4. DnoServed' /\ LergServed' /\ TablesServed'
  BY <1>2 DEF IInv, DnoServed, LergServed, TablesServed, TableServed
<1>. QED
  BY <1>1, <1>3, <1>4 DEF IInv

\* No lines, no rows.
LEMMA NoRows ==
  ASSUME NEW k, NEW f
  PROVE  Clean(k, f, 0) /\ \A p : RowsIn(k, f, 0, p) = {} /\ KeysIn(k, f, 0, p) = {}
<1>1. RowsUpTo(k, f, 0) = {}
  BY DEF RowsUpTo
<1>2. Cardinality(RowsUpTo(k, f, 0)) <= MAXROWS
  <2>1. MAXROWS \in Nat
    BY CsvAssumption
  <2>2. Cardinality(RowsUpTo(k, f, 0)) = 0
    BY <1>1, FS_EmptySet
  <2>. QED
    BY <2>1, <2>2
<1>3. Clean(k, f, 0)
  BY <1>1, <1>2 DEF Clean
<1>. QED
  BY <1>1, <1>3 DEF RowsIn, KeysIn

\* A load starts with an empty Builder.
LEMMA StartLoadStep ==
  ASSUME IInv, NEW t \in Threads, NEW k \in Kinds, NEW f \in Files[k], StartLoad(t, k, f)
  PROVE  IInv'
<1>. DEFINE b == [Empty EXCEPT !.meta = <<k, f>>]
            j == [kind |-> k, file |-> f, line |-> 1]
<1>1. \A p : KeysIn(k, f, 0, p) = {} /\ RowsIn(k, f, 0, p) = {}
  BY NoRows
<1>2. /\ b.dno = [dk \in DnoKinds |-> {}] /\ b.lerg = [d \in {"block", "exchange"} |-> <<>>]
      /\ b.table = <<>> /\ b = [dno |-> b.dno, lerg |-> b.lerg, table |-> b.table, meta |-> <<k, f>>]
  <2>1. b = [dno |-> [dk \in DnoKinds |-> {}], lerg |-> [d \in {"block", "exchange"} |-> <<>>],
             table |-> <<>>, meta |-> <<k, f>>]
    <3>1. PICK w, x : w = [dk \in DnoKinds |-> {}] /\ x = [d \in {"block", "exchange"} |-> <<>>]
      OBVIOUS
    <3>2. Empty = [dno |-> w, lerg |-> x, table |-> <<>>, meta |-> NONE]
      BY <3>1 DEF Empty
    <3>3. b = [dno |-> w, lerg |-> x, table |-> <<>>, meta |-> <<k, f>>]
      BY <3>2
    <3>. QED
      BY <3>1, <3>3
  <2>. QED
    BY <2>1
<1>3. \A p : DictHas(<<>>, k, f, 0, p)
  BY <1>1 DEF DictHas
<1>4. BuilderHas(b, k, f, 0)
  <2>1. DnoHas(b.dno, k, f, 0)
    BY <1>1, <1>2 DEF DnoHas
  <2>2. k = "lerg" => LergHas(b.lerg, f, 0)
    <3>. SUFFICES ASSUME k = "lerg" PROVE LergHas(b.lerg, f, 0)
      OBVIOUS
    <3>1. b.lerg = [d \in {"block", "exchange"} |-> b.lerg[d]]
      BY <1>2
    <3>2. \A d \in {"block", "exchange"} : DictHas(b.lerg[d], "lerg", f, 0, d)
      BY <1>2, <1>3
    <3>. QED
      BY <3>1, <3>2 DEF LergHas
  <2>3. DictHas(b.table, k, f, 0, "all")
    BY <1>2, <1>3
  <2>. QED
    BY <1>2, <2>1, <2>2, <2>3 DEF BuilderHas
<1>5. 0 \in 0..Len(f) /\ j = [kind |-> k, file |-> f, line |-> 0 + 1]
  BY FilesAreFinite
<1>6. Clean(k, f, 0)
  BY NoRows
<1>7. \E kk \in Kinds : \E ff \in Files[kk] : \E l \in 0..Len(ff) :
        j = [kind |-> kk, file |-> ff, line |-> l + 1] /\ Clean(kk, ff, l) /\ BuilderHas(b, kk, ff, l)
  BY <1>4, <1>5, <1>6
<1>8. UNCHANGED service /\ job' = [job EXCEPT ![t] = j] /\ builder' = [builder EXCEPT ![t] = b]
  BY DEF StartLoad
<1>. QED
  BY <1>7, <1>8, LoadStep

\* A load that ends without a commit.
LEMMA EndLoadStep ==
  ASSUME IInv, NEW t \in Threads, EndLoad(t), UNCHANGED service
  PROVE  IInv'
BY LoadStep DEF EndLoad

\* The process is killed.
LEMMA KillStep ==
  ASSUME NEW t \in Threads, PastRowKills(t)
  PROVE  IInv'
<1>1. /\ dno' = NONE /\ lerg' = NONE /\ tables' = [k \in TableKinds |-> NONE]
      /\ meta' = [m \in Mappings |-> NONE] /\ job' = [u \in Threads |-> NONE]
      /\ builder' = [u \in Threads |-> Empty]
  BY FreshProcess DEF PastRowKills
<1>2. Shape'
  BY <1>1 DEF Shape
<1>3. Loading'
  BY <1>1 DEF Loading
<1>4. "dno" \in Mappings /\ "lerg" \in Mappings /\ TableKinds \subseteq Mappings
  BY DEF Mappings
<1>5. DnoServed' /\ LergServed' /\ TablesServed'
  BY <1>1, <1>4 DEF DnoServed, LergServed, TablesServed, TableServed
<1>. QED
  BY <1>2, <1>3, <1>5 DEF IInv

-----------------------------------------------------------------------------
(* Lines and rows.                                                         *)

\* The kinds of a DNO file, of a LERG file and of a table are different.
LEMMA KindsDiffer ==
  ASSUME NEW k \in Kinds
  PROVE  /\ k \in DnoKinds => k # "lerg" /\ k \notin TableKinds
         /\ k \in TableKinds => k # "lerg" /\ k \notin DnoKinds
         /\ k \notin DnoKinds /\ k # "lerg" => k \in TableKinds
BY DEF Kinds, DnoKinds, TableKinds

\* Thread t is about to read line l + 1 of file f.
ReadsNext(t, k, f, l) ==
  /\ HasRead(t, k, f, l) /\ l \in Nat /\ Len(f) \in Nat
  /\ job[t].kind = k /\ job[t].file = f /\ job[t].line = l + 1
  /\ CurrentLine(t) = f[l + 1] /\ LineIs(t) = Outcome(k, f[l + 1])
  /\ Reading(t) => l + 1 \in 0..Len(f)
  /\ NextLine(t) => job' = [job EXCEPT ![t] = [kind |-> k, file |-> f, line |-> (l + 1) + 1]]

\* What a thread is about to do with its file.
LEMMA ThreadReads ==
  ASSUME Loading, NEW t \in Threads, job[t] # NONE
  PROVE  \E k \in Kinds : \E f \in Files[k] : \E l \in 0..Len(f) : ReadsNext(t, k, f, l)
<1>1. PICK k \in Kinds : \E f \in Files[k] : \E l \in 0..Len(f) : HasRead(t, k, f, l)
  BY DEF Loading
<1>2. PICK f \in Files[k] : \E l \in 0..Len(f) : HasRead(t, k, f, l)
  BY <1>1
<1>3. PICK l \in 0..Len(f) : HasRead(t, k, f, l)
  BY <1>2
<1>4. Len(f) \in Nat /\ l \in Nat
  BY FilesAreFinite
<1>5. job[t] = [kind |-> k, file |-> f, line |-> l + 1]
  BY <1>3 DEF HasRead
<1>6. job[t].kind = k /\ job[t].file = f /\ job[t].line = l + 1
  BY <1>5
<1>7. CurrentLine(t) = f[l + 1] /\ LineIs(t) = Outcome(k, f[l + 1])
  BY <1>6 DEF CurrentLine, LineIs
<1>8. Reading(t) => l + 1 \in 0..Len(f)
  BY <1>4, <1>6 DEF Reading
<1>9. [job[t] EXCEPT !.line = @ + 1] = [kind |-> k, file |-> f, line |-> (l + 1) + 1]
  BY <1>5
<1>10. NextLine(t) => job' = [job EXCEPT ![t] = [kind |-> k, file |-> f, line |-> (l + 1) + 1]]
  BY <1>9 DEF NextLine
<1>. QED
  BY <1>3, <1>4, <1>6, <1>7, <1>8, <1>10 DEF ReadsNext

\* addRow knows the keys and the number of the rows that went into the Builder.
LEMMA WantedRow ==
  ASSUME NEW t \in Threads, NEW k \in Kinds, NEW f \in Files[k], NEW l \in Nat,
         HasRead(t, k, f, l), Adds(t)
  PROVE  /\ Outcome(k, f[l + 1]).is = "row"
         /\ KeyAt(k, f, l + 1) \notin KeysIn(k, f, l, Place(k, f[l + 1]))
         /\ k \notin DnoKinds => Cardinality(RowsUpTo(k, f, l)) < MAXROWS
<1>1. job[t].kind = k /\ job[t].file = f /\ job[t].line = l + 1
  BY DEF HasRead
<1>2. /\ CurrentLine(t) = f[l + 1] /\ LineIs(t) = Outcome(k, f[l + 1])
      /\ LineIs(t).key = KeyAt(k, f, l + 1)
  BY <1>1 DEF CurrentLine, LineIs, KeyAt
<1>3. /\ Outcome(k, f[l + 1]).is = "row" /\ KeyAt(k, f, l + 1) \notin Keys(t) /\ ~Full(t)
  BY <1>2 DEF Adds, Unwanted
<1>4. Clean(k, f, l) /\ BuilderHas(builder[t], k, f, l)
  BY DEF HasRead
<1>5. MAXROWS \in Nat
  BY CsvAssumption
<1>6. CASE k \in DnoKinds
  <2>1. Place(k, f[l + 1]) = "all" /\ k # "lerg"
    BY <1>6, KindsDiffer DEF Place
  <2>2. builder[t].dno[k] = KeysIn(k, f, l, "all")
    BY <1>4, <1>6 DEF BuilderHas, DnoHas
  <2>3. Keys(t) = KeysIn(k, f, l, "all")
    BY <1>1, <1>6, <2>1, <2>2 DEF Keys
  <2>. QED
    BY <1>3, <1>6, <2>1, <2>3
<1>7. CASE k = "lerg"
  <2>1. LergHas(builder[t].lerg, f, l) /\ k \notin DnoKinds
    BY <1>4, <1>7, KindsDiffer DEF BuilderHas
  <2>2. Place(k, f[l + 1]) = Dict(f[l + 1]) /\ Dict(f[l + 1]) \in {"block", "exchange"}
    BY <1>7 DEF Place, Dict
  <2>3. Keys(t) = KeysIn(k, f, l, Place(k, f[l + 1]))
    BY <1>1, <1>2, <1>7, <2>1, <2>2 DEF Keys, LergHas, DictHas
  <2>4. \A d \in {"block", "exchange"} :
          Cardinality(DOMAIN builder[t].lerg[d]) = Cardinality(RowsIn(k, f, l, d))
    BY <1>4, <1>7, <2>1, DictSize DEF LergHas
  <2>5. ~(Cardinality(RowsIn(k, f, l, "block")) + Cardinality(RowsIn(k, f, l, "exchange")) >= MAXROWS)
    BY <1>1, <1>3, <1>7, <2>1, <2>4 DEF Full
  <2>6. /\ RowsUpTo(k, f, l) = RowsIn(k, f, l, "block") \cup RowsIn(k, f, l, "exchange")
        /\ RowsIn(k, f, l, "block") \cap RowsIn(k, f, l, "exchange") = {}
    BY <1>7 DEF RowsIn, Place, Dict
  <2>7. Cardinality(RowsUpTo(k, f, l)) =
          Cardinality(RowsIn(k, f, l, "block")) + Cardinality(RowsIn(k, f, l, "exchange"))
    <3>1. IsFiniteSet(RowsIn(k, f, l, "block")) /\ IsFiniteSet(RowsIn(k, f, l, "exchange"))
      BY RowsAreFinite
    <3>2. Cardinality(RowsUpTo(k, f, l)) =
            Cardinality(RowsIn(k, f, l, "block")) + Cardinality(RowsIn(k, f, l, "exchange"))
              - Cardinality({})
      BY <2>6, <3>1, FS_Union
    <3>. QED
      BY <3>2, RowsAreFinite, FS_EmptySet
  <2>8. Cardinality(RowsUpTo(k, f, l)) < MAXROWS
    BY <1>5, <2>5, <2>7, RowsAreFinite
  <2>. QED
    BY <1>3, <2>3, <2>8
<1>8. CASE k \in TableKinds
  <2>1. Place(k, f[l + 1]) = "all" /\ k # "lerg" /\ k \notin DnoKinds
    BY <1>8, KindsDiffer DEF Place
  <2>2. DictHas(builder[t].table, k, f, l, "all")
    BY <1>4, <1>8 DEF BuilderHas
  <2>3. Keys(t) = KeysIn(k, f, l, "all")
    BY <1>1, <2>1, <2>2 DEF Keys, DictHas
  <2>4. RowsIn(k, f, l, "all") = RowsUpTo(k, f, l)
    BY <2>1 DEF RowsIn, Place
  <2>5. Cardinality(DOMAIN builder[t].table) = Cardinality(RowsUpTo(k, f, l))
    BY <1>4, <2>2, <2>4, DictSize
  <2>6. ~(Cardinality(RowsUpTo(k, f, l)) >= MAXROWS)
    BY <1>1, <1>3, <2>1, <2>5 DEF Full
  <2>7. Cardinality(RowsUpTo(k, f, l)) < MAXROWS
    BY <1>5, <2>6, RowsAreFinite
  <2>. QED
    BY <1>3, <2>1, <2>3, <2>7
<1>. QED
  BY <1>6, <1>7, <1>8 DEF Kinds

\* A thread goes on to the next line with a Builder that holds what was read.
LEMMA NextLineStep ==
  ASSUME IInv, NEW t \in Threads, NEW k \in Kinds, NEW f \in Files[k], NEW l \in 0..Len(f),
         ReadsNext(t, k, f, l), Reading(t), NextLine(t), UNCHANGED service,
         NEW b, builder' = [builder EXCEPT ![t] = b],
         Clean(k, f, l + 1), BuilderHas(b, k, f, l + 1)
  PROVE  IInv'
<1>. DEFINE j == [kind |-> k, file |-> f, line |-> (l + 1) + 1]
<1>1. l + 1 \in 0..Len(f) /\ job' = [job EXCEPT ![t] = j]
  BY DEF ReadsNext
<1>2. \E kk \in Kinds : \E ff \in Files[kk] : \E n \in 0..Len(ff) :
        j = [kind |-> kk, file |-> ff, line |-> n + 1] /\ Clean(kk, ff, n) /\ BuilderHas(b, kk, ff, n)
  BY <1>1
<1>. QED
  BY <1>1, <1>2, LoadStep

\* A line is passed over.
LEMMA SkipLineStep ==
  ASSUME IInv, NEW t \in Threads, SkipLine(t)
  PROVE  IInv'
<1>1. job[t] # NONE /\ Reading(t) /\ NextLine(t) /\ UNCHANGED service /\ builder' = builder
  BY DEF SkipLine, Reading
<1>2. PICK k \in Kinds : \E f \in Files[k] : \E l \in 0..Len(f) : ReadsNext(t, k, f, l)
  BY <1>1, ThreadReads DEF IInv
<1>3. PICK f \in Files[k] : \E l \in 0..Len(f) : ReadsNext(t, k, f, l)
  BY <1>2
<1>4. PICK l \in 0..Len(f) : ReadsNext(t, k, f, l)
  BY <1>3
<1>5. builder' = [builder EXCEPT ![t] = builder[t]]
  BY <1>1 DEF IInv, Shape
<1>6. l \in Nat /\ Clean(k, f, l) /\ BuilderHas(builder[t], k, f, l) /\ Outcome(k, f[l + 1]).is = "skip"
  BY <1>4 DEF ReadsNext, HasRead, SkipLine
<1>7. Clean(k, f, l + 1) /\ BuilderHas(builder[t], k, f, l + 1)
  BY <1>6, SkippedLine, SkippedLineBuilds
<1>. QED
  BY <1>1, <1>4, <1>5, <1>7, NextLineStep

\* A row of DNO.
LEMMA AddDnoRowStep ==
  ASSUME IInv, NEW t \in Threads, AddDnoRow(t)
  PROVE  IInv'
<1>1. job[t] # NONE /\ Reading(t) /\ NextLine(t) /\ UNCHANGED service /\ Adds(t)
  BY DEF AddDnoRow, Adds
<1>2. PICK k \in Kinds : \E f \in Files[k] : \E l \in 0..Len(f) : ReadsNext(t, k, f, l)
  BY <1>1, ThreadReads DEF IInv
<1>3. PICK f \in Files[k] : \E l \in 0..Len(f) : ReadsNext(t, k, f, l)
  BY <1>2
<1>4. PICK l \in 0..Len(f) : ReadsNext(t, k, f, l)
  BY <1>3
<1>5. /\ job[t].kind = k /\ k \in DnoKinds /\ LineIs(t).key = KeyAt(k, f, l + 1) /\ l \in Nat
      /\ Clean(k, f, l) /\ BuilderHas(builder[t], k, f, l) /\ HasRead(t, k, f, l)
  BY <1>4 DEF ReadsNext, HasRead, AddDnoRow, KeyAt
<1>6. Place(k, f[l + 1]) = "all" /\ k # "lerg" /\ k \notin TableKinds
  BY <1>5, KindsDiffer DEF Place
<1>7. /\ Outcome(k, f[l + 1]).is = "row" /\ KeyAt(k, f, l + 1) \notin KeysIn(k, f, l, "all")
      /\ Place(k, f[l + 1]) = "all"
  BY <1>1, <1>5, <1>6, WantedRow
<1>8. Clean(k, f, l + 1) /\ RowsIn(k, f, l + 1, "all") = RowsIn(k, f, l, "all") \cup {l + 1}
  BY <1>5, <1>7, AddedLine
<1>9. KeysIn(k, f, l + 1, "all") = KeysIn(k, f, l, "all") \cup {KeyAt(k, f, l + 1)}
  BY <1>8 DEF KeysIn
<1>10. PICK d, g, b, m : builder[t] = [dno |-> d, lerg |-> g, table |-> b, meta |-> m]
  BY <1>5 DEF BuilderHas
<1>11. m = <<k, f>> /\ d = [dk \in DnoKinds |-> IF dk = k THEN KeysIn(k, f, l, "all") ELSE {}]
  BY <1>5, <1>10 DEF BuilderHas, DnoHas
<1>. DEFINE nd == [d EXCEPT ![k] = @ \cup {KeyAt(k, f, l + 1)}]
            nb == [dno |-> nd, lerg |-> g, table |-> b, meta |-> m]
<1>12. nd = [dk \in DnoKinds |-> IF dk = k THEN KeysIn(k, f, l + 1, "all") ELSE {}]
  BY <1>5, <1>9, <1>11
<1>13. BuilderHas(nb, k, f, l + 1)
  BY <1>6, <1>11, <1>12 DEF BuilderHas, DnoHas
<1>14. [builder[t] EXCEPT !.dno[k] = @ \cup {KeyAt(k, f, l + 1)}] = nb
  <2>1. PICK ks : ks = KeysIn(k, f, l, "all") \cup {KeyAt(k, f, l + 1)}
    OBVIOUS
  <2>2. builder[t].dno[k] = KeysIn(k, f, l, "all") /\ d[k] = KeysIn(k, f, l, "all")
    BY <1>5, <1>10, <1>11
  <2>3. [builder[t] EXCEPT !.dno[k] = ks] = [dno |-> [d EXCEPT ![k] = ks], lerg |-> g, table |-> b, meta |-> m]
    BY <1>10
  <2>. QED
    BY <2>1, <2>2, <2>3
<1>15. builder' = [builder EXCEPT ![t] = nb]
  BY <1>5, <1>14 DEF AddDnoRow
<1>. QED
  BY <1>1, <1>4, <1>8, <1>13, <1>15, NextLineStep

\* A row of LERG.
LEMMA AddLergRowStep ==
  ASSUME IInv, NEW t \in Threads, AddLergRow(t)
  PROVE  IInv'
<1>1. job[t] # NONE /\ Reading(t) /\ NextLine(t) /\ UNCHANGED service /\ Adds(t)
  BY DEF AddLergRow, Adds
<1>2. PICK k \in Kinds : \E f \in Files[k] : \E l \in 0..Len(f) : ReadsNext(t, k, f, l)
  BY <1>1, ThreadReads DEF IInv
<1>3. PICK f \in Files[k] : \E l \in 0..Len(f) : ReadsNext(t, k, f, l)
  BY <1>2
<1>4. PICK l \in 0..Len(f) : ReadsNext(t, k, f, l)
  BY <1>3
<1>5. /\ k = "lerg" /\ LineIs(t).key = KeyAt(k, f, l + 1) /\ l \in Nat /\ job[t].line = l + 1
      /\ CurrentLine(t) = f[l + 1]
      /\ Clean(k, f, l) /\ BuilderHas(builder[t], k, f, l) /\ HasRead(t, k, f, l)
  BY <1>4 DEF ReadsNext, HasRead, AddLergRow, KeyAt
<1>. DEFINE p == Dict(f[l + 1])
            key == KeyAt(k, f, l + 1)
<1>6. Place(k, f[l + 1]) = p /\ p \in {"block", "exchange"} /\ k \notin TableKinds /\ k \notin DnoKinds
  BY <1>5, KindsDiffer DEF Place, Dict
<1>7. /\ Outcome(k, f[l + 1]).is = "row" /\ key \notin KeysIn(k, f, l, p)
      /\ Cardinality(RowsUpTo(k, f, l)) < MAXROWS
  BY <1>1, <1>5, <1>6, WantedRow
<1>8. /\ Clean(k, f, l + 1) /\ RowsIn(k, f, l + 1, p) = RowsIn(k, f, l, p) \cup {l + 1}
      /\ \A q : q # p => RowsIn(k, f, l + 1, q) = RowsIn(k, f, l, q)
  BY <1>5, <1>6, <1>7, AddedLine
<1>10. PICK d, g, b, m : builder[t] = [dno |-> d, lerg |-> g, table |-> b, meta |-> m]
  BY <1>5 DEF BuilderHas
<1>11. /\ m = <<k, f>> /\ g = [q \in {"block", "exchange"} |-> g[q]]
       /\ \A q \in {"block", "exchange"} : DictHas(g[q], k, f, l, q)
  BY <1>5, <1>10 DEF BuilderHas, LergHas
<1>. DEFINE new == Insert(g[p], key, RecordOf(k, f, l + 1))
            ng == [g EXCEPT ![p] = new]
            nb == [dno |-> d, lerg |-> ng, table |-> b, meta |-> m]
<1>12. DictHas(new, k, f, l + 1, p)
  BY <1>5, <1>6, <1>7, <1>8, <1>11, InsertedRow
<1>13. \A q \in {"block", "exchange"} : q # p => DictHas(g[q], k, f, l + 1, q)
  BY <1>8, <1>11 DEF DictHas, KeysIn
<1>14. /\ ng = [q \in {"block", "exchange"} |-> ng[q]]
       /\ \A q \in {"block", "exchange"} : DictHas(ng[q], k, f, l + 1, q)
  <2>. HIDE DEF new, p
  <2>1. ng = [q \in {"block", "exchange"} |-> ng[q]] /\ ng[p] = new
        /\ \A q \in {"block", "exchange"} : q # p => ng[q] = g[q]
    BY <1>6, <1>11
  <2>. QED
    BY <1>12, <1>13, <2>1
<1>15. BuilderHas(nb, k, f, l + 1)
  <2>. HIDE DEF ng
  <2>1. LergHas(ng, f, l + 1)
    BY <1>5, <1>14 DEF LergHas
  <2>. QED
    BY <1>6, <1>11, <2>1 DEF BuilderHas
<1>16. [builder[t] EXCEPT !.lerg[p] = Insert(@, key, [lerg_key |-> key, row |-> l + 1])] = nb
  <2>1. RecordOf(k, f, l + 1) = [lerg_key |-> key, row |-> l + 1]
    BY <1>5 DEF RecordOf
  <2>. QED
    BY <1>10, <2>1
<1>17. builder' = [builder EXCEPT ![t] = nb]
  BY <1>5, <1>16 DEF AddLergRow
<1>. QED
  BY <1>1, <1>4, <1>8, <1>15, <1>17, NextLineStep

\* A row of a table.
LEMMA AddTableRowStep ==
  ASSUME IInv, NEW t \in Threads, AddTableRow(t)
  PROVE  IInv'
<1>1. job[t] # NONE /\ Reading(t) /\ NextLine(t) /\ UNCHANGED service /\ Adds(t)
  BY DEF AddTableRow, Adds
<1>2. PICK k \in Kinds : \E f \in Files[k] : \E l \in 0..Len(f) : ReadsNext(t, k, f, l)
  BY <1>1, ThreadReads DEF IInv
<1>3. PICK f \in Files[k] : \E l \in 0..Len(f) : ReadsNext(t, k, f, l)
  BY <1>2
<1>4. PICK l \in 0..Len(f) : ReadsNext(t, k, f, l)
  BY <1>3
<1>5. /\ k \in TableKinds /\ LineIs(t).key = KeyAt(k, f, l + 1) /\ l \in Nat /\ job[t].line = l + 1
      /\ LineIs(t).past = Outcome(k, f[l + 1]).past
      /\ Clean(k, f, l) /\ BuilderHas(builder[t], k, f, l) /\ HasRead(t, k, f, l)
  BY <1>4 DEF ReadsNext, HasRead, AddTableRow, KeyAt
<1>. DEFINE key == KeyAt(k, f, l + 1)
<1>6. Place(k, f[l + 1]) = "all" /\ k # "lerg" /\ k \notin DnoKinds
  BY <1>5, KindsDiffer DEF Place
<1>7. /\ Outcome(k, f[l + 1]).is = "row" /\ key \notin KeysIn(k, f, l, "all")
      /\ Cardinality(RowsUpTo(k, f, l)) < MAXROWS
  BY <1>1, <1>5, <1>6, WantedRow
<1>8. Clean(k, f, l + 1) /\ RowsIn(k, f, l + 1, "all") = RowsIn(k, f, l, "all") \cup {l + 1}
  BY <1>5, <1>6, <1>7, AddedLine
<1>10. PICK d, g, b, m : builder[t] = [dno |-> d, lerg |-> g, table |-> b, meta |-> m]
  BY <1>5 DEF BuilderHas
<1>11. m = <<k, f>> /\ DictHas(b, k, f, l, "all")
  BY <1>5, <1>10 DEF BuilderHas
<1>. DEFINE new == Insert(b, key, RecordOf(k, f, l + 1))
            nb == [dno |-> d, lerg |-> g, table |-> new, meta |-> m]
<1>12. DictHas(new, k, f, l + 1, "all")
  BY <1>5, <1>7, <1>8, <1>11, InsertedRow
<1>13. BuilderHas(nb, k, f, l + 1)
  BY <1>6, <1>11, <1>12 DEF BuilderHas
<1>14. [builder[t] EXCEPT !.table =
          Insert(@, key, [row |-> l + 1, garbage |-> Outcome(k, f[l + 1]).past])] = nb
  <2>1. RecordOf(k, f, l + 1) = [row |-> l + 1, garbage |-> Outcome(k, f[l + 1]).past]
    BY <1>6 DEF RecordOf
  <2>. QED
    BY <1>10, <2>1
<1>15. builder' = [builder EXCEPT ![t] = nb]
  BY <1>5, <1>14 DEF AddTableRow
<1>. QED
  BY <1>1, <1>4, <1>8, <1>13, <1>15, NextLineStep

-----------------------------------------------------------------------------
(* Commits.                                                                *)

\* A thread that commits has read its whole file.
LEMMA CommitReadAll ==
  ASSUME IInv, NEW t \in Threads, NEW m \in Mappings, Commit(t, m)
  PROVE  \E k \in Kinds : \E f \in Files[k] :
           /\ job[t].kind = k /\ Clean(k, f, Len(f)) /\ BuilderHas(builder[t], k, f, Len(f))
           /\ meta' = [meta EXCEPT ![m] = <<k, f>>]
<1>1. job[t] # NONE /\ job[t].line > Len(job[t].file) /\ meta' = [meta EXCEPT ![m] = builder[t].meta]
  BY DEF Commit
<1>2. PICK k \in Kinds : \E f \in Files[k] : \E l \in 0..Len(f) : ReadsNext(t, k, f, l)
  BY <1>1, ThreadReads DEF IInv
<1>3. PICK f \in Files[k] : \E l \in 0..Len(f) : ReadsNext(t, k, f, l)
  BY <1>2
<1>4. PICK l \in 0..Len(f) : ReadsNext(t, k, f, l)
  BY <1>3
<1>5. /\ job[t].kind = k /\ job[t].file = f /\ job[t].line = l + 1 /\ l \in Nat /\ Len(f) \in Nat
      /\ Clean(k, f, l) /\ BuilderHas(builder[t], k, f, l)
  BY <1>4 DEF ReadsNext, HasRead
<1>6. l = Len(f)
  BY <1>1, <1>5
<1>7. builder[t].meta = <<k, f>>
  BY <1>5 DEF BuilderHas
<1>. QED
  BY <1>1, <1>5, <1>6, <1>7

\* A commit ends the load, and the metadata of the other mappings stays.
LEMMA CommitEnds ==
  ASSUME IInv, NEW t \in Threads, NEW m \in Mappings, Commit(t, m)
  PROVE  /\ job' = [u \in Threads |-> job'[u]] /\ builder' = [u \in Threads |-> builder'[u]]
         /\ Loading' /\ meta' = [x \in Mappings |-> meta'[x]]
         /\ \A x \in Mappings : x # m => meta'[x] = meta[x]
<1>1. job' = [job EXCEPT ![t] = NONE] /\ builder' = [builder EXCEPT ![t] = Empty]
  BY DEF Commit, EndLoad
<1>2. /\ job' = [u \in Threads |-> job'[u]] /\ builder' = [u \in Threads |-> builder'[u]]
      /\ Loading'
  BY <1>1, ThreadStep DEF IInv
<1>3. meta' = [meta EXCEPT ![m] = builder[t].meta] /\ meta = [x \in Mappings |-> meta[x]]
  BY DEF Commit, IInv, Shape
<1>. QED
  BY <1>2, <1>3

\* DnoMapping::Builder::commit
LEMMA CommitDnoStep ==
  ASSUME IInv, NEW t \in Threads, CommitDno(t)
  PROVE  IInv'
<1>1. /\ Commit(t, "dno") /\ "dno" \in Mappings /\ dno' = builder[t].dno /\ lerg' = lerg
      /\ tables' = tables /\ job[t].kind \in DnoKinds
  BY DEF CommitDno, Mappings
<1>2. PICK k \in Kinds : \E f \in Files[k] :
           /\ job[t].kind = k /\ Clean(k, f, Len(f)) /\ BuilderHas(builder[t], k, f, Len(f))
           /\ meta' = [meta EXCEPT !["dno"] = <<k, f>>]
  BY <1>1, CommitReadAll
<1>3. PICK f \in Files[k] :
           /\ job[t].kind = k /\ Clean(k, f, Len(f)) /\ BuilderHas(builder[t], k, f, Len(f))
           /\ meta' = [meta EXCEPT !["dno"] = <<k, f>>]
  BY <1>2
<1>4. /\ job' = [u \in Threads |-> job'[u]] /\ builder' = [u \in Threads |-> builder'[u]]
      /\ Loading' /\ meta' = [x \in Mappings |-> meta'[x]]
      /\ \A x \in Mappings : x # "dno" => meta'[x] = meta[x]
  BY <1>1, CommitEnds
<1>5. k \in DnoKinds /\ DnoHas(dno', k, f, Len(f)) /\ meta'["dno"] = <<k, f>>
  BY <1>1, <1>3 DEF BuilderHas, IInv, Shape
<1>6. Shape'
  BY <1>1, <1>4 DEF IInv, Shape
<1>7. DnoServed'
  BY <1>3, <1>5 DEF DnoServed
<1>8. meta'["lerg"] = meta["lerg"] /\ \A x \in TableKinds : meta'[x] = meta[x]
  BY <1>4 DEF Mappings, TableKinds
<1>9. LergServed' /\ TablesServed'
  BY <1>1, <1>8 DEF IInv, LergServed, TablesServed, TableServed
<1>. QED
  BY <1>4, <1>6, <1>7, <1>9 DEF IInv

\* LergMapping::Builder::commit
LEMMA CommitLergStep ==
  ASSUME IInv, NEW t \in Threads, CommitLerg(t)
  PROVE  IInv'
<1>1. /\ Commit(t, "lerg") /\ "lerg" \in Mappings /\ lerg' = builder[t].lerg /\ dno' = dno
      /\ tables' = tables /\ job[t].kind = "lerg"
  BY DEF CommitLerg, Mappings
<1>2. PICK k \in Kinds : \E f \in Files[k] :
           /\ job[t].kind = k /\ Clean(k, f, Len(f)) /\ BuilderHas(builder[t], k, f, Len(f))
           /\ meta' = [meta EXCEPT !["lerg"] = <<k, f>>]
  BY <1>1, CommitReadAll
<1>3. PICK f \in Files[k] :
           /\ job[t].kind = k /\ Clean(k, f, Len(f)) /\ BuilderHas(builder[t], k, f, Len(f))
           /\ meta' = [meta EXCEPT !["lerg"] = <<k, f>>]
  BY <1>2
<1>4. /\ job' = [u \in Threads |-> job'[u]] /\ builder' = [u \in Threads |-> builder'[u]]
      /\ Loading' /\ meta' = [x \in Mappings |-> meta'[x]]
      /\ \A x \in Mappings : x # "lerg" => meta'[x] = meta[x]
  BY <1>1, CommitEnds
<1>5. k = "lerg" /\ LergHas(lerg', f, Len(f)) /\ meta'["lerg"] = <<k, f>>
  BY <1>1, <1>3 DEF BuilderHas, IInv, Shape
<1>6. Shape'
  BY <1>1, <1>4 DEF IInv, Shape
<1>7. LergServed'
  BY <1>3, <1>5 DEF LergServed
<1>8. meta'["dno"] = meta["dno"] /\ \A x \in TableKinds : meta'[x] = meta[x]
  BY <1>4 DEF Mappings, TableKinds
<1>9. DnoServed' /\ TablesServed'
  BY <1>1, <1>8 DEF IInv, DnoServed, TablesServed, TableServed
<1>. QED
  BY <1>4, <1>6, <1>7, <1>9 DEF IInv

\* commit of a table
LEMMA CommitTableStep ==
  ASSUME IInv, NEW t \in Threads, NEW m \in TableKinds, CommitTable(t, m)
  PROVE  IInv'
<1>1. /\ Commit(t, m) /\ m \in Mappings /\ lerg' = lerg /\ dno' = dno
      /\ tables' = [tables EXCEPT ![m] = builder[t].table] /\ job[t].kind = m
  BY DEF CommitTable, Mappings
<1>2. PICK k \in Kinds : \E f \in Files[k] :
           /\ job[t].kind = k /\ Clean(k, f, Len(f)) /\ BuilderHas(builder[t], k, f, Len(f))
           /\ meta' = [meta EXCEPT ![m] = <<k, f>>]
  BY <1>1, CommitReadAll
<1>3. PICK f \in Files[k] :
           /\ job[t].kind = k /\ Clean(k, f, Len(f)) /\ BuilderHas(builder[t], k, f, Len(f))
           /\ meta' = [meta EXCEPT ![m] = <<k, f>>]
  BY <1>2
<1>4. /\ job' = [u \in Threads |-> job'[u]] /\ builder' = [u \in Threads |-> builder'[u]]
      /\ Loading' /\ meta' = [x \in Mappings |-> meta'[x]]
      /\ \A x \in Mappings : x # m => meta'[x] = meta[x]
  BY <1>1, CommitEnds
<1>5. tables = [x \in TableKinds |-> tables[x]] /\ meta = [x \in Mappings |-> meta[x]]
  BY DEF IInv, Shape
<1>6. /\ tables'[m] = builder[t].table /\ tables' = [x \in TableKinds |-> tables'[x]]
      /\ \A x \in TableKinds : x # m => tables'[x] = tables[x]
  BY <1>1, <1>5
<1>7. k = m /\ DictHas(tables'[m], m, f, Len(f), "all") /\ meta'[m] = <<m, f>>
  BY <1>1, <1>3, <1>5, <1>6 DEF BuilderHas
<1>8. Shape'
  BY <1>1, <1>4, <1>6 DEF Shape
<1>9. meta'["dno"] = meta["dno"] /\ meta'["lerg"] = meta["lerg"]
  BY <1>4 DEF Mappings, TableKinds
<1>10. DnoServed' /\ LergServed'
  BY <1>1, <1>9 DEF IInv, DnoServed, LergServed
<1>11. TablesServed'
  <2>. SUFFICES ASSUME NEW x \in TableKinds PROVE TableServed(x)'
    BY DEF TablesServed
  <2>1. CASE x = m
    BY <1>3, <1>7, <2>1 DEF TableServed
  <2>2. CASE x # m
    <3>1. x \in Mappings
      BY DEF Mappings
    <3>2. tables'[x] = tables[x] /\ meta'[x] = meta[x]
      BY <1>4, <1>6, <2>2, <3>1
    <3>. QED
      BY <3>2 DEF IInv, TablesServed, TableServed
  <2>. QED
    BY <2>1, <2>2
<1>. QED
  BY <1>4, <1>8, <1>10, <1>11 DEF IInv

\* Every step preserves the invariant.
LEMMA StepIInv == IInv /\ [Next]_vars => IInv'
<1>. SUFFICES ASSUME IInv, [Next]_vars PROVE IInv'
  OBVIOUS
<1>1. CASE UNCHANGED vars
  BY <1>1 DEF vars, service, IInv, Shape, Loading, HasRead, DnoServed, LergServed, TablesServed,
              TableServed
<1>2. CASE Exhausted
  BY <1>1, <1>2 DEF Exhausted
<1>3. ASSUME NEW t \in Threads, StartDno(t) PROVE IInv'
  BY <1>3, StartLoadStep DEF StartDno, Kinds
<1>4. ASSUME NEW t \in Threads, StartLerg(t) PROVE IInv'
  BY <1>4, StartLoadStep DEF StartLerg, Kinds
<1>5. ASSUME NEW t \in Threads,
             \/ StartDnc(t) \/ StartTollFree(t) \/ StartYoumail(t) \/ StartGeo(t) \/ StartFtc(t)
             \/ StartF404(t) \/ StartF606(t)
      PROVE  IInv'
  <2>1. PICK k \in TableKinds : \E f \in Files[k] : StartLoad(t, k, f)
    BY <1>5 DEF TableKinds, StartDnc, StartTollFree, StartYoumail, StartGeo, StartFtc, StartF404,
                StartF606
  <2>2. k \in Kinds
    BY DEF Kinds
  <2>. QED
    BY <2>1, <2>2, StartLoadStep
<1>6. ASSUME NEW t \in Threads,
             SkipLine(t) \/ AddDnoRow(t) \/ AddLergRow(t) \/ AddTableRow(t)
      PROVE  IInv'
  BY <1>6, SkipLineStep, AddDnoRowStep, AddLergRowStep, AddTableRowStep
<1>7. ASSUME NEW t \in Threads, PastRowThrows(t) \/ FailLoad(t) PROVE IInv'
  BY <1>7, EndLoadStep DEF PastRowThrows, FailLoad
<1>8. ASSUME NEW t \in Threads, PastRowKills(t) PROVE IInv'
  BY <1>8, KillStep
<1>9. ASSUME NEW t \in Threads, CommitDno(t) \/ CommitLerg(t) PROVE IInv'
  BY <1>9, CommitDnoStep, CommitLergStep
<1>10. ASSUME NEW t \in Threads,
              \/ CommitDnc(t) \/ CommitTollFree(t) \/ CommitYoumail(t) \/ CommitGeo(t) \/ CommitFtc(t)
              \/ CommitF404(t) \/ CommitF606(t)
       PROVE  IInv'
  <2>1. PICK k \in TableKinds : CommitTable(t, k)
    BY <1>10 DEF TableKinds, CommitDnc, CommitTollFree, CommitYoumail, CommitGeo, CommitFtc,
                 CommitF404, CommitF606
  <2>. QED
    BY <2>1, CommitTableStep
<1>. QED
  BY <1>1, <1>2, <1>3, <1>4, <1>5, <1>6, <1>7, <1>8, <1>9, <1>10 DEF Next

\* What is in service is the rows of one whole file, of which every line was read
\* without an error, whatever loads of other threads fail, are cut off or commit.
THEOREM Invariance == Spec => []IInv
<1>. QED
  BY InitIInv, StepIInv, PTL DEF Spec

-----------------------------------------------------------------------------
(* DNO.                                                                    *)

\* A line of a DNO file is bad, or a row whose key is written on it.
LEMMA DnoLine ==
  ASSUME NEW k \in DnoKinds, NEW line \in BadLines \cup Numbers
  PROVE  /\ Outcome(k, line).is = "row" <=> line \notin BadLines
         /\ Outcome(k, line).is = "row" => Outcome(k, line).key = line
         /\ Place(k, line) = "all"
<1>1. k \notin TableKinds /\ k # "lerg"
  BY DEF DnoKinds, TableKinds
<1>2. Place(k, line) = "all"
  BY <1>1 DEF Place
<1>3. CASE line \in BadLines
  <2>1. Text # Columns /\ Text # Field /\ Columns # Field
    BY CsvAssumption
  <2>2. Outcome(k, line).is # "row"
    BY <1>1, <1>3, <2>1 DEF Outcome, BadLines, Skipped, BadColumns
  <2>. QED
    BY <1>2, <1>3, <2>2
<1>4. CASE line \notin BadLines
  <2>1. line # Text /\ line # Columns /\ line # Field
    BY <1>4 DEF BadLines
  <2>2. Outcome(k, line) = [is |-> "row", past |-> FALSE, key |-> line]
    BY <1>1, <2>1 DEF Outcome
  <2>. QED
    BY <1>2, <1>4, <2>2
<1>. QED
  BY <1>3, <1>4

\* DNO holds exactly the keys that are written on the rows of its file.
LEMMA DnoKeys ==
  ASSUME NEW k \in DnoKinds, NEW f \in Files[k], Clean(k, f, Len(f))
  PROVE  KeysIn(k, f, Len(f), "all") = {f[i] : i \in Rows(f)}
<1>1. f \in Seq(BadLines \cup Numbers)
  BY CsvAssumption
<1>2. DOMAIN f = 1..Len(f)
  BY <1>1
<1>3. \A i \in 1..Len(f) : f[i] \in BadLines \cup Numbers
  BY <1>1
<1>4. \A i \in 1..Len(f) :
        /\ Outcome(k, f[i]).is = "row" <=> f[i] \notin BadLines
        /\ Outcome(k, f[i]).is = "row" => Outcome(k, f[i]).key = f[i]
        /\ Place(k, f[i]) = "all"
  BY <1>3, DnoLine
<1>5. RowsIn(k, f, Len(f), "all") = Rows(f)
  BY <1>2, <1>4 DEF RowsIn, RowsUpTo, Rows
<1>6. \A i \in Rows(f) : KeyAt(k, f, i) = f[i]
  BY <1>2, <1>4 DEF KeyAt, Rows
<1>. QED
  BY <1>5, <1>6 DEF KeysIn

\* The state says what the property says.
LEMMA DnoExact == IInv => DnoIsExact
<1>. SUFFICES ASSUME IInv, dno # NONE, NEW n \in Numbers
              PROVE  getDNO(n) <=> \E i \in Rows(meta["dno"][2]) :
                       StartsWith(n, Leading(meta["dno"][1]), meta["dno"][2][i])
  BY DEF DnoIsExact
<1>1. PICK k \in DnoKinds : \E f \in Files[k] :
        meta["dno"] = <<k, f>> /\ Clean(k, f, Len(f)) /\ DnoHas(dno, k, f, Len(f))
  BY DEF IInv, DnoServed
<1>2. PICK f \in Files[k] :
        meta["dno"] = <<k, f>> /\ Clean(k, f, Len(f)) /\ DnoHas(dno, k, f, Len(f))
  BY <1>1
<1>3. meta["dno"][1] = k /\ meta["dno"][2] = f
  BY <1>2
<1>4. \A dk \in DnoKinds : dno[dk] = IF dk = k THEN {f[i] : i \in Rows(f)} ELSE {}
  BY <1>2, DnoKeys DEF DnoHas
<1>5. Leading(k) \in 1..4 /\ (getDNO(n) <=> n \div Weight[Leading(k)] \in {f[i] : i \in Rows(f)})
  <2>1. CASE k = "dno"
    <3>1. n \div Weight[4] = n
      BY Cuts
    <3>2. Leading(k) = 4
      BY <2>1 DEF Leading
    <3>3. /\ dno["dno_npa"] = {} /\ dno["dno_npa_nxx"] = {} /\ dno["dno_npa_nxx_x"] = {}
          /\ dno["dno"] = {f[i] : i \in Rows(f)}
      BY <1>4, <2>1 DEF DnoKinds
    <3>. QED
      BY <3>1, <3>2, <3>3 DEF getDNO
  <2>2. CASE k = "dno_npa"
    <3>1. Leading(k) = 1
      BY <2>2 DEF Leading
    <3>2. /\ dno["dno"] = {} /\ dno["dno_npa_nxx"] = {} /\ dno["dno_npa_nxx_x"] = {}
          /\ dno["dno_npa"] = {f[i] : i \in Rows(f)}
      BY <1>4, <2>2 DEF DnoKinds
    <3>. QED
      BY <3>1, <3>2 DEF getDNO
  <2>3. CASE k = "dno_npa_nxx"
    <3>1. Leading(k) = 2
      BY <2>3 DEF Leading
    <3>2. /\ dno["dno"] = {} /\ dno["dno_npa"] = {} /\ dno["dno_npa_nxx_x"] = {}
          /\ dno["dno_npa_nxx"] = {f[i] : i \in Rows(f)}
      BY <1>4, <2>3 DEF DnoKinds
    <3>. QED
      BY <3>1, <3>2 DEF getDNO
  <2>4. CASE k = "dno_npa_nxx_x"
    <3>1. Leading(k) = 3
      BY <2>4 DEF Leading
    <3>2. /\ dno["dno"] = {} /\ dno["dno_npa"] = {} /\ dno["dno_npa_nxx"] = {}
          /\ dno["dno_npa_nxx_x"] = {f[i] : i \in Rows(f)}
      BY <1>4, <2>4 DEF DnoKinds
    <3>. QED
      BY <3>1, <3>2 DEF getDNO
  <2>. QED
    BY <2>1, <2>2, <2>3, <2>4 DEF DnoKinds
<1>6. \A i \in Rows(f) : StartsWith(n, Leading(k), f[i]) <=> n \div Weight[Leading(k)] = f[i]
  BY <1>5, StartsWithCut
<1>7. getDNO(n) <=> \E i \in Rows(f) : StartsWith(n, Leading(k), f[i])
  BY <1>5, <1>6
<1>. QED
  BY <1>3, <1>7

\* A number is reported do-not-originate exactly if a row of the file in service
\* has its leading digits.
THEOREM DnoExactness == Spec => []DnoIsExact
<1>. QED
  BY Invariance, DnoExact, PTL

-----------------------------------------------------------------------------
(* LERG.                                                                   *)

\* The keys of a LERG row are its digits, one behind the other.
LEMMA LergKeys ==
  ASSUME NEW row \in LergRow
  PROVE  /\ row.npa \in Digit /\ row.npa # 0 /\ row.nxx \in Digit
         /\ row.x = Blank => Dict(row) = "exchange" /\ LergKey(row) = Base * row.npa + row.nxx
         /\ row.x # Blank => /\ Dict(row) = "block" /\ row.x \in Digit
                             /\ LergKey(row) = Base * (Base * row.npa + row.nxx) + row.x
<1>1. row.npa \in Digit /\ row.npa # 0 /\ row.nxx \in Digit /\ row.x \in Digit \cup {Blank}
  BY DEF LergRow
<1>2. row.npa \in Nat /\ row.nxx \in Nat /\ Base \in Nat
  BY <1>1, Weights DEF Digit
<1>3. row.npa * Base + row.nxx = Base * row.npa + row.nxx
  BY <1>2
<1>4. CASE row.x = Blank
  BY <1>1, <1>3, <1>4 DEF Dict, LergKey, ExchangeKey
<1>5. CASE row.x # Blank
  <2>1. row.x \in Digit /\ row.x \in Nat
    BY <1>1, <1>5, Weights DEF Digit
  <2>2. row.npa * (Base * Base) + row.nxx * Base + row.x = Base * (Base * row.npa + row.nxx) + row.x
    BY <1>2, <2>1
  <2>. QED
    BY <1>1, <1>5, <2>1, <2>2 DEF Dict, LergKey, BlockKey
<1>. QED
  BY <1>1, <1>4, <1>5

\* A line of a LERG file is bad, or a row with its key.
LEMMA LergLine ==
  ASSUME NEW line \in BadLines \cup LergRow
  PROVE  /\ Outcome("lerg", line).is = "row" <=> line \notin BadLines
         /\ Outcome("lerg", line).is = "row" =>
              line \in LergRow /\ Outcome("lerg", line).key = LergKey(line)
<1>1. "lerg" \notin TableKinds
  BY DEF TableKinds
<1>2. CASE line \in BadLines
  <2>1. Text # Columns /\ Text # Field /\ Columns # Field
    BY CsvAssumption
  <2>2. Outcome("lerg", line).is # "row"
    BY <1>1, <1>2, <2>1 DEF Outcome, BadLines, Skipped, BadColumns
  <2>. QED
    BY <1>2, <2>2
<1>3. CASE line \notin BadLines
  <2>1. line # Text /\ line # Columns /\ line # Field
    BY <1>3 DEF BadLines
  <2>2. Outcome("lerg", line) = [is |-> "row", past |-> FALSE, key |-> LergKey(line)]
    BY <1>1, <2>1 DEF Outcome
  <2>. QED
    BY <1>3, <2>2
<1>. QED
  BY <1>2, <1>3

\* The rows of an exchange, or of one block of it, that number n belongs to.
RowsFor(f, n, x) ==
  {i \in Rows(f) : <<f[i].npa, f[i].nxx, f[i].x>> = <<Digits(n)[1], Digits(n)[2], x>>}

\* The rows of a LERG file.
LEMMA LergRows ==
  ASSUME NEW f \in Files["lerg"]
  PROVE  /\ Rows(f) = RowsUpTo("lerg", f, Len(f))
         /\ \A i \in Rows(f) : i \in Nat /\ f[i] \in LergRow /\ KeyAt("lerg", f, i) = LergKey(f[i])
<1>1. f \in Seq(BadLines \cup LergRow)
  BY CsvAssumption
<1>2. DOMAIN f = 1..Len(f) /\ Len(f) \in Nat /\ \A i \in 1..Len(f) : f[i] \in BadLines \cup LergRow
  BY <1>1
<1>3. \A i \in 1..Len(f) :
        /\ Outcome("lerg", f[i]).is = "row" <=> f[i] \notin BadLines
        /\ Outcome("lerg", f[i]).is = "row" =>
              f[i] \in LergRow /\ Outcome("lerg", f[i]).key = LergKey(f[i])
  BY <1>2, LergLine
<1>. QED
  BY <1>2, <1>3 DEF Rows, RowsUpTo, KeyAt

\* The block of a number is searched for with the key of the rows for it.
LEMMA BlockRows ==
  ASSUME NEW f \in Files["lerg"], NEW n \in Numbers
  PROVE  /\ \A i \in RowsIn("lerg", f, Len(f), "block") :
              KeyAt("lerg", f, i) = n \div Weight[3] <=> i \in RowsFor(f, n, Digits(n)[3])
         /\ RowsFor(f, n, Digits(n)[3]) \subseteq RowsIn("lerg", f, Len(f), "block")
         /\ RowsFor(f, n, Digits(n)[3]) # {} => n \div Weight[3] # 0
<1>1. PICK a \in Digit, b \in Digit, c \in Digit, d \in Digit :
        /\ n \div Weight[3] = Base * (Base * a + b) + c
        /\ Digits(n) = <<a, b, c, d>>
  BY Cuts
<1>2. Digits(n)[1] = a /\ Digits(n)[2] = b /\ Digits(n)[3] = c
  BY <1>1
<1>3. Digit \subseteq Nat /\ Base \in Nat \ {0} /\ Blank \notin Digit
  BY Weights, CsvAssumption DEF Digit
<1>4. ASSUME NEW i \in RowsIn("lerg", f, Len(f), "block")
      PROVE  KeyAt("lerg", f, i) = n \div Weight[3] <=> i \in RowsFor(f, n, Digits(n)[3])
  <2>1. i \in Rows(f) /\ f[i] \in LergRow /\ KeyAt("lerg", f, i) = LergKey(f[i]) /\ Dict(f[i]) = "block"
    BY <1>4, LergRows DEF RowsIn, Place
  <2>2. f[i].x # Blank
    BY <2>1, LergKeys
  <2>3. /\ f[i].npa \in Digit /\ f[i].nxx \in Digit /\ f[i].x \in Digit
        /\ LergKey(f[i]) = Base * (Base * f[i].npa + f[i].nxx) + f[i].x
    BY <2>1, <2>2, LergKeys
  <2>4. PICK p \in Digit, q \in Digit, r \in Digit : p = f[i].npa /\ q = f[i].nxx /\ r = f[i].x
    BY <2>3
  <2>5. Base * p + q \in Nat /\ Base * a + b \in Nat
    BY <1>3
  <2>6. Base * (Base * p + q) + r = Base * (Base * a + b) + c <=> Base * p + q = Base * a + b /\ r = c
    BY <2>5, LastDigit
  <2>7. Base * p + q = Base * a + b <=> p = a /\ q = b
    <3>1. p \in Nat /\ a \in Nat
      BY <1>3
    <3>. QED
      BY <3>1, LastDigit
  <2>8. KeyAt("lerg", f, i) = n \div Weight[3] <=> p = a /\ q = b /\ r = c
    BY <1>1, <2>1, <2>3, <2>4, <2>6, <2>7
  <2>9. i \in RowsFor(f, n, Digits(n)[3]) <=> p = a /\ q = b /\ r = c
    BY <1>2, <2>1, <2>4 DEF RowsFor
  <2>. QED
    BY <2>8, <2>9
<1>5. ASSUME NEW i \in RowsFor(f, n, Digits(n)[3])
      PROVE  i \in RowsIn("lerg", f, Len(f), "block") /\ n \div Weight[3] # 0
  <2>1. i \in Rows(f) /\ f[i] \in LergRow /\ f[i].npa = a /\ f[i].x = c
    BY <1>2, <1>5, LergRows DEF RowsFor
  <2>2. Dict(f[i]) = "block" /\ a # 0
    BY <1>3, <2>1, LergKeys
  <2>3. i \in RowsIn("lerg", f, Len(f), "block")
    BY <2>1, <2>2, LergRows DEF RowsIn, Place
  <2>4. a \in Nat /\ b \in Nat /\ c \in Nat /\ Base * a + b \in Nat /\ Base * a + b # 0
    BY <1>3, <2>2
  <2>5. Base * (Base * a + b) + c # 0
    BY <1>3, <2>4
  <2>. QED
    BY <1>1, <2>3, <2>5
<1>. QED
  BY <1>4, <1>5

\* Likewise its exchange.
LEMMA ExchangeRows ==
  ASSUME NEW f \in Files["lerg"], NEW n \in Numbers
  PROVE  /\ \A i \in RowsIn("lerg", f, Len(f), "exchange") :
              KeyAt("lerg", f, i) = (n \div Weight[3]) \div Base <=> i \in RowsFor(f, n, Blank)
         /\ RowsFor(f, n, Blank) \subseteq RowsIn("lerg", f, Len(f), "exchange")
         /\ RowsFor(f, n, Blank) # {} => (n \div Weight[3]) \div Base # 0
<1>1. PICK a \in Digit, b \in Digit, c \in Digit, d \in Digit :
        /\ n \div Weight[3] = Base * (Base * a + b) + c
        /\ Digits(n) = <<a, b, c, d>>
  BY Cuts
<1>2. Digits(n)[1] = a /\ Digits(n)[2] = b
  BY <1>1
<1>3. Digit \subseteq Nat /\ Base \in Nat \ {0} /\ Blank \notin Digit
  BY Weights, CsvAssumption DEF Digit
<1>. DEFINE y == Base * a + b
<1>4. y \in Nat /\ c \in 0..Base-1
  BY <1>3 DEF Digit
<1>5. (n \div Weight[3]) \div Base = y
  <2>. HIDE DEF y
  <2>1. n \div Weight[3] = Base * y + c
    BY <1>1 DEF y
  <2>. QED
    BY <1>3, <1>4, <2>1, Quotient
<1>6. ASSUME NEW i \in RowsIn("lerg", f, Len(f), "exchange")
      PROVE  KeyAt("lerg", f, i) = y <=> i \in RowsFor(f, n, Blank)
  <2>1. /\ i \in Rows(f) /\ f[i] \in LergRow /\ KeyAt("lerg", f, i) = LergKey(f[i])
        /\ Dict(f[i]) = "exchange"
    BY <1>6, LergRows DEF RowsIn, Place
  <2>2. f[i].x = Blank
    BY <2>1, LergKeys
  <2>3. /\ f[i].npa \in Digit /\ f[i].nxx \in Digit
        /\ LergKey(f[i]) = Base * f[i].npa + f[i].nxx
    BY <2>1, <2>2, LergKeys
  <2>4. PICK p \in Digit, q \in Digit : p = f[i].npa /\ q = f[i].nxx
    BY <2>3
  <2>5. Base * p + q = Base * a + b <=> p = a /\ q = b
    <3>1. p \in Nat /\ a \in Nat
      BY <1>3
    <3>. QED
      BY <3>1, LastDigit
  <2>6. KeyAt("lerg", f, i) = y <=> p = a /\ q = b
    BY <2>1, <2>3, <2>4, <2>5
  <2>7. i \in RowsFor(f, n, Blank) <=> p = a /\ q = b
    BY <1>2, <2>1, <2>2, <2>4 DEF RowsFor
  <2>. QED
    BY <2>6, <2>7
<1>7. ASSUME NEW i \in RowsFor(f, n, Blank)
      PROVE  i \in RowsIn("lerg", f, Len(f), "exchange") /\ y # 0
  <2>1. i \in Rows(f) /\ f[i] \in LergRow /\ f[i].npa = a /\ f[i].x = Blank
    BY <1>2, <1>7, LergRows DEF RowsFor
  <2>2. Dict(f[i]) = "exchange" /\ a # 0
    BY <2>1, LergKeys
  <2>3. i \in RowsIn("lerg", f, Len(f), "exchange")
    BY <2>1, <2>2, LergRows DEF RowsIn, Place
  <2>4. y # 0
    BY <1>3, <2>2
  <2>. QED
    BY <2>3, <2>4
<1>. QED
  BY <1>5, <1>6, <1>7

\* The rows of dictionary d with the key are those in I.
HaveKey(f, d, key, I) ==
  /\ \A i \in RowsIn("lerg", f, Len(f), d) : KeyAt("lerg", f, i) = key <=> i \in I
  /\ I \subseteq RowsIn("lerg", f, Len(f), d) /\ (I # {} => key # 0)

\* What one dictionary answers for a key of which the rows are known.
LEMMA FindInRows ==
  ASSUME NEW f \in Files["lerg"], NEW d, NEW dict, Clean("lerg", f, Len(f)),
         DictHas(dict, "lerg", f, Len(f), d), NEW key \in Nat, NEW I, HaveKey(f, d, key, I)
  PROVE  /\ I = {} => FindIn(dict, key) = NONE
         /\ I # {} => FindIn(dict, key) # NONE /\ I = {FindIn(dict, key).row}
<1>1. CASE I = {}
  <2>1. key \notin DOMAIN dict
    BY <1>1 DEF DictHas, KeysIn, HaveKey
  <2>. QED
    BY <1>1, <2>1 DEF FindIn
<1>2. CASE I # {}
  <2>1. PICK i \in I : TRUE
    BY <1>2
  <2>2. i \in RowsIn("lerg", f, Len(f), d) /\ KeyAt("lerg", f, i) = key /\ key # 0
    BY <1>2, <2>1 DEF HaveKey
  <2>3. \A j \in I : j = i
    BY <2>1, <2>2 DEF RowsIn, Clean, HaveKey
  <2>4. key \in DOMAIN dict /\ dict[key] = [lerg_key |-> key, row |-> i]
    BY <2>2 DEF DictHas, KeysIn, RecordOf
  <2>5. i \in Nat
    BY <2>2, LergRows DEF RowsIn
  <2>6. dict[key] # NONE
    BY <2>4, <2>5, CsvAssumption
  <2>7. FindIn(dict, key) = dict[key] /\ dict[key].row = i
    BY <2>2, <2>4 DEF FindIn
  <2>. QED
    BY <1>2, <2>1, <2>3, <2>6, <2>7
<1>. QED
  BY <1>1, <1>2

\* The state says what the property says.
LEMMA LergExact == IInv => LergIsMostSpecific
<1>. SUFFICES ASSUME IInv, lerg # NONE PROVE LergIsMostSpecific
  BY DEF LergIsMostSpecific
<1>1. PICK f \in Files["lerg"] :
        meta["lerg"] = <<"lerg", f>> /\ Clean("lerg", f, Len(f)) /\ LergHas(lerg, f, Len(f))
  BY DEF IInv, LergServed
<1>2. meta["lerg"][2] = f
  BY <1>1
<1>. DEFINE best(n) == IF RowsFor(f, n, Digits(n)[3]) # {} THEN RowsFor(f, n, Digits(n)[3])
                       ELSE RowsFor(f, n, Blank)
<1>3. ASSUME NEW n \in Numbers
      PROVE  IF best(n) = {} THEN getLerg(n) = NONE
             ELSE getLerg(n) # NONE /\ best(n) = {getLerg(n).row}
  <2>. DEFINE block == FindIn(lerg["block"], n \div Weight[3])
              exchange == FindIn(lerg["exchange"], (n \div Weight[3]) \div Base)
  <2>1. n \div Weight[3] \in Nat /\ (n \div Weight[3]) \div Base \in Nat
    BY Weights DEF Numbers
  <2>2. DictHas(lerg["block"], "lerg", f, Len(f), "block")
        /\ DictHas(lerg["exchange"], "lerg", f, Len(f), "exchange")
    BY <1>1 DEF LergHas
  <2>3. /\ RowsFor(f, n, Digits(n)[3]) = {} => block = NONE
        /\ RowsFor(f, n, Digits(n)[3]) # {} =>
             block # NONE /\ RowsFor(f, n, Digits(n)[3]) = {block.row}
    <3>1. PICK key, I : key \in Nat /\ key = n \div Weight[3] /\ I = RowsFor(f, n, Digits(n)[3])
      BY <2>1
    <3>2. HaveKey(f, "block", key, I)
      BY <3>1, BlockRows DEF HaveKey
    <3>3. /\ I = {} => FindIn(lerg["block"], key) = NONE
          /\ I # {} => FindIn(lerg["block"], key) # NONE /\ I = {FindIn(lerg["block"], key).row}
      BY <1>1, <2>2, <3>1, <3>2, FindInRows
    <3>. QED
      BY <3>1, <3>3
  <2>4. /\ RowsFor(f, n, Blank) = {} => exchange = NONE
        /\ RowsFor(f, n, Blank) # {} => exchange # NONE /\ RowsFor(f, n, Blank) = {exchange.row}
    <3>1. PICK key, I : key \in Nat /\ key = (n \div Weight[3]) \div Base /\ I = RowsFor(f, n, Blank)
      BY <2>1
    <3>2. HaveKey(f, "exchange", key, I)
      BY <3>1, ExchangeRows DEF HaveKey
    <3>3. /\ I = {} => FindIn(lerg["exchange"], key) = NONE
          /\ I # {} => FindIn(lerg["exchange"], key) # NONE /\ I = {FindIn(lerg["exchange"], key).row}
      BY <1>1, <2>2, <3>1, <3>2, FindInRows
    <3>. QED
      BY <3>1, <3>3
  <2>5. getLerg(n) = IF block # NONE THEN block ELSE exchange
    BY DEF getLerg
  <2>. HIDE DEF block, exchange
  <2>. QED
    BY <2>3, <2>4, <2>5
<1>. QED
  BY <1>2, <1>3 DEF LergIsMostSpecific, RowsFor

\* The carrier record found for a number is that of its block, or else of its
\* exchange, in the file in service.
THEOREM LergSpecificity == Spec => []LergIsMostSpecific
<1>. QED
  BY Invariance, LergExact, PTL

-----------------------------------------------------------------------------
(* Broken files.                                                           *)

AnyLine == [cols : Seq(Seq(Char)), comma : BOOLEAN, junk : Nat]

\* A row whose columns are all there reads none behind its end.
LEMMA RowPast ==
  ASSUME NEW line, NEW key, NEW data, Row(line, key, data).is = "row"
  PROVE  Row(line, key, data).past <=> \E f \in DOMAIN data : data[f] > Len(line.cols)
BY DEF Row

\* Only Geo and FTC rows are completed with what is behind them.
LEMMA PastRows ==
  ASSUME NEW k \in TableKinds, NEW line \in AnyLine, Outcome(k, line).is = "row", Outcome(k, line).past
  PROVE  <<k, Len(line.cols)>> \in {<<"geo", 19>>, <<"ftc", 5>>}
<1>1. Len(line.cols) \in Nat
  BY DEF AnyLine
<1>. DEFINE n == Len(line.cols)
<1>. HIDE DEF n
<1>2. Outcome(k, line) = ReadLine(k, line) /\ n \in Nat
  BY <1>1 DEF Outcome, n
<1>3. CASE k = "dnc"
  <2>2. PICK key : Outcome(k, line) = Row(line, key, NoData)
    BY <1>2, <1>3 DEF ReadLine, Dnc_fromCSV, Dnc_addRow
  <2>. QED
    BY <2>2, RowPast DEF NoData
<1>4. CASE k = "tollfree"
  <2>1. Outcome(k, line) = Row(line, stoll(line.cols[1]), NoData)
    BY <1>2, <1>4 DEF ReadLine, TollFree_fromCSV, TollFree_addRow, Skipped, BadColumns
  <2>2. PICK key : Outcome(k, line) = Row(line, key, NoData)
    BY <2>1
  <2>. QED
    BY <2>2, RowPast DEF NoData
<1>5. CASE k = "youmail"
  <2>1. Outcome(k, line) = Row(line, stoll(EraseCountry(line.cols[1])), YoumailData) /\ (n = 5 \/ n = 4)
    BY <1>2, <1>5 DEF ReadLine, Youmail_fromCSV, Youmail_addRow, Skipped, BadColumns, n
  <2>2. PICK key : Outcome(k, line) = Row(line, key, YoumailData)
    BY <2>1
  <2>3. \E f \in DOMAIN YoumailData : YoumailData[f] > n
    BY <2>2, RowPast DEF n
  <2>. QED
    BY <2>1, <2>3 DEF YoumailData
<1>6. CASE k = "geo"
  <2>1. Outcome(k, line) = Row(line, stoll(line.cols[1]), GeoData) /\ n >= 19
    BY <1>2, <1>6 DEF ReadLine, Geo_fromCSV, Geo_addRow, BadColumns, n
  <2>2. PICK key : Outcome(k, line) = Row(line, key, GeoData)
    BY <2>1
  <2>3. \E f \in DOMAIN GeoData : GeoData[f] > n
    BY <2>2, RowPast DEF n
  <2>4. n < 20
    BY <1>2, <2>3 DEF GeoData
  <2>5. n = 19
    BY <1>2, <2>1, <2>4
  <2>. QED
    BY <1>6, <2>5 DEF n
<1>7. CASE k = "ftc"
  <2>1. Outcome(k, line) = Row(line, stoll(line.cols[2]), FtcData) /\ n >= 5
    BY <1>2, <1>7 DEF ReadLine, Ftc_fromCSV, Ftc_addRow, BadColumns, Skipped, n
  <2>2. PICK key : Outcome(k, line) = Row(line, key, FtcData)
    BY <2>1
  <2>3. \E f \in DOMAIN FtcData : FtcData[f] > n
    BY <2>2, RowPast DEF n
  <2>4. n < 6
    BY <1>2, <2>3 DEF FtcData
  <2>5. n = 5
    BY <1>2, <2>1, <2>4
  <2>. QED
    BY <1>7, <2>5 DEF n
<1>8. CASE k = "f404"
  <2>1. Outcome(k, line) = Row(line, stoll(Tail(line.cols[1])), F404Data) /\ n >= 3
    BY <1>2, <1>8 DEF ReadLine, F404_fromCSV, F404_addRow, BadColumns, Skipped, n
  <2>2. PICK key : Outcome(k, line) = Row(line, key, F404Data)
    BY <2>1
  <2>3. \E f \in DOMAIN F404Data : F404Data[f] > n
    BY <2>2, RowPast DEF n
  <2>. QED
    BY <1>2, <2>1, <2>3 DEF F404Data
<1>9. CASE k = "f606"
  <2>1. Outcome(k, line) = Row(line, stoll(Tail(line.cols[1])), F606Data) /\ n >= 3
    BY <1>2, <1>9 DEF ReadLine, F606_fromCSV, F606_addRow, BadColumns, Skipped, n
  <2>2. PICK key : Outcome(k, line) = Row(line, key, F606Data)
    BY <2>1
  <2>3. \E f \in DOMAIN F606Data : F606Data[f] > n
    BY <2>2, RowPast DEF n
  <2>. QED
    BY <1>2, <2>1, <2>3 DEF F606Data
<1>. QED
  BY <1>3, <1>4, <1>5, <1>6, <1>7, <1>8, <1>9 DEF TableKinds

\* A file without an error is not broken.
LEMMA CleanIsUnbroken ==
  ASSUME NEW k \in Kinds, NEW f \in Files[k], Clean(k, f, Len(f))
  PROVE  LET rows == {i \in DOMAIN f : Outcome(k, f[i]).is = "row"}
         IN  /\ \A i \in DOMAIN f : Outcome(k, f[i]).is \notin {"columns", "field"}
             /\ \A i, j \in rows : f[i] = f[j] => i = j
             /\ k \notin DnoKinds => Cardinality(rows) <= MAXROWS
<1>1. DOMAIN f = 1..Len(f)
  BY FilesAreFinite
<1>2. {i \in DOMAIN f : Outcome(k, f[i]).is = "row"} = RowsUpTo(k, f, Len(f))
  BY <1>1 DEF RowsUpTo
<1>3. \A i \in DOMAIN f : Outcome(k, f[i]).is \notin {"columns", "field"}
  BY <1>1 DEF Clean
<1>4. \A i, j \in RowsUpTo(k, f, Len(f)) : f[i] = f[j] => i = j
  BY DEF Clean, KeyAt
<1>. QED
  BY <1>2, <1>3, <1>4 DEF Clean

\* The state says what the property says.
LEMMA Unbroken == IInv => NoBrokenFile
<1>. SUFFICES ASSUME IInv PROVE NoBrokenFile
  OBVIOUS
<1>. DEFINE Good(m, k, f) ==
       LET rows == {i \in DOMAIN f : Outcome(k, f[i]).is = "row"}
       IN  /\ \A i \in DOMAIN f : Outcome(k, f[i]).is \notin {"columns", "field"}
           /\ \A i, j \in rows : f[i] = f[j] => i = j
           /\ m # "dno" => Cardinality(rows) <= MAXROWS
           /\ m \in TableKinds =>
                \A key \in DOMAIN tables[m] : tables[m][key].garbage =>
                  <<m, Len(f[tables[m][key].row].cols)>> \in {<<"geo", 19>>, <<"ftc", 5>>}
<1>1. ASSUME meta["dno"] # NONE PROVE Good("dno", meta["dno"][1], meta["dno"][2])
  <2>1. PICK k \in DnoKinds : \E f \in Files[k] : meta["dno"] = <<k, f>> /\ Clean(k, f, Len(f))
    BY <1>1 DEF IInv, DnoServed
  <2>2. PICK f \in Files[k] : meta["dno"] = <<k, f>> /\ Clean(k, f, Len(f))
    BY <2>1
  <2>3. k \in Kinds /\ "dno" \notin TableKinds
    BY DEF Kinds, TableKinds
  <2>4. Good("dno", k, f)
    BY <2>2, <2>3, CleanIsUnbroken
  <2>. QED
    BY <2>2, <2>4
<1>2. ASSUME meta["lerg"] # NONE PROVE Good("lerg", meta["lerg"][1], meta["lerg"][2])
  <2>1. PICK f \in Files["lerg"] : meta["lerg"] = <<"lerg", f>> /\ Clean("lerg", f, Len(f))
    BY <1>2 DEF IInv, LergServed
  <2>2. "lerg" \in Kinds /\ "lerg" \notin TableKinds /\ "lerg" \notin DnoKinds
    BY DEF Kinds, TableKinds, DnoKinds
  <2>3. Good("lerg", "lerg", f)
    BY <2>1, <2>2, CleanIsUnbroken
  <2>. QED
    BY <2>1, <2>3
<1>3. ASSUME NEW k \in TableKinds, meta[k] # NONE PROVE Good(k, meta[k][1], meta[k][2])
  <2>1. PICK f \in Files[k] :
          meta[k] = <<k, f>> /\ Clean(k, f, Len(f)) /\ DictHas(tables[k], k, f, Len(f), "all")
    BY <1>3 DEF IInv, TablesServed, TableServed
  <2>2. k \in Kinds /\ k \notin DnoKinds /\ k # "lerg"
    BY <1>3 DEF Kinds, TableKinds, DnoKinds
  <2>3. f \in Seq(AnyLine)
    BY <1>3, CsvAssumption DEF AnyLine
  <2>4. ASSUME NEW key \in DOMAIN tables[k], tables[k][key].garbage
        PROVE  <<k, Len(f[tables[k][key].row].cols)>> \in {<<"geo", 19>>, <<"ftc", 5>>}
    <3>1. PICK i \in RowsIn(k, f, Len(f), "all") : key = KeyAt(k, f, i)
      BY <2>1, <2>4 DEF DictHas, KeysIn
    <3>2. tables[k][key] = [row |-> i, garbage |-> Outcome(k, f[i]).past]
      BY <2>1, <2>2, <3>1 DEF DictHas, RecordOf
    <3>3. i \in 1..Len(f) /\ Outcome(k, f[i]).is = "row"
      BY <3>1 DEF RowsIn, RowsUpTo
    <3>4. f[i] \in AnyLine
      BY <2>3, <3>3
    <3>5. <<k, Len(f[i].cols)>> \in {<<"geo", 19>>, <<"ftc", 5>>}
      BY <2>4, <3>2, <3>3, <3>4, PastRows
    <3>. QED
      BY <3>2, <3>5
  <2>5. Good(k, k, f)
    BY <2>1, <2>2, <2>4, CleanIsUnbroken
  <2>. QED
    BY <2>1, <2>5
<1>4. ASSUME NEW m \in Mappings, meta[m] # NONE PROVE Good(m, meta[m][1], meta[m][2])
  <2>. HIDE DEF Good
  <2>1. m = "dno" \/ m = "lerg" \/ m \in TableKinds
    BY DEF Mappings
  <2>. QED
    BY <1>1, <1>2, <1>3, <1>4, <2>1, Zenon
<1>. QED
  BY <1>4 DEF NoBrokenFile

\* A file with a broken or repeated row, or with more rows than fit, is never in
\* service, but a Geo or FTC row may be one column short.
THEOREM NoBrokenFiles == Spec => []NoBrokenFile
<1>. QED
  BY Invariance, Unbroken, PTL

-----------------------------------------------------------------------------
(* Numbers as the rows spell them.                                         *)

\* The value of a number's digits is the number.
LEMMA ValueOfFour ==
  ASSUME NEW a \in Digit, NEW b \in Digit, NEW c \in Digit, NEW d \in Digit
  PROVE  Value(<<a, b, c, d>>) = Base * (Base * (Base * a + b) + c) + d
<1>1. Base \in Nat /\ a \in Nat /\ b \in Nat /\ c \in Nat /\ d \in Nat
  BY Weights DEF Digit
<1>2. PICK s : s = <<a, b, c, d>>
  OBVIOUS
<1>3. Len(s) = 4 /\ s[1] = a /\ s[2] = b /\ s[3] = c /\ s[4] = d
  BY <1>2
<1>. DEFINE x == a * Base + b
            y == x * Base + c
            z == y * Base + d
            w == [i \in 0..4 |-> IF i = 0 THEN 0 ELSE IF i = 1 THEN a ELSE IF i = 2 THEN x
                                 ELSE IF i = 3 THEN y ELSE z]
<1>4. x \in Nat /\ y \in Nat /\ z \in Nat /\ z = Base * (Base * (Base * a + b) + c) + d
  BY <1>1
<1>5. w = [i \in 0..Len(s) |-> IF i = 0 THEN 0 ELSE w[i - 1] * Base + s[i]]
  <2>1. /\ a = 0 * Base + s[1] /\ x = a * Base + s[2] /\ y = x * Base + s[3] /\ z = y * Base + s[4]
    BY <1>1, <1>3
  <2>. HIDE DEF x, y, z
  <2>2. /\ w[0] = 0 /\ w[1] = w[0] * Base + s[1] /\ w[2] = w[1] * Base + s[2]
        /\ w[3] = w[2] * Base + s[3] /\ w[4] = w[3] * Base + s[4]
    BY <2>1
  <2>. HIDE DEF w
  <2>3. \A i \in 0..4 : w[i] = IF i = 0 THEN 0 ELSE w[i - 1] * Base + s[i]
    <3>. TAKE i \in 0..4
    <3>1. i = 0 \/ i = 1 \/ i = 2 \/ i = 3 \/ i = 4
      OBVIOUS
    <3>. QED
      BY <2>2, <3>1
  <2>4. w = [i \in 0..4 |-> w[i]]
    BY DEF w
  <2>. QED
    BY <1>3, <2>3, <2>4
<1>. HIDE DEF w
<1>6. PICK v : v = [i \in 0..Len(s) |-> IF i = 0 THEN 0 ELSE v[i - 1] * Base + s[i]] /\ Value(s) = v[Len(s)]
  BY <1>5, Zenon DEF Value
<1>7. v[0] = 0 /\ v[1] = v[0] * Base + s[1]
  BY <1>3, <1>6
<1>8. v[2] = v[1] * Base + s[2] /\ v[3] = v[2] * Base + s[3]
  BY <1>3, <1>6
<1>9. v[4] = v[3] * Base + s[4] /\ Value(s) = v[4]
  BY <1>3, <1>6
<1>10. v[1] = a /\ v[2] = x
  BY <1>1, <1>3, <1>7, <1>8
<1>11. v[3] = y /\ v[4] = z
  BY <1>1, <1>3, <1>4, <1>8, <1>9, <1>10
<1>. QED
  BY <1>2, <1>4, <1>9, <1>11

\* Likewise the value of an exchange.
LEMMA ValueOfTwo ==
  ASSUME NEW a \in Digit, NEW b \in Digit
  PROVE  Value(<<a, b>>) = Base * a + b
<1>1. Base \in Nat /\ a \in Nat /\ b \in Nat
  BY Weights DEF Digit
<1>2. PICK s : s = <<a, b>>
  OBVIOUS
<1>3. Len(s) = 2 /\ s[1] = a /\ s[2] = b
  BY <1>2
<1>. DEFINE x == a * Base + b
            w == [i \in 0..2 |-> IF i = 0 THEN 0 ELSE IF i = 1 THEN a ELSE x]
<1>4. x \in Nat /\ x = Base * a + b
  BY <1>1
<1>5. w = [i \in 0..Len(s) |-> IF i = 0 THEN 0 ELSE w[i - 1] * Base + s[i]]
  <2>1. a = 0 * Base + s[1] /\ x = a * Base + s[2]
    BY <1>1, <1>3
  <2>. HIDE DEF x
  <2>2. w[0] = 0 /\ w[1] = w[0] * Base + s[1] /\ w[2] = w[1] * Base + s[2]
    BY <2>1
  <2>. HIDE DEF w
  <2>3. \A i \in 0..2 : w[i] = IF i = 0 THEN 0 ELSE w[i - 1] * Base + s[i]
    <3>. TAKE i \in 0..2
    <3>1. i = 0 \/ i = 1 \/ i = 2
      OBVIOUS
    <3>. QED
      BY <2>2, <3>1
  <2>4. w = [i \in 0..2 |-> w[i]]
    BY DEF w
  <2>. QED
    BY <1>3, <2>3, <2>4
<1>. HIDE DEF w
<1>6. PICK v : v = [i \in 0..Len(s) |-> IF i = 0 THEN 0 ELSE v[i - 1] * Base + s[i]] /\ Value(s) = v[Len(s)]
  BY <1>5, Zenon DEF Value
<1>7. v[0] = 0 /\ v[1] = v[0] * Base + s[1]
  BY <1>3, <1>6
<1>8. v[2] = v[1] * Base + s[2] /\ Value(s) = v[2]
  BY <1>3, <1>6
<1>9. v[1] = a /\ v[2] = x
  BY <1>1, <1>3, <1>7, <1>8
<1>. QED
  BY <1>2, <1>4, <1>8, <1>9

\* Parts of a number with and without its country code.
LEMMA DigitsInside ==
  ASSUME NEW a, NEW b, NEW c, NEW d
  PROVE  SubSeq(<<a, b, c, d>>, 1, 2) = <<a, b>>
<1>1. PICK s : s = <<a, b, c, d>>
  OBVIOUS
<1>2. s \in Seq({a, b, c, d}) /\ Len(s) = 4 /\ s[1] = a /\ s[2] = b
  BY <1>1
<1>3. PICK u : u = SubSeq(s, 1, 2)
  OBVIOUS
<1>4. u \in Seq({a, b, c, d}) /\ Len(u) = 2
  BY <1>2, <1>3
<1>5. u[1] = a /\ u[2] = b
  BY <1>2, <1>3
<1>6. u = <<a, b>>
  BY <1>4, <1>5
<1>. QED
  BY <1>1, <1>3, <1>6

\* The last four of six.
LEMMA DigitsBehind ==
  ASSUME NEW x, NEW y, NEW a, NEW b, NEW c, NEW d
  PROVE  SubSeq(<<x, y, a, b, c, d>>, 3, 6) = <<a, b, c, d>>
<1>1. PICK s : s = <<x, y, a, b, c, d>>
  OBVIOUS
<1>2. s \in Seq({x, y, a, b, c, d}) /\ Len(s) = 6 /\ s[3] = a /\ s[4] = b /\ s[5] = c /\ s[6] = d
  BY <1>1
<1>3. PICK u : u = SubSeq(s, 3, 6)
  OBVIOUS
<1>4. u \in Seq({x, y, a, b, c, d}) /\ Len(u) = 4
  BY <1>2, <1>3
<1>5. u[1] = a /\ u[2] = b /\ u[3] = c /\ u[4] = d
  BY <1>2, <1>3
<1>6. u = <<a, b, c, d>>
  BY <1>4, <1>5
<1>. QED
  BY <1>1, <1>3, <1>6

\* One more in front.
LEMMA OneInFront ==
  ASSUME NEW x, NEW a, NEW b, NEW c, NEW d
  PROVE  <<x>> \o <<a, b, c, d>> = <<x, a, b, c, d>>
<1>1. PICK u, v : u = <<x>> /\ v = <<a, b, c, d>>
  OBVIOUS
<1>2. u \in Seq({x, a, b, c, d}) /\ Len(u) = 1 /\ u[1] = x
  BY <1>1
<1>3. v \in Seq({x, a, b, c, d}) /\ Len(v) = 4 /\ v[1] = a /\ v[2] = b /\ v[3] = c /\ v[4] = d
  BY <1>1
<1>4. PICK s : s = u \o v
  OBVIOUS
<1>5. /\ s \in Seq({x, a, b, c, d}) /\ Len(s) = Len(u) + Len(v)
      /\ \A i \in 1..(Len(u) + Len(v)) : s[i] = IF i <= Len(u) THEN u[i] ELSE v[i - Len(u)]
  <2>1. u \in Seq({x, a, b, c, d}) /\ v \in Seq({x, a, b, c, d})
    BY <1>2, <1>3
  <2>. QED
    BY <1>4, <2>1, ConcatProperties
<1>6. s \in Seq({x, a, b, c, d}) /\ Len(s) = 5 /\ \A i \in 1..5 : s[i] = IF i <= 1 THEN u[i] ELSE v[i - 1]
  BY <1>2, <1>3, <1>5
<1>7. s[1] = x
  BY <1>2, <1>6
<1>8. s[2] = a /\ s[3] = b /\ s[4] = c /\ s[5] = d
  BY <1>3, <1>6
<1>9. s = <<x, a, b, c, d>>
  <2>1. s \in Seq({x, a, b, c, d}) /\ Len(s) = 5
    BY <1>6
  <2>. QED
    BY <1>7, <1>8, <2>1
<1>. QED
  BY <1>1, <1>4, <1>9

\* Two more in front.
LEMMA TwoInFront ==
  ASSUME NEW x, NEW y, NEW a, NEW b, NEW c, NEW d
  PROVE  <<x, y>> \o <<a, b, c, d>> = <<x, y, a, b, c, d>>
<1>1. PICK u, v : u = <<x, y>> /\ v = <<a, b, c, d>>
  OBVIOUS
<1>2. u \in Seq({x, y, a, b, c, d}) /\ Len(u) = 2 /\ u[1] = x /\ u[2] = y
  BY <1>1
<1>3. v \in Seq({x, y, a, b, c, d}) /\ Len(v) = 4 /\ v[1] = a /\ v[2] = b /\ v[3] = c /\ v[4] = d
  BY <1>1
<1>4. PICK s : s = u \o v
  OBVIOUS
<1>5. /\ s \in Seq({x, y, a, b, c, d}) /\ Len(s) = Len(u) + Len(v)
      /\ \A i \in 1..(Len(u) + Len(v)) : s[i] = IF i <= Len(u) THEN u[i] ELSE v[i - Len(u)]
  <2>1. u \in Seq({x, y, a, b, c, d}) /\ v \in Seq({x, y, a, b, c, d})
    BY <1>2, <1>3
  <2>. QED
    BY <1>4, <2>1, ConcatProperties
<1>6. s \in Seq({x, y, a, b, c, d}) /\ Len(s) = 6 /\ \A i \in 1..6 : s[i] = IF i <= 2 THEN u[i] ELSE v[i - 2]
  BY <1>2, <1>3, <1>5
<1>7. s[1] = x /\ s[2] = y
  BY <1>2, <1>6
<1>8. s[3] = a /\ s[4] = b /\ s[5] = c /\ s[6] = d
  BY <1>3, <1>6
<1>9. s = <<x, y, a, b, c, d>>
  <2>1. s \in Seq({x, y, a, b, c, d}) /\ Len(s) = 6
    BY <1>6
  <2>. QED
    BY <1>7, <1>8, <2>1
<1>. QED
  BY <1>1, <1>4, <1>9

\* One more in front of three.
LEMMA OneBeforeThree ==
  ASSUME NEW x, NEW a, NEW b, NEW c
  PROVE  <<x>> \o <<a, b, c>> = <<x, a, b, c>>
<1>1. PICK u, v : u = <<x>> /\ v = <<a, b, c>>
  OBVIOUS
<1>2. u \in Seq({x, a, b, c}) /\ Len(u) = 1 /\ u[1] = x
  BY <1>1
<1>3. v \in Seq({x, a, b, c}) /\ Len(v) = 3 /\ v[1] = a /\ v[2] = b /\ v[3] = c
  BY <1>1
<1>4. PICK s : s = u \o v
  OBVIOUS
<1>5. /\ s \in Seq({x, a, b, c}) /\ Len(s) = Len(u) + Len(v)
      /\ \A i \in 1..(Len(u) + Len(v)) : s[i] = IF i <= Len(u) THEN u[i] ELSE v[i - Len(u)]
  <2>1. u \in Seq({x, a, b, c}) /\ v \in Seq({x, a, b, c})
    BY <1>2, <1>3
  <2>. QED
    BY <1>4, <2>1, ConcatProperties
<1>6. s \in Seq({x, a, b, c}) /\ Len(s) = 4 /\ \A i \in 1..4 : s[i] = IF i <= 1 THEN u[i] ELSE v[i - 1]
  BY <1>2, <1>3, <1>5
<1>7. s[1] = x
  BY <1>2, <1>6
<1>8. s[2] = a /\ s[3] = b /\ s[4] = c
  BY <1>3, <1>6
<1>9. s = <<x, a, b, c>>
  <2>1. s \in Seq({x, a, b, c}) /\ Len(s) = 4
    BY <1>6
  <2>. QED
    BY <1>7, <1>8, <2>1
<1>. QED
  BY <1>1, <1>4, <1>9

\* A country code and white space in front of a number with punctuation.
LEMMA ThreeInFront ==
  ASSUME NEW x, NEW y, NEW z, NEW p, NEW a, NEW b, NEW c, NEW d
  PROVE  <<x, y, z>> \o <<p, a, p, z, b, c, p, d>> = <<x, y, z, p, a, p, z, b, c, p, d>>
<1>1. PICK u, v : u = <<x, y, z>> /\ v = <<p, a, p, z, b, c, p, d>>
  OBVIOUS
<1>2. u \in Seq({x, y, z, p, a, b, c, d}) /\ Len(u) = 3 /\ u[1] = x /\ u[2] = y /\ u[3] = z
  BY <1>1
<1>3. v \in Seq({x, y, z, p, a, b, c, d}) /\ Len(v) = 8 /\ v[1] = p /\ v[2] = a /\ v[3] = p /\ v[4] = z /\ v[5] = b /\ v[6] = c /\ v[7] = p /\ v[8] = d
  BY <1>1
<1>4. PICK s : s = u \o v
  OBVIOUS
<1>5. /\ s \in Seq({x, y, z, p, a, b, c, d}) /\ Len(s) = Len(u) + Len(v)
      /\ \A i \in 1..(Len(u) + Len(v)) : s[i] = IF i <= Len(u) THEN u[i] ELSE v[i - Len(u)]
  <2>1. u \in Seq({x, y, z, p, a, b, c, d}) /\ v \in Seq({x, y, z, p, a, b, c, d})
    BY <1>2, <1>3
  <2>. QED
    BY <1>4, <2>1, ConcatProperties
<1>6. s \in Seq({x, y, z, p, a, b, c, d}) /\ Len(s) = 11 /\ \A i \in 1..11 : s[i] = IF i <= 3 THEN u[i] ELSE v[i - 3]
  BY <1>2, <1>3, <1>5
<1>7. s[1] = x /\ s[2] = y /\ s[3] = z
  BY <1>2, <1>6
<1>8. s[4] = p /\ s[5] = a /\ s[6] = p /\ s[7] = z /\ s[8] = b /\ s[9] = c /\ s[10] = p /\ s[11] = d
  BY <1>3, <1>6
<1>9. s = <<x, y, z, p, a, p, z, b, c, p, d>>
  <2>1. s \in Seq({x, y, z, p, a, b, c, d}) /\ Len(s) = 11
    BY <1>6
  <2>. QED
    BY <1>7, <1>8, <2>1
<1>. QED
  BY <1>1, <1>4, <1>9

\* Digits are leading digits.
LEMMA AllLeading ==
  ASSUME NEW s \in Seq(Digit)
  PROVE  LeadingDigits(s) = s
<1>1. Len(s) \in Nat /\ DOMAIN s = 1..Len(s) /\ \A i \in 1..Len(s) : s[i] \in Digit
  OBVIOUS
<1>2. Digit \subseteq Nat /\ Plus \notin Nat
  BY Weights, RowsAssumption DEF Digit
<1>3. ~(s # <<>> /\ Head(s) = Plus)
  <2>1. s # <<>> => Head(s) \in Digit
    OBVIOUS
  <2>. QED
    BY <1>2, <2>1
<1>. DEFINE P(n) == /\ \A i \in 1..n : s[i] \in Digit
                    /\ n < Len(s) => s[n + 1] \notin Digit
<1>4. Len(s) \in 0..Len(s) /\ P(Len(s))
  BY <1>1
<1>5. ASSUME NEW n \in 0..Len(s), P(n) PROVE n = Len(s)
  <2>1. PICK m \in Nat : m = Len(s)
    BY <1>1
  <2>2. n \in 0..m /\ (n < m => s[n + 1] \notin Digit) /\ \A i \in 1..m : s[i] \in Digit
    BY <1>1, <1>5, <2>1
  <2>3. ~(n < m)
    <3>. SUFFICES ASSUME n < m PROVE FALSE
      OBVIOUS
    <3>1. n + 1 \in 1..m
      BY <2>2
    <3>. QED
      BY <2>2, <3>1
  <2>. QED
    BY <2>1, <2>2, <2>3
<1>6. (CHOOSE n \in 0..Len(s) : P(n)) = Len(s)
  BY <1>4, <1>5
<1>7. LeadingDigits(s) = SubSeq(s, 1, Len(s))
  BY <1>3, <1>6 DEF LeadingDigits
<1>. QED
  BY <1>1, <1>7

\* std::stoll and >> read the digits of a number as the number, and those of an
\* exchange as what is left of its numbers without the other digits.
LEMMA NumbersAreRead ==
  ASSUME NEW n \in Numbers
  PROVE  /\ stoll(Digits(n)) = n /\ Extract(Digits(n)) = n
         /\ stoll(SubSeq(Digits(n), 1, 2)) = n \div Weight[2]
<1>1. PICK a \in Digit, b \in Digit, c \in Digit, d \in Digit :
        /\ n \div Weight[2] = Base * a + b
        /\ n = Base * (Base * (Base * a + b) + c) + d /\ Digits(n) = <<a, b, c, d>>
  BY Cuts
<1>2. <<a, b, c, d>> \in Seq(Digit) /\ <<a, b>> \in Seq(Digit)
  OBVIOUS
<1>5. SubSeq(<<a, b, c, d>>, 1, 2) = <<a, b>>
  BY DigitsInside
<1>3. LeadingDigits(<<a, b, c, d>>) = <<a, b, c, d>> /\ LeadingDigits(<<a, b>>) = <<a, b>>
  BY <1>2, AllLeading
<1>4. <<a, b, c, d>> # <<>> /\ <<a, b>> # <<>>
  OBVIOUS
<1>6. stoll(<<a, b, c, d>>) = n /\ Extract(<<a, b, c, d>>) = n
  BY <1>1, <1>3, <1>4, ValueOfFour DEF stoll, Extract
<1>7. stoll(<<a, b>>) = n \div Weight[2]
  BY <1>1, <1>3, <1>4, ValueOfTwo DEF stoll
<1>. QED
  BY <1>1, <1>5, <1>6, <1>7

\* A Youmail row without its country code.
LEMMA CountryErased ==
  ASSUME NEW a \in Digit, NEW b \in Digit, NEW c \in Digit, NEW d \in Digit
  PROVE  EraseCountry(<<Plus, 1>> \o <<a, b, c, d>>) = <<a, b, c, d>>
<1>1. PICK s : s = <<Plus, 1, a, b, c, d>>
  OBVIOUS
<1>2. s = <<Plus, 1>> \o <<a, b, c, d>>
  BY <1>1
<1>3. Plus \notin Digit /\ Plus # 1
  BY Weights, RowsAssumption DEF Digit
<1>4. Len(s) = 6 /\ s[1] = Plus /\ s[2] = 1 /\ s[3] = a /\ s[4] = b /\ s[5] = c /\ s[6] = d
  BY <1>1
<1>. DEFINE at == {i \in 1..Len(s) - 1 : s[i] = Plus /\ s[i + 1] = 1}
<1>5. at = {1}
  <2>1. \A i \in 1..5 : i = 1 \/ i = 2 \/ i = 3 \/ i = 4 \/ i = 5
    OBVIOUS
  <2>. QED
    BY <1>3, <1>4, <2>1
<1>6. (CHOOSE i \in at : \A j \in at : i <= j) = 1
  BY <1>5
<1>7. EraseCountry(s) = SubSeq(s, 1, 0) \o SubSeq(s, 3, 6)
  <2>1. EraseCountry(s) = IF at = {} THEN s
                          ELSE LET i == CHOOSE i \in at : \A j \in at : i <= j
                               IN  SubSeq(s, 1, i - 1) \o SubSeq(s, i + 2, Len(s))
    BY DEF EraseCountry
  <2>2. PICK first : first = CHOOSE i \in at : \A j \in at : i <= j
    OBVIOUS
  <2>3. EraseCountry(s) = SubSeq(s, 1, first - 1) \o SubSeq(s, first + 2, Len(s))
    BY <1>5, <2>1, <2>2, Zenon
  <2>4. first = 1
    BY <1>6, <2>2, Zenon
  <2>. QED
    BY <1>4, <2>3, <2>4
<1>8. SubSeq(s, 1, 0) = <<>>
  BY <1>1
<1>9. SubSeq(s, 3, 6) = <<a, b, c, d>>
  BY <1>1, DigitsBehind
<1>. QED
  BY <1>2, <1>7, <1>8, <1>9

-----------------------------------------------------------------------------
(* The tables.                                                             *)

\* The key that a query for number n is looked up with.
KeyFor(k, n) == IF k = "geo" THEN n \div Weight[2] ELSE n

\* A row tells whether it was complete.
LEMMA PastIsBoolean ==
  ASSUME NEW k \in TableKinds, NEW line, Outcome(k, line).is = "row"
  PROVE  Outcome(k, line).past \in BOOLEAN
<1>1. Outcome(k, line) = ReadLine(k, line)
  BY DEF Outcome
<1>2. ReadLine(k, line) = Skipped \/ ReadLine(k, line) = BadColumns
        \/ \E key, data : ReadLine(k, line) = Row(line, key, data)
  <2>1. CASE k = "dnc"
    BY <2>1 DEF ReadLine, Dnc_fromCSV, Dnc_addRow
  <2>2. CASE k = "tollfree"
    BY <2>2 DEF ReadLine, TollFree_fromCSV, TollFree_addRow
  <2>3. CASE k = "youmail"
    BY <2>3 DEF ReadLine, Youmail_fromCSV, Youmail_addRow
  <2>4. CASE k = "geo"
    BY <2>4 DEF ReadLine, Geo_fromCSV, Geo_addRow
  <2>5. CASE k = "ftc"
    BY <2>5 DEF ReadLine, Ftc_fromCSV, Ftc_addRow
  <2>6. CASE k = "f404"
    BY <2>6 DEF ReadLine, F404_fromCSV, F404_addRow
  <2>7. CASE k = "f606"
    BY <2>7 DEF ReadLine, F606_fromCSV, F606_addRow
  <2>. QED
    BY <2>1, <2>2, <2>3, <2>4, <2>5, <2>6, <2>7 DEF TableKinds
<1>3. PICK key, data : Outcome(k, line) = Row(line, key, data)
  BY <1>1, <1>2 DEF Skipped, BadColumns
<1>. DEFINE missing == \E c \in DOMAIN data : data[c] > Len(line.cols)
<1>4. missing \in BOOLEAN
  BY Zenon
<1>. HIDE DEF missing
<1>5. Outcome(k, line).past = missing
  <2>1. key # NONE
    BY <1>3 DEF Row
  <2>2. Row(line, key, data) = [is |-> "row", key |-> key, past |-> missing]
    BY <2>1, Zenon DEF Row, missing
  <2>3. \A x : [is |-> "row", key |-> key, past |-> x].past = x
    OBVIOUS
  <2>. QED
    BY <1>3, <2>2, <2>3, Zenon
<1>. QED
  BY <1>4, <1>5

\* A number is a key.
LEMMA KeysAreNumbers ==
  ASSUME NEW n \in Numbers
  PROVE  n \in Nat /\ n # NONE /\ n \div Weight[2] \in Nat /\ n \div Weight[2] # NONE
<1>1. n \in Nat /\ n \div Weight[2] \in Nat
  BY Weights DEF Numbers
<1>2. NONE \notin Nat
  BY RowsAssumption
<1>. QED
  BY <1>1, <1>2

\* A row with a key is a row, however many of its columns are there.
LEMMA RowKey ==
  ASSUME NEW line, NEW key, key # NONE, NEW data
  PROVE  Row(line, key, data).is = "row" /\ Row(line, key, data).key = key
BY DEF Row

\* The first character of a number.
LEMMA FirstCharIs ==
  ASSUME NEW line, NEW c, NEW s, line.cols # <<>>, line.cols[1] = s, s # <<>>, s[1] = c
  PROVE  FirstChar(line) = c
BY DEF FirstChar

\* A line that is the record of a number is read as a row with the key the number
\* is looked up with.
LEMMA RecordKey ==
  ASSUME NEW k \in TableKinds, NEW line \in AnyLine, NEW n \in Numbers, IsRecordOf(k, line, n),
         Outcome(k, line).is \in {"skip", "row"}
  PROVE  Outcome(k, line).is = "row" /\ Outcome(k, line).key = KeyFor(k, n)
<1>1. Outcome(k, line) = ReadLine(k, line)
  BY DEF Outcome
<1>2. PICK a \in Digit, b \in Digit, c \in Digit, d \in Digit : Digits(n) = <<a, b, c, d>>
  BY Cuts
<1>3. 1 \in Digit /\ Digits(n) # <<>> /\ Digits(n)[1] \in Digit
  BY <1>2, Weights DEF Digit
<1>4. n # NONE /\ n \div Weight[2] # NONE
  BY KeysAreNumbers
<1>5. CASE k = "dnc"
  <2>1. line.cols = <<Digits(n)>> /\ KeyFor(k, n) = n
    BY <1>5 DEF IsRecordOf, KeyFor
  <2>2. FlattenSeq(<<Digits(n)>>) = Digits(n)
    <3>1. \A s : FlattenSeq(<<s>>) = s
      BY DEF FlattenSeq
    <3>. QED
      BY <3>1
  <2>3. Outcome(k, line) = Row(line, n, NoData)
    BY <1>1, <1>3, <1>5, <2>1, <2>2, NumbersAreRead DEF ReadLine, Dnc_fromCSV, Dnc_addRow
  <2>. QED
    BY <1>4, <2>1, <2>3, RowKey
<1>6. CASE k = "tollfree"
  <2>1. line.cols # <<>> /\ line.cols[1] = Digits(n) /\ KeyFor(k, n) = n
    BY <1>6 DEF IsRecordOf, KeyFor
  <2>2. FirstChar(line) \in Digit
    BY <1>3, <2>1, FirstCharIs
  <2>3. Outcome(k, line) = Row(line, n, NoData)
    BY <1>1, <1>6, <2>1, <2>2, NumbersAreRead DEF ReadLine, TollFree_fromCSV, TollFree_addRow, BadColumns
  <2>. QED
    BY <1>4, <2>1, <2>3, RowKey
<1>7. CASE k = "youmail"
  <2>1. line.cols # <<>> /\ line.cols[1] = <<Plus, 1>> \o Digits(n) /\ KeyFor(k, n) = n
    BY <1>7 DEF IsRecordOf, KeyFor
  <2>2. PICK s : s = <<Plus, 1>> \o Digits(n)
    OBVIOUS
  <2>3. s # <<>> /\ s[1] = Plus
    BY <1>2, <2>2
  <2>4. FirstChar(line) = Plus
    BY <2>1, <2>2, <2>3, FirstCharIs
  <2>5. stoll(EraseCountry(line.cols[1])) = n
    <3>1. EraseCountry(line.cols[1]) = Digits(n)
      BY <1>2, <2>1, CountryErased, SMTT(30)
    <3>. QED
      BY <3>1, NumbersAreRead
  <2>6. Outcome(k, line) = Row(line, n, YoumailData)
    BY <1>1, <1>7, <2>4, <2>5 DEF ReadLine, Youmail_fromCSV, Youmail_addRow, BadColumns
  <2>. QED
    BY <1>4, <2>1, <2>6, RowKey
<1>8. CASE k = "geo"
  <2>1. line.cols # <<>> /\ line.cols[1] = SubSeq(Digits(n), 1, 2) /\ KeyFor(k, n) = n \div Weight[2]
    BY <1>8 DEF IsRecordOf, KeyFor
  <2>2. stoll(line.cols[1]) = n \div Weight[2]
    BY <2>1, NumbersAreRead
  <2>3. Outcome(k, line) = Row(line, n \div Weight[2], GeoData)
    BY <1>1, <1>8, <2>2 DEF ReadLine, Geo_fromCSV, Geo_addRow, BadColumns
  <2>. QED
    BY <1>4, <2>1, <2>3, RowKey
<1>9. CASE k = "ftc"
  <2>1. FirstChar(line) \in Digit /\ line.cols[2] = Digits(n) /\ KeyFor(k, n) = n
    BY <1>9 DEF IsRecordOf, KeyFor
  <2>2. stoll(line.cols[2]) = n
    BY <2>1, NumbersAreRead
  <2>3. Outcome(k, line) = Row(line, n, FtcData)
    BY <1>1, <1>9, <2>1, <2>2 DEF ReadLine, Ftc_fromCSV, Ftc_addRow, BadColumns
  <2>. QED
    BY <1>4, <2>1, <2>3, RowKey
<1>10. CASE k \in {"f404", "f606"}
  <2>1. line.cols # <<>> /\ line.cols[1] = <<1>> \o Digits(n) /\ KeyFor(k, n) = n
    BY <1>10 DEF IsRecordOf, KeyFor
  <2>2. PICK s : s = <<1>> \o Digits(n)
    OBVIOUS
  <2>3. s # <<>> /\ s[1] = 1 /\ Tail(s) = Digits(n)
    <3>1. s = <<1, a, b, c, d>>
      BY <1>2, <2>2, OneInFront
    <3>2. s # <<>> /\ s[1] = 1
      BY <3>1
    <3>3. Tail(s) = <<a, b, c, d>>
      BY <3>1
    <3>. QED
      BY <1>2, <3>2, <3>3
  <2>4. FirstChar(line) \in Digit
    BY <1>3, <2>1, <2>2, <2>3, FirstCharIs
  <2>5. stoll(Tail(line.cols[1])) = n
    BY <2>1, <2>2, <2>3, NumbersAreRead
  <2>6. CASE k = "f404"
    <3>1. Outcome(k, line) = Row(line, n, F404Data)
      BY <1>1, <2>6, <2>4, <2>5 DEF ReadLine, F404_fromCSV, F404_addRow, BadColumns
    <3>. QED
      BY <1>4, <2>1, <3>1, RowKey
  <2>7. CASE k = "f606"
    <3>1. Outcome(k, line) = Row(line, n, F606Data)
      BY <1>1, <2>7, <2>4, <2>5 DEF ReadLine, F606_fromCSV, F606_addRow, BadColumns
    <3>. QED
      BY <1>4, <2>1, <3>1, RowKey
  <2>. QED
    BY <1>10, <2>6, <2>7
<1>. QED
  BY <1>5, <1>6, <1>7, <1>8, <1>9, <1>10 DEF TableKinds

\* A query finds the record under its key.
LEMMA GetFinds ==
  ASSUME NEW k \in TableKinds, NEW n \in Askable
  PROVE  Get(k, n) = IF KeyFor(k, n) \in DOMAIN tables[k] THEN tables[k][KeyFor(k, n)] ELSE NONE
<1>1. n \in Nat /\ n \div Weight[2] # 0 /\ Weight[2] \in Nat \ {0}
  BY Weights DEF Askable, Numbers
<1>2. n # 0
  BY <1>1
<1>3. CASE k = "geo"
  BY <1>1, <1>3 DEF Get, getGeo, FindIn, KeyFor
<1>4. CASE k # "geo"
  BY <1>2, <1>4 DEF Get, getDNC, getTollFree, getYoumail, getFtc, getF404, getF606, FindIn, KeyFor,
                    TableKinds
<1>. QED
  BY <1>3, <1>4

\* Numbers with the same key in a table are spelled alike in it.
LEMMA SameKey ==
  ASSUME NEW k \in TableKinds, NEW line, NEW m \in Numbers, NEW n \in Numbers,
         KeyFor(k, m) = KeyFor(k, n), IsRecordOf(k, line, m)
  PROVE  IsRecordOf(k, line, n)
<1>1. CASE k # "geo"
  BY <1>1 DEF KeyFor
<1>2. CASE k = "geo"
  <2>1. m \div Weight[2] = n \div Weight[2]
    BY <1>2 DEF KeyFor
  <2>2. \A j \in 1..2 : Digits(m)[j] = Digits(n)[j]
    BY <2>1, SameStart
  <2>3. PICK a \in Digit, b \in Digit, c \in Digit, d \in Digit : Digits(m) = <<a, b, c, d>>
    BY Cuts
  <2>4. PICK p \in Digit, q \in Digit, r \in Digit, s \in Digit : Digits(n) = <<p, q, r, s>>
    BY Cuts
  <2>5. a = p /\ b = q
    BY <2>2, <2>3, <2>4
  <2>6. SubSeq(Digits(m), 1, 2) = SubSeq(Digits(n), 1, 2)
    BY <2>3, <2>4, <2>5, DigitsInside
  <2>. QED
    BY <1>2, <2>6 DEF IsRecordOf
<1>. QED
  BY <1>1, <1>2

\* The lookups of the tables are exact.
LookupsAreExact ==
  \A k \in TableKinds : tables[k] # NONE =>
    LET f == meta[k][2] IN
    \A n \in Askable :
      LET got == Get(k, n) IN
      /\ \A i \in DOMAIN f : IsRecordOf(k, f[i], n) => got # NONE /\ got.row = i
      /\ got # NONE =>
           \A m \in Numbers : IsRecordOf(k, f[got.row], m) => IsRecordOf(k, f[got.row], n)

\* The state says so.
LEMMA LookupsExact == IInv => LookupsAreExact
<1>. SUFFICES ASSUME IInv, NEW k \in TableKinds, tables[k] # NONE, NEW n \in Askable
              PROVE  LET f == meta[k][2]
                         got == Get(k, n)
                     IN  /\ \A i \in DOMAIN f : IsRecordOf(k, f[i], n) => got # NONE /\ got.row = i
                         /\ got # NONE =>
                              \A m \in Numbers : IsRecordOf(k, f[got.row], m) => IsRecordOf(k, f[got.row], n)
  BY DEF LookupsAreExact
<1>1. PICK f \in Files[k] :
        meta[k] = <<k, f>> /\ Clean(k, f, Len(f)) /\ DictHas(tables[k], k, f, Len(f), "all")
  BY DEF IInv, TablesServed, TableServed
<1>2. meta[k][2] = f /\ n \in Numbers
  BY <1>1 DEF Askable
<1>3. f \in Seq(AnyLine) /\ k # "lerg" /\ k \in Kinds
  BY CsvAssumption DEF AnyLine, TableKinds, Kinds
<1>4. DOMAIN f = 1..Len(f) /\ Len(f) \in Nat /\ \A i \in 1..Len(f) : f[i] \in AnyLine
  BY <1>3
<1>5. ASSUME NEW i \in RowsUpTo(k, f, Len(f))
      PROVE  /\ KeyAt(k, f, i) \in DOMAIN tables[k]
             /\ tables[k][KeyAt(k, f, i)] # NONE /\ tables[k][KeyAt(k, f, i)].row = i
  <2>1. i \in RowsIn(k, f, Len(f), "all") /\ i \in 1..Len(f) /\ Outcome(k, f[i]).is = "row"
    BY <1>3, <1>5 DEF RowsIn, RowsUpTo, Place
  <2>2. KeyAt(k, f, i) \in DOMAIN tables[k] /\ tables[k][KeyAt(k, f, i)] = RecordOf(k, f, i)
    BY <1>1, <2>1 DEF DictHas, KeysIn
  <2>3. RecordOf(k, f, i) = [row |-> i, garbage |-> Outcome(k, f[i]).past]
    BY <1>3 DEF RecordOf
  <2>4. i \in Nat /\ Outcome(k, f[i]).past \in BOOLEAN
    BY <1>4, <2>1, PastIsBoolean
  <2>5. RecordOf(k, f, i) # NONE
    BY <2>3, <2>4, CsvAssumption
  <2>. QED
    BY <2>2, <2>3, <2>5
<1>6. ASSUME NEW i \in DOMAIN f, IsRecordOf(k, f[i], n)
      PROVE  Get(k, n) # NONE /\ Get(k, n).row = i
  <2>1. i \in 1..Len(f) /\ f[i] \in AnyLine /\ Outcome(k, f[i]).is \in {"skip", "row"}
    BY <1>1, <1>4 DEF Clean
  <2>2. Outcome(k, f[i]).is = "row" /\ KeyAt(k, f, i) = KeyFor(k, n)
    BY <1>2, <1>6, <2>1, RecordKey DEF KeyAt
  <2>3. i \in RowsUpTo(k, f, Len(f))
    BY <2>1, <2>2 DEF RowsUpTo
  <2>. QED
    BY <1>5, <2>2, <2>3, GetFinds
<1>7. ASSUME Get(k, n) # NONE, NEW m \in Numbers, IsRecordOf(k, f[Get(k, n).row], m)
      PROVE  IsRecordOf(k, f[Get(k, n).row], n)
  <2>1. KeyFor(k, n) \in DOMAIN tables[k] /\ Get(k, n) = tables[k][KeyFor(k, n)]
    BY <1>7, GetFinds
  <2>2. PICK i \in RowsIn(k, f, Len(f), "all") : KeyAt(k, f, i) = KeyFor(k, n)
    BY <1>1, <2>1 DEF DictHas, KeysIn
  <2>3. i \in RowsUpTo(k, f, Len(f)) /\ i \in 1..Len(f) /\ Outcome(k, f[i]).is = "row"
    BY <2>2 DEF RowsIn, RowsUpTo
  <2>4. Get(k, n).row = i
    BY <1>5, <2>1, <2>2, <2>3
  <2>5. IsRecordOf(k, f[i], m) /\ f[i] \in AnyLine
    BY <1>4, <1>7, <2>3, <2>4
  <2>6. KeyFor(k, m) = KeyFor(k, n)
    BY <2>2, <2>3, <2>5, RecordKey DEF KeyAt
  <2>7. IsRecordOf(k, f[i], n)
    BY <1>2, <2>5, <2>6, SameKey
  <2>. QED
    BY <2>4, <2>7
<1>. QED
  BY <1>2, <1>6, <1>7

-----------------------------------------------------------------------------
(* Numbers as a query spells them.                                         *)

\* A set of naturals that is not empty has a least element, and Min is it.
LEMMA MinIsLeast ==
  ASSUME NEW S \in SUBSET Nat, S # {}
  PROVE  Min(S) \in S /\ \A y \in S : Min(S) <= y
<1>1. PICK x \in S : \A y \in S : ~(<<y, x>> \in OpToRel(<, Nat))
  BY NatLessThanWellFounded, WFMin, Zenon
<1>2. \A y \in S : ~(y < x)
  BY <1>1, x \in Nat DEF OpToRel
<1>3. \A y \in S : x <= y
  BY <1>2, x \in Nat
<1>. QED
  BY <1>3 DEF Min

\* Text that does not start or end with white space is not trimmed.
LEMMA TrimSolid ==
  ASSUME NEW S, NEW s \in Seq(S), Len(s) > 0, s[1] # Space, s[Len(s)] # Space
  PROVE  Trim(s) = s
<1>. DEFINE solid == {i \in DOMAIN s : s[i] # Space}
<1>1. Len(s) \in Nat /\ DOMAIN s = 1..Len(s) /\ 1 \in solid /\ Len(s) \in solid
  OBVIOUS
<1>2. \A i \in solid : i \in Nat /\ 1 <= i /\ i <= Len(s)
  BY <1>1
<1>3. Min(solid) = 1 /\ Max(solid) = Len(s)
  <2>. HIDE DEF solid
  <2>1. Min(solid) = 1
    BY <1>1, <1>2 DEF Min
  <2>2. Max(solid) = Len(s)
    BY <1>1, <1>2 DEF Max
  <2>. QED
    BY <2>1, <2>2
<1>4. Trim(s) = SubSeq(s, 1, Len(s))
  BY <1>1, <1>3 DEF Trim
<1>. QED
  BY <1>4

\* A copy up to position n.
CopyUpTo(s, n, k) ==
  k = [i \in 0..n |-> IF i = 0 THEN <<>>
                      ELSE IF s[i] \in {Space, Punct} THEN k[i - 1] ELSE Append(k[i - 1], s[i])]

\* copy_if comes to the end of any text.
LEMMA CopyExists ==
  ASSUME NEW s, NEW n \in Nat
  PROVE  \E k : CopyUpTo(s, n, k)
<1>. SUFFICES ASSUME ~\E k : CopyUpTo(s, n, k) PROVE FALSE
  OBVIOUS
<1>. DEFINE bad == {m \in Nat : ~\E k : CopyUpTo(s, m, k)}
<1>1. bad \in SUBSET Nat /\ bad # {}
  OBVIOUS
<1>2. PICK m \in bad : \A y \in bad : m <= y
  BY <1>1, MinIsLeast
<1>3. m # 0
  <2>1. PICK k : k = [i \in {0} |-> <<>>]
    OBVIOUS
  <2>2. 0..0 = {0}
    OBVIOUS
  <2>3. CopyUpTo(s, 0, k)
    BY <2>1, <2>2 DEF CopyUpTo
  <2>. QED
    BY <2>3
<1>4. m \in Nat /\ m - 1 \in Nat /\ m - 1 \notin bad
  BY <1>2, <1>3
<1>5. PICK k : CopyUpTo(s, m - 1, k)
  BY <1>4
<1>. DEFINE last == IF s[m] \in {Space, Punct} THEN k[m - 1] ELSE Append(k[m - 1], s[m])
            more == [i \in 0..m |-> IF i = m THEN last ELSE k[i]]
<1>6. \A i \in 0..m : i # m => i \in 0..(m - 1)
  BY <1>4
<1>7. \A i \in 1..m : more[i - 1] = k[i - 1]
  BY <1>4
<1>8. \A i \in 0..m : more[i] = IF i = 0 THEN <<>>
                      ELSE IF s[i] \in {Space, Punct} THEN more[i - 1] ELSE Append(more[i - 1], s[i])
  <2>. TAKE i \in 0..m
  <2>1. CASE i = m
    BY <1>3, <1>4, <1>7, <2>1
  <2>2. CASE i # m
    <3>1. i \in 0..(m - 1) /\ more[i] = k[i]
      BY <1>6, <2>2
    <3>2. k[i] = IF i = 0 THEN <<>>
                 ELSE IF s[i] \in {Space, Punct} THEN k[i - 1] ELSE Append(k[i - 1], s[i])
      BY <1>5, <3>1 DEF CopyUpTo
    <3>3. CASE i = 0
      BY <3>1, <3>2, <3>3
    <3>4. CASE i # 0
      <4>1. i \in 1..m
        BY <1>4, <3>4
      <4>2. more[i - 1] = k[i - 1]
        BY <1>7, <4>1
      <4>. HIDE DEF more
      <4>. QED
        BY <3>1, <3>2, <3>4, <4>2
    <3>. QED
      BY <3>3, <3>4
  <2>. QED
    BY <2>1, <2>2
<1>9. CopyUpTo(s, m, more)
  <2>1. more = [i \in 0..m |-> more[i]]
    OBVIOUS
  <2>. HIDE DEF more
  <2>. QED
    BY <1>8, <2>1 DEF CopyUpTo
<1>. QED
  BY <1>9

\* Character by character.
Copies(s, k) ==
  /\ Unpunctuated(s) = k[Len(s)] /\ k[0] = <<>>
  /\ \A i \in 1..Len(s) :
       k[i] = IF s[i] \in {Space, Punct} THEN k[i - 1] ELSE Append(k[i - 1], s[i])

\* There is a copy.
LEMMA CopySteps ==
  ASSUME NEW s, Len(s) \in Nat
  PROVE  \E k : Copies(s, k)
<1>1. \E k : CopyUpTo(s, Len(s), k)
  BY CopyExists
<1>2. PICK k : CopyUpTo(s, Len(s), k) /\ Unpunctuated(s) = k[Len(s)]
  BY <1>1, Zenon DEF Unpunctuated, CopyUpTo
<1>3. k[0] = <<>>
  BY <1>2 DEF CopyUpTo
<1>4. \A i \in 1..Len(s) : k[i] = IF s[i] \in {Space, Punct} THEN k[i - 1] ELSE Append(k[i - 1], s[i])
  <2>. TAKE i \in 1..Len(s)
  <2>1. i \in 0..Len(s) /\ i # 0
    OBVIOUS
  <2>. QED
    BY <1>2, <2>1 DEF CopyUpTo
<1>. QED
  BY <1>2, <1>3, <1>4 DEF Copies

\* Punctuation is passed over.
LEMMA CopyPass ==
  ASSUME NEW s, Len(s) \in Nat, NEW k, Copies(s, k), NEW i \in Nat, NEW j \in 1..Len(s), j = i + 1,
         s[j] \in {Space, Punct}
  PROVE  k[j] = k[i]
<1>1. j - 1 = i
  OBVIOUS
<1>. QED
  BY <1>1 DEF Copies

\* Other characters are taken.
LEMMA CopyTake ==
  ASSUME NEW s, Len(s) \in Nat, NEW k, Copies(s, k), NEW i \in Nat, NEW j \in 1..Len(s), j = i + 1,
         s[j] \notin {Space, Punct}
  PROVE  k[j] = Append(k[i], s[j])
<1>1. j - 1 = i
  OBVIOUS
<1>. QED
  BY <1>1 DEF Copies

\* Text without punctuation is copied as it is.
LEMMA CopyAll ==
  ASSUME NEW S, NEW s \in Seq(S), \A i \in 1..Len(s) : s[i] \notin {Space, Punct}
  PROVE  Unpunctuated(s) = s
<1>1. Len(s) \in Nat
  OBVIOUS
<1>2. PICK k : /\ Unpunctuated(s) = k[Len(s)] /\ k[0] = <<>>
               /\ \A i \in 1..Len(s) : k[i] = Append(k[i - 1], s[i])
  BY <1>1, CopySteps DEF Copies
<1>. DEFINE bad == {i \in 0..Len(s) : k[i] # SubSeq(s, 1, i)}
<1>3. bad = {}
  <2>. SUFFICES ASSUME bad # {} PROVE FALSE
    OBVIOUS
  <2>1. bad \in SUBSET Nat
    OBVIOUS
  <2>2. PICK m \in bad : \A y \in bad : m <= y
    BY <2>1, MinIsLeast
  <2>3. m # 0
    <3>1. SubSeq(s, 1, 0) = <<>>
      OBVIOUS
    <3>. QED
      BY <1>2, <2>2, <3>1
  <2>4. m \in 1..Len(s) /\ m - 1 \in 0..Len(s) /\ m - 1 \notin bad
    BY <1>1, <2>2, <2>3
  <2>5. k[m] = Append(SubSeq(s, 1, m - 1), s[m])
    BY <1>2, <2>4
  <2>6. Append(SubSeq(s, 1, m - 1), s[m]) = SubSeq(s, 1, m)
    BY <1>1, <2>4
  <2>. QED
    BY <2>2, <2>5, <2>6
<1>4. k[Len(s)] = SubSeq(s, 1, Len(s))
  BY <1>1, <1>3
<1>. QED
  BY <1>2, <1>4

\* Text of digits, plus signs and letters is taken as it is.
LEMMA PlainText ==
  ASSUME NEW s \in Seq(Char), Len(s) > 0
  PROVE  Trim(s) = s /\ Unpunctuated(s) = s
<1>1. Len(s) \in Nat /\ \A i \in 1..Len(s) : s[i] \in Char
  OBVIOUS
<1>2. Space \notin Char /\ Punct \notin Char
  BY CsvAssumption
<1>3. \A i \in 1..Len(s) : s[i] \notin {Space, Punct}
  BY <1>1, <1>2
<1>4. s[1] # Space /\ s[Len(s)] # Space
  BY <1>1, <1>3
<1>. QED
  BY <1>3, <1>4, TrimSolid, CopyAll

\* What is left of a text that is not too long.
TakenAs(text, u) ==
  LET s == Trim(text) IN Len(s) \in Nat /\ Len(s) <= MaxText /\ Unpunctuated(s) = u

\* A plain text is taken as it is.
LEMMA PlainTaken ==
  ASSUME NEW s \in Seq(Char), Len(s) > 0, Len(s) <= MaxText
  PROVE  TakenAs(s, s)
BY PlainText DEF TakenAs

\* A number without country code.
LEMMA LocalNumber ==
  ASSUME NEW text, NEW a \in Digit, NEW b \in Digit, NEW c \in Digit, NEW d \in Digit,
         TakenAs(text, <<a, b, c, d>>)
  PROVE  fromString(text) = Value(<<a, b, c, d>>)
<1>1. PICK u : u = <<a, b, c, d>>
  OBVIOUS
<1>2. Len(u) = 4 /\ DOMAIN u = 1..4 /\ u[1] = a /\ u[2] = b /\ u[3] = c /\ u[4] = d
  BY <1>1
<1>3. \A i \in 1..4 : u[i] \in Digit
  <2>1. \A i \in 1..4 : i = 1 \/ i = 2 \/ i = 3 \/ i = 4
    OBVIOUS
  <2>. QED
    BY <1>2, <2>1
<1>4. Range(u) \subseteq Digit
  BY <1>2, <1>3 DEF Range
<1>5. fromString(text) = Value(u)
  BY <1>1, <1>2, <1>4 DEF fromString, TakenAs
<1>. QED
  BY <1>1, <1>5

\* A number behind 1.
LEMMA LongDistanceNumber ==
  ASSUME NEW text, NEW a \in Digit, NEW b \in Digit, NEW c \in Digit, NEW d \in Digit,
         TakenAs(text, <<1, a, b, c, d>>)
  PROVE  fromString(text) = Value(<<a, b, c, d>>)
<1>1. PICK u : u = <<1, a, b, c, d>>
  OBVIOUS
<1>2. Len(u) = 5 /\ u[1] = 1 /\ Tail(u) = <<a, b, c, d>>
  BY <1>1
<1>3. PICK t : t = <<a, b, c, d>>
  OBVIOUS
<1>4. Len(t) = 4 /\ DOMAIN t = 1..4 /\ t[1] = a /\ t[2] = b /\ t[3] = c /\ t[4] = d
  BY <1>3
<1>5. \A i \in 1..4 : t[i] \in Digit
  <2>1. \A i \in 1..4 : i = 1 \/ i = 2 \/ i = 3 \/ i = 4
    OBVIOUS
  <2>. QED
    BY <1>4, <2>1
<1>6. Range(t) \subseteq Digit
  BY <1>4, <1>5 DEF Range
<1>7. TakenAs(text, u) /\ Tail(u) = t
  BY <1>1, <1>2, <1>3
<1>8. fromString(text) = Value(t)
  BY <1>2, <1>4, <1>6, <1>7 DEF fromString, TakenAs
<1>. QED
  BY <1>3, <1>8

\* A number behind +1.
LEMMA InternationalNumber ==
  ASSUME NEW text, NEW a \in Digit, NEW b \in Digit, NEW c \in Digit, NEW d \in Digit,
         TakenAs(text, <<Plus, 1, a, b, c, d>>)
  PROVE  fromString(text) = Value(<<a, b, c, d>>)
<1>1. PICK u : u = <<Plus, 1, a, b, c, d>>
  OBVIOUS
<1>2. Len(u) = 6 /\ u[1] = Plus /\ u[2] = 1 /\ SubSeq(u, 3, 6) = <<a, b, c, d>>
  BY <1>1, DigitsBehind
<1>3. PICK t : t = <<a, b, c, d>>
  OBVIOUS
<1>4. Len(t) = 4 /\ DOMAIN t = 1..4 /\ t[1] = a /\ t[2] = b /\ t[3] = c /\ t[4] = d
  BY <1>3
<1>5. \A i \in 1..4 : t[i] \in Digit
  <2>1. \A i \in 1..4 : i = 1 \/ i = 2 \/ i = 3 \/ i = 4
    OBVIOUS
  <2>. QED
    BY <1>4, <2>1
<1>6. Range(t) \subseteq Digit
  BY <1>4, <1>5 DEF Range
<1>7. TakenAs(text, u) /\ SubSeq(u, 3, 6) = t
  BY <1>1, <1>2, <1>3
<1>8. fromString(text) = Value(t)
  BY <1>2, <1>4, <1>6, <1>7 DEF fromString, TakenAs
<1>. QED
  BY <1>3, <1>8

\* Text that is too long, or has too many or too few characters behind a country
\* code, is not a number.
LEMMA WrongLength ==
  ASSUME NEW text, NEW s, s = Trim(text), Len(s) \in Nat, NEW u, u = Unpunctuated(s), Len(u) \in Nat,
         \/ Len(s) > MaxText
         \/ Len(u) \notin {4, 5, 6}
         \/ Len(u) = 5 /\ u[1] # 1
         \/ Len(u) = 6 /\ u[1] # Plus
         \/ Len(u) = 4 /\ ~(Range(u) \subseteq Digit)
  PROVE  fromString(text) = NONE
<1>1. MaxText \in Nat
  BY CsvAssumption
<1>2. CASE Len(s) > MaxText
  <2>1. ~(Len(s) <= MaxText)
    BY <1>1, <1>2
  <2>. QED
    BY <2>1 DEF fromString
<1>3. CASE Len(u) \notin {4, 5, 6}
  BY <1>3 DEF fromString
<1>. DEFINE local == IF Len(u) = 6 /\ u[1] = Plus /\ u[2] = 1 THEN SubSeq(u, 3, 6)
                     ELSE IF Len(u) = 5 /\ u[1] = 1 THEN Tail(u) ELSE u
<1>7. fromString(text) = IF Len(s) <= MaxText /\ Len(local) = 4 /\ Range(local) \subseteq Digit
                         THEN Value(local) ELSE NONE
  BY Zenon DEF fromString
<1>4. CASE Len(u) = 5 /\ u[1] # 1
  <2>1. local = u
    BY <1>4
  <2>. HIDE DEF local
  <2>. QED
    BY <1>4, <1>7, <2>1
<1>5. CASE Len(u) = 6 /\ u[1] # Plus
  <2>1. local = u
    BY <1>5
  <2>. HIDE DEF local
  <2>. QED
    BY <1>5, <1>7, <2>1
<1>6. CASE Len(u) = 4 /\ ~(Range(u) \subseteq Digit)
  BY <1>6 DEF fromString
<1>. QED
  BY <1>2, <1>3, <1>4, <1>5, <1>6

\* The characters of the texts are told apart.
LEMMA Characters ==
  /\ Digit \subseteq Char /\ Plus \in Char /\ Letter \in Char /\ 0 \in Digit /\ 1 \in Digit
  /\ Plus \notin Digit /\ Letter \notin Digit /\ Plus # 1 /\ 0 # 1
  /\ Space \notin Char /\ Punct \notin Char /\ Space # Punct /\ MaxText \in Nat /\ MaxText >= 11
<1>1. Digit \subseteq Nat /\ 0 \in Digit /\ 1 \in Digit
  BY Weights DEF Digit
<1>2. Plus \notin Nat /\ Letter \notin Nat
  BY RowsAssumption
<1>3. /\ Space \notin Char /\ Punct \notin Char /\ Space # Punct /\ MaxText \in Nat /\ MaxText >= 11
  BY CsvAssumption
<1>4. Digit \subseteq Char /\ Plus \in Char /\ Letter \in Char
  BY DEF Char
<1>5. Plus \notin Digit /\ Letter \notin Digit /\ Plus # 1
  BY <1>1, <1>2
<1>. QED
  BY <1>1, <1>3, <1>4, <1>5

\* The digits alone spell the number.
LEMMA LocalSpelling ==
  ASSUME NEW a \in Digit, NEW b \in Digit, NEW c \in Digit, NEW d \in Digit
  PROVE  fromString(<<a, b, c, d>>) = Value(<<a, b, c, d>>)
<1>1. /\ a \in Char /\ b \in Char /\ c \in Char /\ d \in Char /\ 1 \in Char /\ Plus \in Char
      /\ MaxText \in Nat /\ MaxText >= 11
  BY Characters
<1>2. PICK s : s = <<a, b, c, d>>
  OBVIOUS
<1>3. s \in Seq(Char) /\ Len(s) = 4 /\ Len(s) > 0 /\ Len(s) <= MaxText
  BY <1>1, <1>2
<1>4. TakenAs(s, <<a, b, c, d>>)
  BY <1>2, <1>3, PlainTaken
<1>. QED
  BY <1>2, <1>4, LocalNumber

\* The digits after the country code spell the number.
LEMMA LongDistanceSpelling ==
  ASSUME NEW a \in Digit, NEW b \in Digit, NEW c \in Digit, NEW d \in Digit
  PROVE  fromString(<<1, a, b, c, d>>) = Value(<<a, b, c, d>>)
<1>1. /\ a \in Char /\ b \in Char /\ c \in Char /\ d \in Char /\ 1 \in Char /\ Plus \in Char
      /\ MaxText \in Nat /\ MaxText >= 11
  BY Characters
<1>2. PICK s : s = <<1, a, b, c, d>>
  OBVIOUS
<1>3. s \in Seq(Char) /\ Len(s) = 5 /\ Len(s) > 0 /\ Len(s) <= MaxText
  BY <1>1, <1>2
<1>4. TakenAs(s, <<1, a, b, c, d>>)
  BY <1>2, <1>3, PlainTaken
<1>. QED
  BY <1>2, <1>4, LongDistanceNumber

\* The digits after a plus sign and the country code spell the number.
LEMMA InternationalSpelling ==
  ASSUME NEW a \in Digit, NEW b \in Digit, NEW c \in Digit, NEW d \in Digit
  PROVE  fromString(<<Plus, 1, a, b, c, d>>) = Value(<<a, b, c, d>>)
<1>1. /\ a \in Char /\ b \in Char /\ c \in Char /\ d \in Char /\ 1 \in Char /\ Plus \in Char
      /\ MaxText \in Nat /\ MaxText >= 11
  BY Characters
<1>2. PICK s : s = <<Plus, 1, a, b, c, d>>
  OBVIOUS
<1>3. s \in Seq(Char) /\ Len(s) = 6 /\ Len(s) > 0 /\ Len(s) <= MaxText
  BY <1>1, <1>2
<1>4. TakenAs(s, <<Plus, 1, a, b, c, d>>)
  BY <1>2, <1>3, PlainTaken
<1>. QED
  BY <1>2, <1>4, InternationalNumber

\* White space in front is trimmed.
LEMMA IndentedSpelling ==
  ASSUME NEW a \in Digit, NEW b \in Digit, NEW c \in Digit, NEW d \in Digit
  PROVE  fromString(<<Space, a, b, c, d>>) = Value(<<a, b, c, d>>)
<1>1. PICK s : s = <<Space, a, b, c, d>>
  OBVIOUS
<1>2. /\ s \in Seq({Space, a, b, c, d}) /\ Len(s) = 5 /\ DOMAIN s = 1..5
      /\ s[1] = Space /\ s[2] = a /\ s[3] = b /\ s[4] = c /\ s[5] = d
  BY <1>1
<1>3. /\ a \in Char /\ b \in Char /\ c \in Char /\ d \in Char /\ Space \notin Char
      /\ MaxText \in Nat /\ MaxText >= 11
  BY Characters
<1>. DEFINE solid == {i \in DOMAIN s : s[i] # Space}
<1>4. solid = 2..5
  <2>1. \A i \in 1..5 : i = 1 \/ i = 2 \/ i = 3 \/ i = 4 \/ i = 5
    OBVIOUS
  <2>2. \A i \in 1..5 : s[i] # Space <=> i # 1
    BY <1>2, <1>3, <2>1
  <2>. QED
    BY <1>2, <2>2
<1>5. Min(2..5) = 2 /\ Max(2..5) = 5
  BY DEF Min, Max
<1>6. Trim(s) = SubSeq(s, 2, 5)
  <2>1. Trim(s) = IF solid = {} THEN <<>> ELSE SubSeq(s, Min(solid), Max(solid))
    BY Zenon DEF Trim
  <2>2. 2..5 # {}
    OBVIOUS
  <2>. HIDE DEF solid
  <2>. QED
    BY <1>4, <1>5, <2>1, <2>2
<1>7. PICK u : u = SubSeq(s, 2, 5)
  OBVIOUS
<1>8. u \in Seq({Space, a, b, c, d}) /\ Len(u) = 4
  BY <1>2, <1>7
<1>9. u[1] = a /\ u[2] = b /\ u[3] = c /\ u[4] = d
  BY <1>2, <1>7
<1>10. u = <<a, b, c, d>>
  BY <1>8, <1>9
<1>11. u \in Seq(Char) /\ Len(u) > 0
  BY <1>3, <1>10
<1>12. Unpunctuated(u) = u
  BY <1>11, PlainText
<1>13. Len(u) \in Nat /\ Len(u) <= MaxText
  BY <1>3, <1>8
<1>14. TakenAs(s, <<a, b, c, d>>)
  BY <1>6, <1>7, <1>10, <1>12, <1>13 DEF TakenAs
<1>. QED
  BY <1>1, <1>14, LocalNumber

\* A sequence grows at its end: one character.
LEMMA Appended1 ==
  ASSUME NEW a
  PROVE  Append(<<>>, a) = <<a>>
OBVIOUS

\* A sequence grows at its end: two characters.
LEMMA Appended2 ==
  ASSUME NEW a, NEW b
  PROVE  Append(<<a>>, b) = <<a, b>>
<1>1. PICK u : u = <<a>>
  OBVIOUS
<1>2. u \in Seq({a, b}) /\ Len(u) = 1 /\ u[1] = a
  BY <1>1
<1>3. PICK v : v = Append(u, b)
  OBVIOUS
<1>4. /\ v \in Seq({a, b}) /\ Len(v) = Len(u) + 1 /\ v[Len(u) + 1] = b
      /\ \A i \in 1..Len(u) : v[i] = u[i]
  <2>1. b \in {a, b} /\ u \in Seq({a, b})
    BY <1>2
  <2>. QED
    BY <1>3, <2>1, AppendProperties
<1>5. v \in Seq({a, b}) /\ Len(v) = 2 /\ v[1] = a /\ v[2] = b
  BY <1>2, <1>4
<1>6. v = <<a, b>>
  BY <1>5
<1>. QED
  BY <1>1, <1>3, <1>6

\* A sequence grows at its end: three characters.
LEMMA Appended3 ==
  ASSUME NEW a, NEW b, NEW c
  PROVE  Append(<<a, b>>, c) = <<a, b, c>>
<1>1. PICK u : u = <<a, b>>
  OBVIOUS
<1>2. u \in Seq({a, b, c}) /\ Len(u) = 2 /\ u[1] = a /\ u[2] = b
  BY <1>1
<1>3. PICK v : v = Append(u, c)
  OBVIOUS
<1>4. /\ v \in Seq({a, b, c}) /\ Len(v) = Len(u) + 1 /\ v[Len(u) + 1] = c
      /\ \A i \in 1..Len(u) : v[i] = u[i]
  <2>1. c \in {a, b, c} /\ u \in Seq({a, b, c})
    BY <1>2
  <2>. QED
    BY <1>3, <2>1, AppendProperties
<1>5. v \in Seq({a, b, c}) /\ Len(v) = 3 /\ v[1] = a /\ v[2] = b /\ v[3] = c
  BY <1>2, <1>4
<1>6. v = <<a, b, c>>
  BY <1>5
<1>. QED
  BY <1>1, <1>3, <1>6

\* A sequence grows at its end: four characters.
LEMMA Appended4 ==
  ASSUME NEW a, NEW b, NEW c, NEW d
  PROVE  Append(<<a, b, c>>, d) = <<a, b, c, d>>
<1>1. PICK u : u = <<a, b, c>>
  OBVIOUS
<1>2. u \in Seq({a, b, c, d}) /\ Len(u) = 3 /\ u[1] = a /\ u[2] = b /\ u[3] = c
  BY <1>1
<1>3. PICK v : v = Append(u, d)
  OBVIOUS
<1>4. /\ v \in Seq({a, b, c, d}) /\ Len(v) = Len(u) + 1 /\ v[Len(u) + 1] = d
      /\ \A i \in 1..Len(u) : v[i] = u[i]
  <2>1. d \in {a, b, c, d} /\ u \in Seq({a, b, c, d})
    BY <1>2
  <2>. QED
    BY <1>3, <2>1, AppendProperties
<1>5. v \in Seq({a, b, c, d}) /\ Len(v) = 4 /\ v[1] = a /\ v[2] = b /\ v[3] = c /\ v[4] = d
  BY <1>2, <1>4
<1>6. v = <<a, b, c, d>>
  BY <1>5
<1>. QED
  BY <1>1, <1>3, <1>6

\* A sequence grows at its end: five characters.
LEMMA Appended5 ==
  ASSUME NEW a, NEW b, NEW c, NEW d, NEW x
  PROVE  Append(<<a, b, c, d>>, x) = <<a, b, c, d, x>>
<1>1. PICK u : u = <<a, b, c, d>>
  OBVIOUS
<1>2. u \in Seq({a, b, c, d, x}) /\ Len(u) = 4 /\ u[1] = a /\ u[2] = b /\ u[3] = c /\ u[4] = d
  BY <1>1
<1>3. PICK v : v = Append(u, x)
  OBVIOUS
<1>4. /\ v \in Seq({a, b, c, d, x}) /\ Len(v) = Len(u) + 1 /\ v[Len(u) + 1] = x
      /\ \A i \in 1..Len(u) : v[i] = u[i]
  <2>1. x \in {a, b, c, d, x} /\ u \in Seq({a, b, c, d, x})
    BY <1>2
  <2>. QED
    BY <1>3, <2>1, AppendProperties
<1>5. v \in Seq({a, b, c, d, x}) /\ Len(v) = 5 /\ v[1] = a /\ v[2] = b /\ v[3] = c /\ v[4] = d /\ v[5] = x
  BY <1>2, <1>4
<1>6. v = <<a, b, c, d, x>>
  BY <1>5
<1>. QED
  BY <1>1, <1>3, <1>6

\* A sequence grows at its end: six characters.
LEMMA Appended6 ==
  ASSUME NEW a, NEW b, NEW c, NEW d, NEW x, NEW y
  PROVE  Append(<<a, b, c, d, x>>, y) = <<a, b, c, d, x, y>>
<1>1. PICK u : u = <<a, b, c, d, x>>
  OBVIOUS
<1>2. u \in Seq({a, b, c, d, x, y}) /\ Len(u) = 5 /\ u[1] = a /\ u[2] = b /\ u[3] = c /\ u[4] = d /\ u[5] = x
  BY <1>1
<1>3. PICK v : v = Append(u, y)
  OBVIOUS
<1>4. /\ v \in Seq({a, b, c, d, x, y}) /\ Len(v) = Len(u) + 1 /\ v[Len(u) + 1] = y
      /\ \A i \in 1..Len(u) : v[i] = u[i]
  <2>1. y \in {a, b, c, d, x, y} /\ u \in Seq({a, b, c, d, x, y})
    BY <1>2
  <2>. QED
    BY <1>3, <2>1, AppendProperties
<1>5. v \in Seq({a, b, c, d, x, y}) /\ Len(v) = 6 /\ v[1] = a /\ v[2] = b /\ v[3] = c /\ v[4] = d /\ v[5] = x /\ v[6] = y
  BY <1>2, <1>4
<1>6. v = <<a, b, c, d, x, y>>
  BY <1>5
<1>. QED
  BY <1>1, <1>3, <1>6

\* Punctuation is passed over.
LEMMA GroupedSpelling ==
  ASSUME NEW a \in Digit, NEW b \in Digit, NEW c \in Digit, NEW d \in Digit
  PROVE  fromString(<<Punct, a, Punct, Space, b, c, Punct, d>>) = Value(<<a, b, c, d>>)
<1>1. PICK s : s = <<Punct, a, Punct, Space, b, c, Punct, d>>
  OBVIOUS
<1>2. s \in Seq({Punct, a, Space, b, c, d}) /\ Len(s) = 8
  BY <1>1
<1>3. s[1] = Punct /\ s[2] = a /\ s[3] = Punct /\ s[4] = Space /\ s[5] = b /\ s[6] = c /\ s[7] = Punct /\ s[8] = d
  BY <1>1
<1>4. a \notin {Space, Punct} /\ b \notin {Space, Punct} /\ c \notin {Space, Punct} /\ d \notin {Space, Punct}
  BY Characters
<1>5. Space # Punct /\ MaxText \in Nat /\ MaxText >= 11
  BY Characters
<1>6. Trim(s) = s
  <2>1. Len(s) > 0 /\ s[1] # Space /\ s[Len(s)] # Space
    BY <1>2, <1>3, <1>4, <1>5
  <2>. QED
    BY <1>2, <2>1, TrimSolid
<1>7. Len(s) \in Nat
  BY <1>2
<1>8. PICK k : Copies(s, k)
  BY <1>7, CopySteps
<1>9. k[0] = <<>> /\ Unpunctuated(s) = k[8]
  BY <1>2, <1>8 DEF Copies
<1>10. k[1] = k[0]
  <2>1. 0 \in Nat /\ 1 \in 1..Len(s) /\ 1 = 0 + 1 /\ s[1] \in {Space, Punct}
    BY <1>2, <1>3
  <2>. QED
    BY <1>7, <1>8, <2>1, CopyPass
<1>11. k[2] = Append(k[1], a)
  <2>1. 1 \in Nat /\ 2 \in 1..Len(s) /\ 2 = 1 + 1 /\ s[2] \notin {Space, Punct}
    BY <1>2, <1>3, <1>4
  <2>2. k[2] = Append(k[1], s[2])
    BY <1>7, <1>8, <2>1, CopyTake
  <2>. QED
    BY <1>3, <2>2
<1>12. k[3] = k[2]
  <2>1. 2 \in Nat /\ 3 \in 1..Len(s) /\ 3 = 2 + 1 /\ s[3] \in {Space, Punct}
    BY <1>2, <1>3
  <2>. QED
    BY <1>7, <1>8, <2>1, CopyPass
<1>13. k[4] = k[3]
  <2>1. 3 \in Nat /\ 4 \in 1..Len(s) /\ 4 = 3 + 1 /\ s[4] \in {Space, Punct}
    BY <1>2, <1>3
  <2>. QED
    BY <1>7, <1>8, <2>1, CopyPass
<1>14. k[5] = Append(k[4], b)
  <2>1. 4 \in Nat /\ 5 \in 1..Len(s) /\ 5 = 4 + 1 /\ s[5] \notin {Space, Punct}
    BY <1>2, <1>3, <1>4
  <2>2. k[5] = Append(k[4], s[5])
    BY <1>7, <1>8, <2>1, CopyTake
  <2>. QED
    BY <1>3, <2>2
<1>15. k[6] = Append(k[5], c)
  <2>1. 5 \in Nat /\ 6 \in 1..Len(s) /\ 6 = 5 + 1 /\ s[6] \notin {Space, Punct}
    BY <1>2, <1>3, <1>4
  <2>2. k[6] = Append(k[5], s[6])
    BY <1>7, <1>8, <2>1, CopyTake
  <2>. QED
    BY <1>3, <2>2
<1>16. k[7] = k[6]
  <2>1. 6 \in Nat /\ 7 \in 1..Len(s) /\ 7 = 6 + 1 /\ s[7] \in {Space, Punct}
    BY <1>2, <1>3
  <2>. QED
    BY <1>7, <1>8, <2>1, CopyPass
<1>17. k[8] = Append(k[7], d)
  <2>1. 7 \in Nat /\ 8 \in 1..Len(s) /\ 8 = 7 + 1 /\ s[8] \notin {Space, Punct}
    BY <1>2, <1>3, <1>4
  <2>2. k[8] = Append(k[7], s[8])
    BY <1>7, <1>8, <2>1, CopyTake
  <2>. QED
    BY <1>3, <2>2
<1>18. k[2] = <<a>>
  <2>1. k[2] = Append(<<>>, a)
    BY <1>9, <1>10, <1>11
  <2>. QED
    BY <2>1, Appended1, Zenon
<1>19. k[5] = <<a, b>>
  <2>1. k[5] = Append(<<a>>, b)
    BY <1>18, <1>12, <1>13, <1>14
  <2>. QED
    BY <2>1, Appended2, Zenon
<1>20. k[6] = <<a, b, c>>
  <2>1. k[6] = Append(<<a, b>>, c)
    BY <1>19, <1>15
  <2>. QED
    BY <2>1, Appended3, Zenon
<1>21. k[8] = <<a, b, c, d>>
  <2>1. k[8] = Append(<<a, b, c>>, d)
    BY <1>20, <1>16, <1>17
  <2>. QED
    BY <2>1, Appended4, Zenon
<1>22. Unpunctuated(s) = <<a, b, c, d>>
  BY <1>9, <1>21
<1>23. Len(s) <= MaxText
  BY <1>2, <1>5
<1>24. TakenAs(s, <<a, b, c, d>>)
  BY <1>6, <1>7, <1>22, <1>23, Zenon DEF TakenAs
<1>. QED
  BY <1>1, <1>24, LocalNumber

\* Likewise behind a country code.
LEMMA FullSpelling ==
  ASSUME NEW a \in Digit, NEW b \in Digit, NEW c \in Digit, NEW d \in Digit
  PROVE  fromString(<<Plus, 1, Space, Punct, a, Punct, Space, b, c, Punct, d>>) = Value(<<a, b, c, d>>)
<1>1. PICK s : s = <<Plus, 1, Space, Punct, a, Punct, Space, b, c, Punct, d>>
  OBVIOUS
<1>2. s \in Seq({Plus, 1, Space, Punct, a, b, c, d}) /\ Len(s) = 11
  BY <1>1
<1>3. s[1] = Plus /\ s[2] = 1 /\ s[3] = Space /\ s[4] = Punct /\ s[5] = a /\ s[6] = Punct /\ s[7] = Space /\ s[8] = b /\ s[9] = c /\ s[10] = Punct /\ s[11] = d
  BY <1>1
<1>4. Plus \notin {Space, Punct} /\ 1 \notin {Space, Punct} /\ a \notin {Space, Punct} /\ b \notin {Space, Punct} /\ c \notin {Space, Punct} /\ d \notin {Space, Punct}
  BY Characters
<1>5. Space # Punct /\ MaxText \in Nat /\ MaxText >= 11
  BY Characters
<1>6. Trim(s) = s
  <2>1. Len(s) > 0 /\ s[1] # Space /\ s[Len(s)] # Space
    BY <1>2, <1>3, <1>4, <1>5
  <2>. QED
    BY <1>2, <2>1, TrimSolid
<1>7. Len(s) \in Nat
  BY <1>2
<1>8. PICK k : Copies(s, k)
  BY <1>7, CopySteps
<1>9. k[0] = <<>> /\ Unpunctuated(s) = k[11]
  BY <1>2, <1>8 DEF Copies
<1>10. k[1] = Append(k[0], Plus)
  <2>1. 0 \in Nat /\ 1 \in 1..Len(s) /\ 1 = 0 + 1 /\ s[1] \notin {Space, Punct}
    BY <1>2, <1>3, <1>4
  <2>2. k[1] = Append(k[0], s[1])
    BY <1>7, <1>8, <2>1, CopyTake
  <2>. QED
    BY <1>3, <2>2
<1>11. k[2] = Append(k[1], 1)
  <2>1. 1 \in Nat /\ 2 \in 1..Len(s) /\ 2 = 1 + 1 /\ s[2] \notin {Space, Punct}
    BY <1>2, <1>3, <1>4
  <2>2. k[2] = Append(k[1], s[2])
    BY <1>7, <1>8, <2>1, CopyTake
  <2>. QED
    BY <1>3, <2>2
<1>12. k[3] = k[2]
  <2>1. 2 \in Nat /\ 3 \in 1..Len(s) /\ 3 = 2 + 1 /\ s[3] \in {Space, Punct}
    BY <1>2, <1>3
  <2>. QED
    BY <1>7, <1>8, <2>1, CopyPass
<1>13. k[4] = k[3]
  <2>1. 3 \in Nat /\ 4 \in 1..Len(s) /\ 4 = 3 + 1 /\ s[4] \in {Space, Punct}
    BY <1>2, <1>3
  <2>. QED
    BY <1>7, <1>8, <2>1, CopyPass
<1>14. k[5] = Append(k[4], a)
  <2>1. 4 \in Nat /\ 5 \in 1..Len(s) /\ 5 = 4 + 1 /\ s[5] \notin {Space, Punct}
    BY <1>2, <1>3, <1>4
  <2>2. k[5] = Append(k[4], s[5])
    BY <1>7, <1>8, <2>1, CopyTake
  <2>. QED
    BY <1>3, <2>2
<1>15. k[6] = k[5]
  <2>1. 5 \in Nat /\ 6 \in 1..Len(s) /\ 6 = 5 + 1 /\ s[6] \in {Space, Punct}
    BY <1>2, <1>3
  <2>. QED
    BY <1>7, <1>8, <2>1, CopyPass
<1>16. k[7] = k[6]
  <2>1. 6 \in Nat /\ 7 \in 1..Len(s) /\ 7 = 6 + 1 /\ s[7] \in {Space, Punct}
    BY <1>2, <1>3
  <2>. QED
    BY <1>7, <1>8, <2>1, CopyPass
<1>17. k[8] = Append(k[7], b)
  <2>1. 7 \in Nat /\ 8 \in 1..Len(s) /\ 8 = 7 + 1 /\ s[8] \notin {Space, Punct}
    BY <1>2, <1>3, <1>4
  <2>2. k[8] = Append(k[7], s[8])
    BY <1>7, <1>8, <2>1, CopyTake
  <2>. QED
    BY <1>3, <2>2
<1>18. k[9] = Append(k[8], c)
  <2>1. 8 \in Nat /\ 9 \in 1..Len(s) /\ 9 = 8 + 1 /\ s[9] \notin {Space, Punct}
    BY <1>2, <1>3, <1>4
  <2>2. k[9] = Append(k[8], s[9])
    BY <1>7, <1>8, <2>1, CopyTake
  <2>. QED
    BY <1>3, <2>2
<1>19. k[10] = k[9]
  <2>1. 9 \in Nat /\ 10 \in 1..Len(s) /\ 10 = 9 + 1 /\ s[10] \in {Space, Punct}
    BY <1>2, <1>3
  <2>. QED
    BY <1>7, <1>8, <2>1, CopyPass
<1>20. k[11] = Append(k[10], d)
  <2>1. 10 \in Nat /\ 11 \in 1..Len(s) /\ 11 = 10 + 1 /\ s[11] \notin {Space, Punct}
    BY <1>2, <1>3, <1>4
  <2>2. k[11] = Append(k[10], s[11])
    BY <1>7, <1>8, <2>1, CopyTake
  <2>. QED
    BY <1>3, <2>2
<1>21. k[1] = <<Plus>>
  <2>1. k[1] = Append(<<>>, Plus)
    BY <1>9, <1>10
  <2>. QED
    BY <2>1, Appended1, Zenon
<1>22. k[2] = <<Plus, 1>>
  <2>1. k[2] = Append(<<Plus>>, 1)
    BY <1>21, <1>11
  <2>. QED
    BY <2>1, Appended2, Zenon
<1>23. k[5] = <<Plus, 1, a>>
  <2>1. k[5] = Append(<<Plus, 1>>, a)
    BY <1>22, <1>12, <1>13, <1>14
  <2>. QED
    BY <2>1, Appended3, Zenon
<1>24. k[8] = <<Plus, 1, a, b>>
  <2>1. k[8] = Append(<<Plus, 1, a>>, b)
    BY <1>23, <1>15, <1>16, <1>17
  <2>. QED
    BY <2>1, Appended4, Zenon
<1>25. k[9] = <<Plus, 1, a, b, c>>
  <2>1. k[9] = Append(<<Plus, 1, a, b>>, c)
    BY <1>24, <1>18
  <2>. QED
    BY <2>1, Appended5
<1>26. k[11] = <<Plus, 1, a, b, c, d>>
  <2>1. k[11] = Append(<<Plus, 1, a, b, c>>, d)
    BY <1>25, <1>19, <1>20
  <2>. QED
    BY <2>1, Appended6
<1>27. Unpunctuated(s) = <<Plus, 1, a, b, c, d>>
  BY <1>9, <1>26
<1>28. Len(s) <= MaxText
  BY <1>2, <1>5
<1>29. TakenAs(s, <<Plus, 1, a, b, c, d>>)
  BY <1>6, <1>7, <1>27, <1>28, Zenon DEF TakenAs
<1>. QED
  BY <1>1, <1>29, InternationalNumber

\* Text of plain characters that is not a number.
LEMMA PlainMisspelled ==
  ASSUME NEW s \in Seq(Char), Len(s) > 0,
         \/ Len(s) \notin {4, 5, 6}
         \/ Len(s) = 5 /\ s[1] # 1
         \/ Len(s) = 6 /\ s[1] # Plus
         \/ Len(s) = 4 /\ s[1] \notin Digit
  PROVE  fromString(s) = NONE
<1>1. s = Trim(s) /\ s = Unpunctuated(s) /\ Len(s) \in Nat
  BY PlainText
<1>2. Len(s) = 4 /\ s[1] \notin Digit => ~(Range(s) \subseteq Digit)
  BY DEF Range
<1>. QED
  BY <1>1, <1>2, WrongLength

\* Five characters must start with the country code.
LEMMA WrongCountryCode ==
  ASSUME NEW a \in Digit, NEW b \in Digit, NEW c \in Digit, NEW d \in Digit, NEW x \in Char, x # 1
  PROVE  fromString(<<x, a, b, c, d>>) = NONE
<1>1. /\ a \in Char /\ b \in Char /\ c \in Char /\ d \in Char /\ 1 \in Char /\ Plus # 1
  BY Characters
<1>2. PICK s : s = <<x, a, b, c, d>>
  OBVIOUS
<1>3. s \in Seq(Char) /\ Len(s) = 5 /\ Len(s) > 0 /\ s[1] = x
  BY <1>1, <1>2
<1>4. Len(s) = 5 /\ s[1] # 1
  BY <1>1, <1>3
<1>. QED
  BY <1>2, <1>3, <1>4, PlainMisspelled

\* Six characters must start with a plus sign.
LEMMA WrongPrefix ==
  ASSUME NEW a \in Digit, NEW b \in Digit, NEW c \in Digit, NEW d \in Digit
  PROVE  fromString(<<1, 1, a, b, c, d>>) = NONE
<1>1. /\ a \in Char /\ b \in Char /\ c \in Char /\ d \in Char /\ 1 \in Char /\ Plus # 1
  BY Characters
<1>2. PICK s : s = <<1, 1, a, b, c, d>>
  OBVIOUS
<1>3. s \in Seq(Char) /\ Len(s) = 6 /\ Len(s) > 0 /\ s[1] = 1
  BY <1>1, <1>2
<1>4. Len(s) = 6 /\ s[1] # Plus
  BY <1>1, <1>3
<1>. QED
  BY <1>2, <1>3, <1>4, PlainMisspelled

\* Three digits are no number.
LEMMA TooShort ==
  ASSUME NEW b \in Digit, NEW c \in Digit, NEW d \in Digit
  PROVE  fromString(<<b, c, d>>) = NONE
<1>1. /\ b \in Char /\ c \in Char /\ d \in Char /\ 1 \in Char /\ Plus # 1
  BY Characters
<1>2. PICK s : s = <<b, c, d>>
  OBVIOUS
<1>3. s \in Seq(Char) /\ Len(s) = 3 /\ Len(s) > 0 /\ s[1] = b
  BY <1>1, <1>2
<1>4. Len(s) \notin {4, 5, 6}
  BY <1>1, <1>3
<1>. QED
  BY <1>2, <1>3, <1>4, PlainMisspelled

\* Four characters must all be digits.
LEMMA NotADigit ==
  ASSUME NEW b \in Digit, NEW c \in Digit, NEW d \in Digit, NEW x \in Char, x \notin Digit
  PROVE  fromString(<<x, b, c, d>>) = NONE
<1>1. /\ b \in Char /\ c \in Char /\ d \in Char /\ 1 \in Char /\ Plus # 1
  BY Characters
<1>2. PICK s : s = <<x, b, c, d>>
  OBVIOUS
<1>3. s \in Seq(Char) /\ Len(s) = 4 /\ Len(s) > 0 /\ s[1] = x
  BY <1>1, <1>2
<1>4. Len(s) = 4 /\ s[1] \notin Digit
  BY <1>1, <1>3
<1>. QED
  BY <1>2, <1>3, <1>4, PlainMisspelled

\* Garbage is not read to its end.
LEMMA TooLong ==
  ASSUME NEW a \in Digit, NEW b \in Digit, NEW c \in Digit, NEW d \in Digit
  PROVE  fromString(<<a, b, c, d>> \o [i \in 1..MaxText |-> Punct]) = NONE
<1>1. PICK u, v : u = <<a, b, c, d>> /\ v = [i \in 1..MaxText |-> Punct]
  OBVIOUS
<1>2. MaxText \in Nat /\ MaxText >= 11 /\ Space # Punct /\ a # Space
  BY Characters
<1>3. u \in Seq({a, b, c, d, Punct}) /\ Len(u) = 4 /\ u[1] = a
  BY <1>1
<1>4. v \in Seq({a, b, c, d, Punct}) /\ Len(v) = MaxText
  BY <1>1, <1>2
<1>5. PICK s : s = u \o v
  OBVIOUS
<1>6. /\ s \in Seq({a, b, c, d, Punct}) /\ Len(s) = Len(u) + Len(v)
      /\ \A i \in 1..(Len(u) + Len(v)) : s[i] = IF i <= Len(u) THEN u[i] ELSE v[i - Len(u)]
  BY <1>3, <1>4, <1>5, ConcatProperties
<1>7. Len(s) = 4 + MaxText /\ s[1] = a /\ s[4 + MaxText] = v[(4 + MaxText) - 4]
  BY <1>2, <1>3, <1>4, <1>6
<1>8. v[(4 + MaxText) - 4] = Punct
  BY <1>1, <1>2
<1>9. Len(s) > 0 /\ s[1] # Space /\ s[Len(s)] # Space /\ Len(s) > MaxText /\ Len(s) \in Nat
  BY <1>2, <1>7, <1>8
<1>10. Trim(s) = s
  BY <1>6, <1>9, TrimSolid
<1>11. ~(Len(s) <= MaxText)
  BY <1>2, <1>9
<1>12. fromString(s) = NONE
  BY <1>10, <1>11, Zenon DEF fromString
<1>. QED
  BY <1>1, <1>5, <1>12

\* A caller gets the number that is written, or none.
LEMMA SpelledAlikeHolds == SpelledAlike
<1>. SUFFICES ASSUME NEW n \in Askable
              PROVE  /\ \A s \in Spellings(n) : fromString(s) = n
                     /\ \A s \in Misspellings(n) : fromString(s) = NONE
  BY DEF SpelledAlike
<1>1. n \in Numbers
  BY DEF Askable
<1>2. PICK a \in Digit, b \in Digit, c \in Digit, d \in Digit :
        n = Base * (Base * (Base * a + b) + c) + d /\ Digits(n) = <<a, b, c, d>>
  BY <1>1, Cuts
<1>3. Value(<<a, b, c, d>>) = n
  BY <1>2, ValueOfFour
<1>4. Digits(n)[1] = a /\ Digits(n)[2] = b /\ Digits(n)[3] = c /\ Digits(n)[4] = d
  BY <1>2
<1>5. Tail(<<a, b, c, d>>) = <<b, c, d>>
  OBVIOUS
<1>. DEFINE grouped == <<Punct, a, Punct, Space, b, c, Punct, d>>
<1>6. \A s \in Spellings(n) :
        \/ s = <<a, b, c, d>> \/ s = <<1>> \o <<a, b, c, d>> \/ s = <<Plus, 1>> \o <<a, b, c, d>>
        \/ s = grouped \/ s = <<Plus, 1, Space>> \o grouped \/ s = <<Space>> \o <<a, b, c, d>>
  <2>1. PICK v : v = Digits(n)
    OBVIOUS
  <2>2. PICK g : g = <<Punct, v[1], Punct, Space, v[2], v[3], Punct, v[4]>>
    OBVIOUS
  <2>3. Spellings(n) = {v, <<1>> \o v, <<Plus, 1>> \o v, g, <<Plus, 1, Space>> \o g, <<Space>> \o v}
    BY <2>1, <2>2, Zenon DEF Spellings
  <2>4. v = <<a, b, c, d>>
    BY <1>2, <2>1
  <2>5. g = grouped
    BY <1>4, <2>1, <2>2
  <2>. HIDE DEF grouped
  <2>. QED
    BY <2>3, <2>4, <2>5, Zenon
<1>7. \A s \in Misspellings(n) :
        \/ s = <<Plus>> \o <<a, b, c, d>> \/ s = <<1, 1>> \o <<a, b, c, d>> \/ s = <<0>> \o <<a, b, c, d>>
        \/ s = <<b, c, d>> \/ s = <<Letter>> \o <<b, c, d>> \/ s = <<Plus>> \o <<b, c, d>>
        \/ s = <<a, b, c, d>> \o [i \in 1..MaxText |-> Punct]
  BY <1>2, <1>5 DEF Misspellings
<1>8. /\ <<1>> \o <<a, b, c, d>> = <<1, a, b, c, d>> /\ <<Plus>> \o <<a, b, c, d>> = <<Plus, a, b, c, d>>
      /\ <<0>> \o <<a, b, c, d>> = <<0, a, b, c, d>> /\ <<Space>> \o <<a, b, c, d>> = <<Space, a, b, c, d>>
  BY OneInFront
<1>9. /\ <<Plus, 1>> \o <<a, b, c, d>> = <<Plus, 1, a, b, c, d>>
      /\ <<1, 1>> \o <<a, b, c, d>> = <<1, 1, a, b, c, d>>
  BY TwoInFront
<1>10. <<Letter>> \o <<b, c, d>> = <<Letter, b, c, d>> /\ <<Plus>> \o <<b, c, d>> = <<Plus, b, c, d>>
  BY OneBeforeThree
<1>11. <<Plus, 1, Space>> \o grouped = <<Plus, 1, Space, Punct, a, Punct, Space, b, c, Punct, d>>
  BY ThreeInFront
<1>12. /\ fromString(<<a, b, c, d>>) = n /\ fromString(<<1, a, b, c, d>>) = n
       /\ fromString(<<Plus, 1, a, b, c, d>>) = n
  <2>1. fromString(<<a, b, c, d>>) = Value(<<a, b, c, d>>)
    BY LocalSpelling, Zenon
  <2>2. fromString(<<1, a, b, c, d>>) = Value(<<a, b, c, d>>)
    BY LongDistanceSpelling, Zenon
  <2>3. fromString(<<Plus, 1, a, b, c, d>>) = Value(<<a, b, c, d>>)
    BY InternationalSpelling, Zenon
  <2>. QED
    BY <1>3, <2>1, <2>2, <2>3, Zenon
<1>13. fromString(grouped) = n
  BY <1>3, GroupedSpelling, Zenon
<1>14. fromString(<<Plus, 1, Space, Punct, a, Punct, Space, b, c, Punct, d>>) = n
  BY <1>3, FullSpelling, Zenon
<1>15. fromString(<<Space, a, b, c, d>>) = n
  BY <1>3, IndentedSpelling, Zenon
<1>16. \A s \in Spellings(n) : fromString(s) = n
  <2>. HIDE DEF grouped
  <2>1. fromString(<<1>> \o <<a, b, c, d>>) = n /\ fromString(<<Plus, 1>> \o <<a, b, c, d>>) = n
    BY <1>8, <1>9, <1>12, Zenon
  <2>2. fromString(<<Plus, 1, Space>> \o grouped) = n /\ fromString(<<Space>> \o <<a, b, c, d>>) = n
    BY <1>8, <1>11, <1>14, <1>15, Zenon
  <2>. QED
    BY <1>6, <1>12, <1>13, <2>1, <2>2, Zenon
<1>17. /\ fromString(<<Plus, a, b, c, d>>) = NONE /\ fromString(<<0, a, b, c, d>>) = NONE
       /\ fromString(<<1, 1, a, b, c, d>>) = NONE /\ fromString(<<b, c, d>>) = NONE
       /\ fromString(<<Letter, b, c, d>>) = NONE /\ fromString(<<Plus, b, c, d>>) = NONE
  <2>. Plus \in Char /\ Plus # 1 /\ 0 \in Char /\ 0 # 1 /\ Letter \in Char /\ Plus \notin Digit /\ Letter \notin Digit
    BY Characters
  <2>1. fromString(<<Plus, a, b, c, d>>) = NONE
    BY WrongCountryCode, Zenon
  <2>2. fromString(<<0, a, b, c, d>>) = NONE
    BY WrongCountryCode, Zenon
  <2>3. fromString(<<1, 1, a, b, c, d>>) = NONE
    BY WrongPrefix, Zenon
  <2>4. fromString(<<b, c, d>>) = NONE
    BY TooShort, Zenon
  <2>5. fromString(<<Letter, b, c, d>>) = NONE
    BY NotADigit, Zenon
  <2>6. fromString(<<Plus, b, c, d>>) = NONE
    BY NotADigit, Zenon
  <2>. QED
    BY <2>1, <2>2, <2>3, <2>4, <2>5, <2>6, Zenon
<1>18. fromString(<<a, b, c, d>> \o [i \in 1..MaxText |-> Punct]) = NONE
  BY TooLong, Zenon
<1>19. \A s \in Misspellings(n) : fromString(s) = NONE
  <2>1. /\ fromString(<<Plus>> \o <<a, b, c, d>>) = NONE /\ fromString(<<0>> \o <<a, b, c, d>>) = NONE
        /\ fromString(<<1, 1>> \o <<a, b, c, d>>) = NONE
    BY <1>8, <1>9, <1>17, Zenon
  <2>2. fromString(<<Letter>> \o <<b, c, d>>) = NONE /\ fromString(<<Plus>> \o <<b, c, d>>) = NONE
    BY <1>10, <1>17, Zenon
  <2>. QED
    BY <1>7, <1>17, <1>18, <2>1, <2>2, Zenon
<1>. QED
  BY <1>16, <1>19

\* A query for a number, however it is written, finds the one record of the number
\* in the file in service, and never the record of another number.
THEOREM TableExactness == Spec => []TablesAreExact
<1>1. IInv => TablesAreExact
  BY LookupsExact, SpelledAlikeHolds DEF TablesAreExact, LookupsAreExact
<1>. QED
  BY <1>1, Invariance, PTL

=============================================================================
