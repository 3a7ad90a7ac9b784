----------------------------- MODULE CsvMapping -----------------------------
(***************************************************************************)
(* The mappings other than PhoneMapping: DNO (DnoMapping.cpp), with four   *)
(* kinds of rows that four commands load and that is searched by leading   *)
(* digits; LERG (LergMapping.cpp), whose rows name an exchange or a block  *)
(* of it; and the seven tables of TableRows with one record per number or  *)
(* exchange.  Concurrent commands read files line by line into a Builder   *)
(* of their own and commit it; what a lookup answers is compared with the  *)
(* lines of the file in service.  The last line of a file ends with a      *)
(* newline; what happens if it does not is in VerifyDump.                  *)
(*                                                                         *)
(* A number has one digit of base Base for each of NPA, NXX, X and the     *)
(* line; the code has 3, 3, 1 and 3 decimal digits.                        *)
(***************************************************************************)
EXTENDS TableRows, FiniteSets

CONSTANTS
  Threads,    \* control threads
  Files,      \* Files[k]: files for a load of kind k, sequences of lines
  Blank,      \* an empty column of a LERG row
  Text,       \* DNO, LERG: a line without a digit in front
  Columns,    \* DNO, LERG: a line with a wrong number of columns
  Field,      \* DNO, LERG: a line with a field std::stoll rejects
  Space, Punct, \* text of a query: white space; '-', '(' or ')'
  MaxText,    \* what fromString takes for a number is not longer: 30 in the code
  MAXROWS,    \* row limit of LERG and the tables
  MaxLoads    \* bound: commands

DnoKinds == {"dno", "dno_npa", "dno_npa_nxx", "dno_npa_nxx_x"}
Kinds == DnoKinds \cup {"lerg"} \cup TableKinds

BadLines == {Text, Columns, Field}

\* What a digit counts, from the left: 10^7, 10^4, 10^3 and 1 in the code.
Weight == <<Base * Base * Base, Base * Base, Base, 1>>

Numbers == 0..(Base * Weight[1] - 1)

LergRow == [npa : Digit \ {0}, nxx : Digit, x : Digit \cup {Blank}]

\* MaxText leaves room for every way to write a number in Spellings, as the 30
\* characters of the code do for "+1 (npa) nxx-xxxx".
ASSUME CsvAssumption ==
  /\ MaxLoads \in Nat /\ MAXROWS \in Nat
  /\ \A k \in DnoKinds : Files[k] \subseteq Seq(BadLines \cup Numbers)
  /\ Files["lerg"] \subseteq Seq(BadLines \cup LergRow)
  /\ \A k \in TableKinds : Files[k] \subseteq Seq([cols : Seq(Seq(Char)), comma : BOOLEAN, junk : Nat])
  /\ Text # Columns /\ Text # Field /\ Columns # Field
  /\ BadLines \cap (Nat \cup LergRow) = {} /\ Blank \notin Nat
  /\ MaxText \in Nat /\ MaxText >= 11
  /\ {Space, Punct} \cap Char = {} /\ Space # Punct
  /\ NONE \notin [lerg_key : Nat, row : Nat] \cup [row : Nat, garbage : BOOLEAN]

VARIABLES
  dno,     \* mappingDNO: a set of keys for each kind, NONE before a load
  lerg,    \* mappingLerg: records by block and by exchange
  tables,  \* tables[k]: mappingDNC, mappingTollFree, ...: records by key
  job,     \* job[t]: the load thread t runs, NONE if none
  builder, \* builder[t]: its Builder
  answer,  \* answer[t]: "S", "F", or "none" if dispatch throws
  loads,   \* commands so far
  meta     \* meta[m]: metadata of what m serves: its file, and the command (history)

Mappings == {"dno", "lerg"} \cup TableKinds

service == <<dno, lerg, tables, meta>>
vars == <<service, job, builder, answer, loads>>

\* A Builder without rows: what DNO, LERG or one of the tables will be.
Empty ==
  [dno |-> [k \in DnoKinds |-> {}], lerg |-> [d \in {"block", "exchange"} |-> <<>>],
   table |-> <<>>, meta |-> NONE]

\* emplace() of a key that is new
Insert(dict, key, record) ==
  [x \in DOMAIN dict \cup {key} |-> IF x = key THEN record ELSE dict[x]]

\* What a process starts with.
Fresh ==
  [dno |-> NONE, lerg |-> NONE, tables |-> [k \in TableKinds |-> NONE],
   meta |-> [m \in Mappings |-> NONE], job |-> [t \in Threads |-> NONE],
   builder |-> [t \in Threads |-> Empty]]

Init ==
  /\ dno = Fresh.dno /\ lerg = Fresh.lerg /\ tables = Fresh.tables /\ meta = Fresh.meta
  /\ job = Fresh.job /\ builder = Fresh.builder
  /\ answer = [t \in Threads |-> "none"] /\ loads = 0

-----------------------------------------------------------------------------
(* Loading.                                                                *)

\* Every load constructs a Builder and gives it the metadata of the request.
StartLoad(t, k, f) ==
  /\ job[t] = NONE /\ loads < MaxLoads
  /\ job' = [job EXCEPT ![t] = [kind |-> k, file |-> f, line |-> 1]]
  /\ builder' = [builder EXCEPT ![t] = [Empty EXCEPT !.meta = <<k, f>>]]
  /\ answer' = [answer EXCEPT ![t] = "none"]
  /\ loads' = loads + 1
  /\ UNCHANGED service

StartDno(t) == \E k \in DnoKinds : \E f \in Files[k] : StartLoad(t, k, f)
StartLerg(t) == \E f \in Files["lerg"] : StartLoad(t, "lerg", f)
StartDnc(t) == \E f \in Files["dnc"] : StartLoad(t, "dnc", f)
StartTollFree(t) == \E f \in Files["tollfree"] : StartLoad(t, "tollfree", f)
StartYoumail(t) == \E f \in Files["youmail"] : StartLoad(t, "youmail", f)
StartGeo(t) == \E f \in Files["geo"] : StartLoad(t, "geo", f)
StartFtc(t) == \E f \in Files["ftc"] : StartLoad(t, "ftc", f)
StartF404(t) == \E f \in Files["f404"] : StartLoad(t, "f404", f)
StartF606(t) == \E f \in Files["f606"] : StartLoad(t, "f606", f)

Reading(t) == IF job[t] = NONE THEN FALSE ELSE job[t].line <= Len(job[t].file)
CurrentLine(t) == job[t].file[job[t].line]
NextLine(t) == job' = [job EXCEPT ![t].line = @ + 1]

\* The loader returns, which destroys its Builder.
EndLoad(t) ==
  /\ job' = [job EXCEPT ![t] = NONE]
  /\ builder' = [builder EXCEPT ![t] = Empty]

\* Mutant: NPA and NXX overlap in the key.
ExchangeKey_Short(row) == row.npa + row.nxx

\* npa * 1000 + nxx
ExchangeKey(row) == row.npa * Base + row.nxx

\* npa * 10000 + nxx * 10 + x
BlockKey(row) == row.npa * (Base * Base) + row.nxx * Base + row.x

Dict(row) == IF row.x = Blank THEN "exchange" ELSE "block"
LergKey(row) == IF row.x = Blank THEN ExchangeKey(row) ELSE BlockKey(row)

\* What fromCSV makes of a line: the rows of DNO and LERG have all columns.
Outcome(k, line) ==
  IF k \in TableKinds THEN ReadLine(k, line)
  ELSE CASE line = Text -> Skipped
         [] line = Columns -> BadColumns
         [] line = Field -> [is |-> "field"]
         [] OTHER -> [is |-> "row", past |-> FALSE,
                      key |-> IF k = "lerg" THEN LergKey(line) ELSE line]

LineIs(t) == Outcome(job[t].kind, CurrentLine(t))

\* dict.count(pn) in the dictionary the row goes to.
Keys(t) ==
  CASE job[t].kind \in DnoKinds -> builder[t].dno[job[t].kind]
    [] job[t].kind = "lerg" -> DOMAIN builder[t].lerg[Dict(CurrentLine(t))]
    [] OTHER -> DOMAIN builder[t].table

\* pnColumn.size() >= MAXROWS; DNO has no such column.
Full(t) ==
  CASE job[t].kind \in DnoKinds -> FALSE
    [] job[t].kind = "lerg" ->
         Cardinality(DOMAIN builder[t].lerg["block"])
           + Cardinality(DOMAIN builder[t].lerg["exchange"]) >= MAXROWS
    [] OTHER -> Cardinality(DOMAIN builder[t].table) >= MAXROWS

\* Mutant: rows of the tables are not tested.
Unwanted_NotTables(t) ==
  job[t].kind \notin TableKinds /\ (LineIs(t).key \in Keys(t) \/ Full(t))

\* addRow throws.
Unwanted(t) == LineIs(t).key \in Keys(t) \/ Full(t)

\* addRow adds the current line to the Builder.
Adds(t) == Reading(t) /\ LineIs(t).is = "row" /\ ~Unwanted(t)

\* A line that does not start as a row of its file does is passed over.
SkipLine(t) ==
  /\ Reading(t) /\ LineIs(t).is = "skip"
  /\ NextLine(t)
  /\ UNCHANGED <<service, builder, answer, loads>>

\* DnoMapping::Builder::addRow
AddDnoRow(t) ==
  /\ job[t] # NONE /\ job[t].kind \in DnoKinds /\ Adds(t)
  /\ builder' = [builder EXCEPT ![t].dno[job[t].kind] = @ \cup {LineIs(t).key}]
  /\ NextLine(t)
  /\ UNCHANGED <<service, answer, loads>>

\* LergMapping::Builder::addRow; the row's line stands for its other columns.
AddLergRow(t) ==
  /\ job[t] # NONE /\ job[t].kind = "lerg" /\ Adds(t)
  /\ LET key == LineIs(t).key IN
     builder' = [builder EXCEPT ![t].lerg[Dict(CurrentLine(t))] =
                   Insert(@, key, [lerg_key |-> key, row |-> job[t].line])]
  /\ NextLine(t)
  /\ UNCHANGED <<service, answer, loads>>

\* addRow of a table; the record holds columns of this line, or what was found
\* behind the end of the row.
AddTableRow(t) ==
  /\ job[t] # NONE /\ job[t].kind \in TableKinds /\ Adds(t)
  /\ builder' = [builder EXCEPT ![t].table =
                   Insert(@, LineIs(t).key, [row |-> job[t].line, garbage |-> LineIs(t).past])]
  /\ NextLine(t)
  /\ UNCHANGED <<service, answer, loads>>

\* Copying the string behind the end of the row may throw (length_error,
\* bad_alloc), which the loader does not catch ...
PastRowThrows(t) ==
  /\ job[t] # NONE /\ Adds(t) /\ LineIs(t).past
  /\ EndLoad(t) /\ answer' = [answer EXCEPT ![t] = "none"]
  /\ UNCHANGED <<service, loads>>

\* ... or end the process: systemd starts another with no mapping loaded.
PastRowKills(t) ==
  /\ job[t] # NONE /\ Adds(t) /\ LineIs(t).past
  /\ dno' = Fresh.dno /\ lerg' = Fresh.lerg /\ tables' = Fresh.tables /\ meta' = Fresh.meta
  /\ job' = Fresh.job /\ builder' = Fresh.builder /\ answer' = [u \in Threads |-> "none"]
  /\ UNCHANGED loads

\* runtime_error (a duplicate key, a full column, a wrong number of columns) is
\* an answer F; what std::stoll throws is not caught and ends the command.
FailLoad(t) ==
  /\ Reading(t)
  /\ LineIs(t).is \in {"columns", "field"} \/ (LineIs(t).is = "row" /\ Unwanted(t))
  /\ answer' = [answer EXCEPT ![t] = IF LineIs(t).is = "field" THEN "none" ELSE "F"]
  /\ EndLoad(t)
  /\ UNCHANGED <<service, loads>>

-----------------------------------------------------------------------------
(* Committing: the Data in service is replaced as a whole.                 *)

\* The file has been read: commit() and the answer.
Commit(t, m) ==
  /\ job[t] # NONE /\ job[t].line > Len(job[t].file)
  /\ meta' = [meta EXCEPT ![m] = builder[t].meta]
  /\ answer' = [answer EXCEPT ![t] = "S"]
  /\ EndLoad(t)
  /\ UNCHANGED loads

\* Mutant: rows of other kinds that are in service are kept.
CommitDno_Merges(t) ==
  /\ Commit(t, "dno") /\ job[t].kind \in DnoKinds
  /\ dno' = [k \in DnoKinds |-> builder[t].dno[k] \cup (IF dno = NONE THEN {} ELSE dno[k])]
  /\ UNCHANGED <<lerg, tables>>

CommitDno(t) ==
  /\ Commit(t, "dno") /\ job[t].kind \in DnoKinds
  /\ dno' = builder[t].dno
  /\ UNCHANGED <<lerg, tables>>

CommitLerg(t) ==
  /\ Commit(t, "lerg") /\ job[t].kind = "lerg"
  /\ lerg' = builder[t].lerg
  /\ UNCHANGED <<dno, tables>>

CommitTable(t, k) ==
  /\ Commit(t, k) /\ job[t].kind = k
  /\ tables' = [tables EXCEPT ![k] = builder[t].table]
  /\ UNCHANGED <<dno, lerg>>

CommitDnc(t) == CommitTable(t, "dnc")
CommitTollFree(t) == CommitTable(t, "tollfree")
CommitYoumail(t) == CommitTable(t, "youmail")
CommitGeo(t) == CommitTable(t, "geo")
CommitFtc(t) == CommitTable(t, "ftc")
CommitF404(t) == CommitTable(t, "f404")
CommitF606(t) == CommitTable(t, "f606")

\* Every command of the bounded run has ended.
Exhausted ==
  /\ loads = MaxLoads /\ \A t \in Threads : job[t] = NONE
  /\ UNCHANGED vars

Next ==
  \/ Exhausted
  \/ \E t \in Threads :
       \/ StartDno(t) \/ StartLerg(t) \/ StartDnc(t) \/ StartTollFree(t) \/ StartYoumail(t)
       \/ StartGeo(t) \/ StartFtc(t) \/ StartF404(t) \/ StartF606(t)
       \/ SkipLine(t) \/ AddDnoRow(t) \/ AddLergRow(t) \/ AddTableRow(t)
       \/ PastRowThrows(t) \/ PastRowKills(t) \/ FailLoad(t)
       \/ CommitDno(t) \/ CommitLerg(t) \/ CommitDnc(t) \/ CommitTollFree(t) \/ CommitYoumail(t)
       \/ CommitGeo(t) \/ CommitFtc(t) \/ CommitF404(t) \/ CommitF606(t)

Spec == Init /\ [][Next]_vars

-----------------------------------------------------------------------------
(* Lookups, for one number of a batch.                                     *)

Trim(s) ==
  LET solid == {i \in DOMAIN s : s[i] # Space}
  IN  IF solid = {} THEN <<>> ELSE SubSeq(s, Min(solid), Max(solid))

\* std::copy_if: the characters that are not punctuation.
Unpunctuated(s) ==
  LET copied[i \in 0..Len(s)] ==
        IF i = 0 THEN <<>>
        ELSE IF s[i] \in {Space, Punct} THEN copied[i - 1] ELSE Append(copied[i - 1], s[i])
  IN  copied[Len(s)]

\* PhoneNumber::fromString: the number that a caller asks for, or NONE.  The
\* country code may be written with or without a plus sign.
fromString(text) ==
  LET s == Trim(text)
      digits == Unpunctuated(s)
      n == Len(digits)
      local == IF n = 6 /\ digits[1] = Plus /\ digits[2] = 1 THEN SubSeq(digits, 3, 6)
               ELSE IF n = 5 /\ digits[1] = 1 THEN Tail(digits)
               ELSE digits
  IN  IF Len(s) <= MaxText /\ Len(local) = 4 /\ Range(local) \subseteq Digit THEN Value(local) ELSE NONE

\* DnoMapping::Data::getDNOs, into an array of zeros.
getDNO(n) ==
  \/ n \div Weight[1] \in dno["dno_npa"]
  \/ n \div Weight[2] \in dno["dno_npa_nxx"]
  \/ n \div Weight[3] \in dno["dno_npa_nxx_x"]
  \/ n \in dno["dno"]

\* What one dictionary has; a record whose key is 0 counts as none.
FindIn(dict, key) == IF key \in DOMAIN dict /\ key # 0 THEN dict[key] ELSE NONE

\* LergMapping::Data::getLergs: the block, then the exchange.
getLerg(n) ==
  LET block == FindIn(lerg["block"], n \div Weight[3]) IN
  IF block # NONE THEN block ELSE FindIn(lerg["exchange"], (n \div Weight[3]) \div Base)

\* The number 0 of DNC and toll-free is a number like any other.
getDNC(n) == IF n \in DOMAIN tables["dnc"] THEN tables["dnc"][n] ELSE NONE
getTollFree(n) == IF n \in DOMAIN tables["tollfree"] THEN tables["tollfree"][n] ELSE NONE

getYoumail(n) == FindIn(tables["youmail"], n)

getGeo(n) == FindIn(tables["geo"], n \div Weight[2])
getFtc(n) == FindIn(tables["ftc"], n)
getF404(n) == FindIn(tables["f404"], n)
getF606(n) == FindIn(tables["f606"], n)

Get(k, n) ==
  CASE k = "dnc" -> getDNC(n) [] k = "tollfree" -> getTollFree(n) [] k = "youmail" -> getYoumail(n)
    [] k = "geo" -> getGeo(n) [] k = "ftc" -> getFtc(n) [] k = "f404" -> getF404(n)
    [] k = "f606" -> getF606(n)

-----------------------------------------------------------------------------
(* Properties.                                                             *)

\* The digits of a number, from the left.
Digits(n) == [i \in 1..4 |-> (n \div Weight[i]) % Base]
Leading(k) == CASE k = "dno" -> 4 [] k = "dno_npa" -> 1 [] k = "dno_npa_nxx" -> 2
                [] k = "dno_npa_nxx_x" -> 3

\* The first i digits of n spell key.
StartsWith(n, i, key) ==
  \E m \in Numbers : m \div Weight[i] = key /\ \A j \in 1..i : Digits(m)[j] = Digits(n)[j]

Rows(f) == {i \in DOMAIN f : f[i] \notin BadLines}

\* A number is reported do-not-originate exactly if a row of the one file in
\* service, the last of the four kinds that was loaded, has its leading digits.
\* Rows of other kinds, of earlier files and of failed loads play no part.
DnoIsExact ==
  dno # NONE =>
    LET k == meta["dno"][1]
        f == meta["dno"][2]
    IN  \A n \in Numbers :
          getDNO(n) <=> \E i \in Rows(f) : StartsWith(n, Leading(k), f[i])

\* The carrier record found for a number is that of the row for its block if the
\* file in service has one, otherwise that of the row for its exchange.
LergIsMostSpecific ==
  lerg # NONE =>
    LET f == meta["lerg"][2]
        rows(n, x) == {i \in Rows(f) : <<f[i].npa, f[i].nxx, f[i].x>> =
                                          <<Digits(n)[1], Digits(n)[2], x>>}
        best(n) == IF rows(n, Digits(n)[3]) # {} THEN rows(n, Digits(n)[3]) ELSE rows(n, Blank)
    IN  \A n \in Numbers :
          IF best(n) = {} THEN getLerg(n) = NONE
          ELSE getLerg(n) # NONE /\ best(n) = {getLerg(n).row}

\* The line is the record of number n as the files of kind k spell numbers.
IsRecordOf(k, line, n) ==
  LET c == line.cols IN
  CASE k = "dnc" -> c = <<Digits(n)>>
    [] k = "tollfree" -> c # <<>> /\ c[1] = Digits(n)
    [] k = "youmail" -> c # <<>> /\ c[1] = <<Plus, 1>> \o Digits(n)
    [] k = "geo" -> c # <<>> /\ c[1] = SubSeq(Digits(n), 1, 2)
    [] k = "ftc" -> FirstChar(line) \in Digit /\ Len(c) > 1 /\ c[2] = Digits(n)
    [] k \in {"f404", "f606"} -> c # <<>> /\ c[1] = <<1>> \o Digits(n)

\* Numbers of an exchange other than 0, the mark of "not found".
Askable == {n \in Numbers : n \div Weight[2] # 0}

\* Ways to write a number in a query, and texts that are no number.
Spellings(n) ==
  LET d == Digits(n)
      grouped == <<Punct, d[1], Punct, Space, d[2], d[3], Punct, d[4]>>
  IN  {d, <<1>> \o d, <<Plus, 1>> \o d, grouped, <<Plus, 1, Space>> \o grouped, <<Space>> \o d}
Misspellings(n) ==
  LET d == Digits(n)
  IN  {<<Plus>> \o d, <<1, 1>> \o d, <<0>> \o d, Tail(d), <<Letter>> \o Tail(d), <<Plus>> \o Tail(d),
       d \o [i \in 1..MaxText |-> Punct]}

\* A caller gets the number that is written, or none.
SpelledAlike ==
  \A n \in Askable :
    /\ \A s \in Spellings(n) : fromString(s) = n
    /\ \A s \in Misspellings(n) : fromString(s) = NONE

\* A query for a number, however it is written, finds the one record of the
\* number in the file whose metadata is in service, and the record of some other
\* number is never found in its place: neither the country codes that are cut off
\* from queries and rows, nor the exchanges that are keys, nor lines without a
\* number mix numbers up.  A DNC line without a number is taken for a row of 0 or,
\* if it is empty, of whatever number the reader's variable had: a query can find
\* such a row only for a number that has no record in the file.
TablesAreExact ==
  /\ SpelledAlike
  /\ \A k \in TableKinds : tables[k] # NONE =>
       LET f == meta[k][2] IN
       \A n \in Askable :
         LET got == Get(k, n) IN
         /\ \A i \in DOMAIN f : IsRecordOf(k, f[i], n) => got # NONE /\ got.row = i
         /\ got # NONE =>
              \A m \in Numbers : IsRecordOf(k, f[got.row], m) => IsRecordOf(k, f[got.row], n)

\* A file with a broken or repeated row, or with more rows than fit, is never put
\* in service, with one exception: a Geo or FTC row that ends one column short
\* may have been completed with whatever was behind it.  (An empty DNC line is a row
\* of the number it is taken for.)
NoBrokenFile ==
  \A m \in Mappings : meta[m] # NONE =>
    LET k == meta[m][1]
        f == meta[m][2]
        rows == {i \in DOMAIN f : Outcome(k, f[i]).is = "row"}
    IN  /\ \A i \in DOMAIN f : Outcome(k, f[i]).is \notin {"columns", "field"}
        /\ \A i, j \in rows : f[i] = f[j] => i = j
        /\ m # "dno" => Cardinality(rows) <= MAXROWS
        /\ m \in TableKinds =>
             \A key \in DOMAIN tables[m] : tables[m][key].garbage =>
               <<m, Len(f[tables[m][key].row].cols)>> \in {<<"geo", 19>>, <<"ftc", 5>>}

=============================================================================
