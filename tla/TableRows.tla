----------------------------- MODULE TableRows -----------------------------
(***************************************************************************)
(* How the seven mappings with one record per key read a line of their     *)
(* file: DNC, toll-free, Youmail, Geo, FTC, 404 and 606.  Each has its own *)
(* fromCSV and addRow, and the seven differ in which lines they pass over, *)
(* how many columns they ask for, which column is the key, what they strip *)
(* from it and which columns they go on to read.                           *)
(*                                                                         *)
(* A line is what std::getline splits it into, whether it ends with a      *)
(* comma, and the junk that an uninitialised number has when the line is   *)
(* read.  A column is a sequence of characters: digits of base Base, a     *)
(* plus sign, or a letter, which stands for any other character but white  *)
(* space.                                                                  *)
(***************************************************************************)
EXTENDS Naturals, Sequences, SequencesExt

CONSTANTS
  Base,    \* values of a digit
  Plus,    \* '+'
  Letter,  \* a character that is no digit, '+', ',' or white space
  NONE     \* no number, no record, no mapping

Digit == 0..(Base - 1)
Char == Digit \cup {Plus, Letter}

ASSUME RowsAssumption == Base \in Nat \ {0, 1} /\ {Plus, Letter, NONE} \cap Nat = {}

TableKinds == {"dnc", "tollfree", "youmail", "geo", "ftc", "f404", "f606"}

LineWithJunk(cols, comma, junk) == [cols |-> cols, comma |-> comma, junk |-> junk]
Line(cols, comma) == LineWithJunk(cols, comma, 0)

-----------------------------------------------------------------------------
(* Characters and numbers.                                                 *)

Value(s) == LET v[i \in 0..Len(s)] == IF i = 0 THEN 0 ELSE v[i - 1] * Base + s[i] IN v[Len(s)]

\* The digits a number starts with, behind an optional sign.
LeadingDigits(s) ==
  LET t == IF s # <<>> /\ Head(s) = Plus THEN Tail(s) ELSE s
      n == CHOOSE n \in 0..Len(t) :
             /\ \A i \in 1..n : t[i] \in Digit
             /\ n < Len(t) => t[n + 1] \notin Digit
  IN  SubSeq(t, 1, n)

\* std::stoll: what follows the digits is ignored, no digits are an exception.
stoll(s) == IF LeadingDigits(s) = <<>> THEN NONE ELSE Value(LeadingDigits(s))

\* istream >> uint64_t, of a string that is not empty: no digits set the number to 0.
Extract(s) == Value(LeadingDigits(s))

\* linebuf[0]; NONE if the line is empty or starts with a comma.
FirstChar(line) == IF line.cols = <<>> \/ line.cols[1] = <<>> THEN NONE ELSE line.cols[1][1]

\* The string without its first "+1".
EraseCountry(s) ==
  LET at == {i \in 1..Len(s) - 1 : s[i] = Plus /\ s[i + 1] = 1}
      i == CHOOSE i \in at : \A j \in at : i <= j
  IN  IF at = {} THEN s ELSE SubSeq(s, 1, i - 1) \o SubSeq(s, i + 2, Len(s))

-----------------------------------------------------------------------------
(* Outcomes of a line.                                                     *)

Skipped == [is |-> "skip"]

\* runtime_error("bad number of columns")
BadColumns == [is |-> "columns"]

\* The columns of a row that its record is made of, apart from the key and from
\* tcpafraud, which is empty in a Youmail row of four columns.
NoData == <<>>
YoumailData == [sapmscore |-> 2, fraudprobability |-> 3, unlawful |-> 4]
GeoData ==
  [zipcode |-> 2, county |-> 11, city |-> 7, latitude |-> 10, longitude |-> 12, timezone |-> 20]
FtcData == [first_ftc_on |-> 3, last_ftc_on |-> 4, ftc_count |-> 6]
F404Data == [first_F404_on |-> 2, last_F404_on |-> 3]
F606Data == [first_F606_on |-> 2, last_F606_on |-> 3]

\* A row with a key; past tells that addRow goes on to read a column behind its end.
Row(line, key, data) ==
  IF key = NONE THEN [is |-> "field"]
  ELSE [is |-> "row", key |-> key, past |-> \E f \in DOMAIN data : data[f] > Len(line.cols)]

\* DNC: every line is a row, its number the line without commas.  Nothing sets the
\* number of a line that has no more than commas.
Dnc_addRow(line, pn) == Row(line, pn, NoData)
Dnc_fromCSV(line) ==
  LET number == FlattenSeq(line.cols) IN
  Dnc_addRow(line, IF number = <<>> THEN line.junk ELSE Extract(number))

TollFree_addRow(line, pn) == Row(line, pn, NoData)
TollFree_fromCSV(line) ==
  IF FirstChar(line) \notin Digit THEN Skipped
  ELSE IF Len(line.cols) # 3 THEN BadColumns
  ELSE TollFree_addRow(line, stoll(line.cols[1]))

\* Mutant: the country code stays.
Youmail_addRow_Whole(line) == Row(line, stoll(line.cols[1]), YoumailData)

\* Youmail: +1 is the country code of the numbers that are asked for.
Youmail_addRow(line) == Row(line, stoll(EraseCountry(line.cols[1])), YoumailData)

\* A line may end with an empty fifth column.
Youmail_fromCSV(line) ==
  LET n == Len(line.cols) IN
  IF FirstChar(line) # Plus THEN Skipped
  ELSE IF n = 5 \/ (n = 4 /\ line.comma) THEN Youmail_addRow(line)
  ELSE BadColumns

\* Geo: no line is passed over; 19 columns are asked for, the 20th is read.
Geo_addRow(line) == Row(line, stoll(line.cols[1]), GeoData)
Geo_fromCSV(line) == IF Len(line.cols) >= 19 THEN Geo_addRow(line) ELSE BadColumns

\* FTC: the number is the second column; 5 columns are asked for, the 6th is read.
Ftc_addRow(line) == Row(line, stoll(line.cols[2]), FtcData)
Ftc_fromCSV(line) ==
  IF FirstChar(line) \notin Digit THEN Skipped
  ELSE IF Len(line.cols) >= 5 THEN Ftc_addRow(line)
  ELSE BadColumns

\* 404: the first digit is the country code.
F404_addRow(line) == Row(line, stoll(Tail(line.cols[1])), F404Data)
F404_fromCSV(line) ==
  IF FirstChar(line) \notin Digit THEN Skipped
  ELSE IF Len(line.cols) >= 3 THEN F404_addRow(line)
  ELSE BadColumns

\* 606: as 404.
F606_addRow(line) == Row(line, stoll(Tail(line.cols[1])), F606Data)
F606_fromCSV(line) ==
  IF FirstChar(line) \notin Digit THEN Skipped
  ELSE IF Len(line.cols) >= 3 THEN F606_addRow(line)
  ELSE BadColumns

\* fromCSV of the mapping a load of kind k builds, for one line.
ReadLine(k, line) ==
  CASE k = "dnc" -> Dnc_fromCSV(line)
    [] k = "tollfree" -> TollFree_fromCSV(line)
    [] k = "youmail" -> Youmail_fromCSV(line)
    [] k = "geo" -> Geo_fromCSV(line)
    [] k = "ftc" -> Ftc_fromCSV(line)
    [] k = "f404" -> F404_fromCSV(line)
    [] k = "f606" -> F606_fromCSV(line)

=============================================================================
