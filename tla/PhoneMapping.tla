---------------------------- MODULE PhoneMapping ----------------------------
(***************************************************************************)
(* The database engine of PhoneMapping.cpp: a Builder collects rows into a *)
(* hash table and two columns, build() sorts the routing-number column and *)
(* threads the phone-number column into one linked list by routing number, *)
(* and a Cursor walks part of that list (inverseRNs) or the column itself  *)
(* (visitRows) in batches, looking the routing numbers up again.           *)
(*                                                                         *)
(* Indices into the columns are 0-based, as in the code.                   *)
(***************************************************************************)
EXTENDS Naturals, Sequences, FiniteSets

CONSTANTS
  Phones,    \* phone numbers that files contain
  Routes,    \* routing numbers that files contain
  Bounds,    \* range bounds that queries contain
  PhoneMod,  \* 2^34, the range of PhoneList::phone
  MAXROWS,   \* row limit and end-of-list mark of PhoneList::next
  Batch,     \* size of Cursor::pn_ and rn_
  NONE       \* PhoneNumber::NONE

ASSUME ConstantsAssumption ==
  /\ Phones \subseteq Nat /\ Routes \subseteq Nat /\ Bounds \subseteq Nat
  /\ PhoneMod \in Nat \ {0}
  /\ MAXROWS \in Nat \ {0}
  /\ Batch \in Nat \ {0}
  /\ NONE \notin Routes

\* Ten-digit numbers, and the bounds made from ten-digit prefixes, fit 34 bits.
ASSUME WidthAssumption ==
  \A n \in Phones \cup Routes \cup Bounds : n < PhoneMod

VARIABLES
  phase,     \* "reading" a file, "failed", or "serving" the built Data
  dict,      \* pn -> rn, full width
  pnColumn,  \* <<[phone, next], ...>> in file order
  rnIndex,   \* <<[phone, next], ...>>
  cursor,    \* cursor_, or Closed
  query,     \* what the cursor was opened for (history)
  out        \* rows the caller has read from it (history)

vars == <<phase, dict, pnColumn, rnIndex, cursor, query, out>>

N == Len(pnColumn)

\* A value stored into the 34-bit field.
Narrow(n) == n % PhoneMod

Closed == [kind |-> "closed"]
NoQuery == [kind |-> "none"]
AllRows == [kind |-> "rows"]
RangeQuery(from, to) == [kind |-> "range", from |-> from, to |-> to]

Init ==
  /\ phase = "reading"
  /\ dict = [p \in {} |-> NONE]
  /\ pnColumn = <<>>
  /\ rnIndex = <<>>
  /\ cursor = Closed
  /\ query = NoQuery
  /\ out = <<>>

-----------------------------------------------------------------------------
(* Builder.                                                                *)

\* Mutant: one row too many is accepted.
Refused_OffByOne(pn) == pn \in DOMAIN dict \/ N > MAXROWS

Refused(pn) == pn \in DOMAIN dict \/ N >= MAXROWS

\* addRow: the key is new and the columns have room.
AddRow(pn, rn) ==
  /\ phase = "reading"
  /\ ~Refused(pn)
  /\ dict' = [p \in DOMAIN dict \cup {pn} |-> IF p = pn THEN rn ELSE dict[p]]
  /\ pnColumn' = Append(pnColumn, [phone |-> Narrow(pn), next |-> MAXROWS])
  /\ rnIndex' = Append(rnIndex, [phone |-> Narrow(rn), next |-> MAXROWS])
  /\ UNCHANGED <<phase, cursor, query, out>>

\* addRow threw on the next row of the file: the load is given up with the
\* Builder and everything in it.
RefuseRow(pn) ==
  /\ phase = "reading"
  /\ Refused(pn)
  /\ phase' = "failed"
  /\ UNCHANGED <<dict, pnColumn, rnIndex, cursor, query, out>>

\* fromCSV met a row that is not two numbers.
BadRow ==
  /\ phase = "reading"
  /\ phase' = "failed"
  /\ UNCHANGED <<dict, pnColumn, rnIndex, cursor, query, out>>

\* build()'s comparison on the rnIndex column joined with row numbers.
Less(i, j) ==
  \/ rnIndex[i + 1].phone < rnIndex[j + 1].phone
  \/ rnIndex[i + 1].phone = rnIndex[j + 1].phone /\ i < j

\* The row numbers in the order std::stable_sort leaves them.
Sorted ==
  {ord \in [1..N -> 0..N-1] : \A k \in 1..N-1 : Less(ord[k], ord[k + 1])}

\* std::unique keeps the first entry of every routing number.
FirstOfRun(ord, k) ==
  k = 1 \/ rnIndex[ord[k] + 1].phone # rnIndex[ord[k - 1] + 1].phone

\* Data::build() and commit() at the end of the file.
Build ==
  /\ phase = "reading"
  /\ phase' = "serving"
  /\ \E ord \in Sorted :
       LET runs == {k \in 1..N : FirstOfRun(ord, k)} IN
       /\ pnColumn' = [i \in 1..N |->
            LET k == CHOOSE k \in 1..N : ord[k] = i - 1 IN
            IF k < N THEN [pnColumn[i] EXCEPT !.next = ord[k + 1]] ELSE pnColumn[i]]
       /\ rnIndex' = [m \in 1..Cardinality(runs) |->
            LET k == CHOOSE k \in runs : Cardinality({j \in runs : j <= k}) = m IN
            [phone |-> rnIndex[ord[k] + 1].phone, next |-> ord[k]]]
  /\ UNCHANGED <<dict, cursor, query, out>>

-----------------------------------------------------------------------------
(* Lookups and cursors.                                                    *)

getRN(pn) == IF pn \in DOMAIN dict THEN dict[pn] ELSE NONE

getRNs(pns) == [i \in DOMAIN pns |-> getRN(pns[i])]

\* std::lower_bound on rnIndex from position lo: the first entry not below n.
LowerBound(lo, n) ==
  CHOOSE k \in lo..Len(rnIndex) + 1 :
    /\ k <= Len(rnIndex) => rnIndex[k].phone >= Narrow(n)
    /\ \A j \in lo..k - 1 : rnIndex[j].phone < Narrow(n)

HeadOfRun(k) == IF k > Len(rnIndex) THEN MAXROWS ELSE rnIndex[k].next

\* One step of a visitor's iterator.
Follow(kind, it) == IF kind = "range" THEN pnColumn[it + 1].next ELSE it + 1

\* The values it_ takes, until it meets end_.
Path(kind, it, end) ==
  LET path[n \in 0..Batch] == IF n = 0 THEN it
                              ELSE IF path[n - 1] = end THEN end
                              ELSE Follow(kind, path[n - 1])
  IN  path

\* The rows refill() reads: up to Batch of them.
Visits(kind, it, end) ==
  LET path == Path(kind, it, end)
      size == Cardinality({n \in 0..Batch - 1 : path[n] # end})
  IN  [it |-> path[size], rows |-> [n \in 1..size |-> pnColumn[path[n - 1] + 1].phone]]

\* Cursor::prefetch: refill and look the routing numbers up.
Prefetch(kind, it, end) ==
  LET v == Visits(kind, it, end) IN
  [kind |-> kind, it |-> v.it, end |-> end,
   pn |-> v.rows, rn |-> getRNs(v.rows), pos |-> 0]

\* PhoneMapping::hasRow
hasRow == cursor # Closed

inverseRNs(from, to) ==
  LET left == LowerBound(1, from)
      right == LowerBound(left, to)
      pnBegin == HeadOfRun(left)
      pnEnd == HeadOfRun(right) IN
  /\ phase = "serving"
  /\ ~hasRow
  /\ cursor' = IF pnBegin # pnEnd THEN Prefetch("range", pnBegin, pnEnd) ELSE Closed
  /\ query' = RangeQuery(from, to)
  /\ out' = <<>>
  /\ UNCHANGED <<phase, dict, pnColumn, rnIndex>>

visitRows ==
  /\ phase = "serving"
  /\ ~hasRow
  /\ cursor' = IF N > 0 THEN Prefetch("rows", 0, N) ELSE Closed
  /\ query' = AllRows
  /\ out' = <<>>
  /\ UNCHANGED <<phase, dict, pnColumn, rnIndex>>

\* Mutant: the cursor does not refill.
advance_OneBatch ==
  LET pos == cursor.pos + 1 IN
  /\ hasRow
  /\ pos < Len(cursor.pn)
  /\ out' = Append(out, <<cursor.pn[pos], cursor.rn[pos]>>)
  /\ cursor' = [cursor EXCEPT !.pos = pos]
  /\ UNCHANGED <<phase, dict, pnColumn, rnIndex, query>>

\* The caller reads currentPN() and currentRN() and calls advance(); the
\* cursor refills when its batch is used up and closes when that finds nothing.
advance ==
  LET pos == cursor.pos + 1
      next == IF pos = Len(cursor.pn)
                THEN Prefetch(cursor.kind, cursor.it, cursor.end)
                ELSE [cursor EXCEPT !.pos = pos] IN
  /\ hasRow
  /\ out' = Append(out, <<cursor.pn[pos], cursor.rn[pos]>>)
  /\ cursor' = IF Len(next.pn) = 0 THEN Closed ELSE next
  /\ UNCHANGED <<phase, dict, pnColumn, rnIndex, query>>

-----------------------------------------------------------------------------
Next ==
  \/ \E pn \in Phones, rn \in Routes : AddRow(pn, rn)
  \/ \E pn \in Phones : RefuseRow(pn)
  \/ BadRow
  \/ Build
  \/ \E from, to \in Bounds : inverseRNs(from, to)
  \/ visitRows
  \/ advance

Spec == Init /\ [][Next]_vars

\* The thread that owns a cursor goes on advancing it (sendBody, dump).
FairSpec == Spec /\ WF_vars(advance)

-----------------------------------------------------------------------------
(* Properties.                                                             *)

\* The file position of a phone number.
Position(pn) == CHOOSE i \in 1..N : pnColumn[i].phone = pn

\* What the caller asked for, from the dictionary alone.
Wanted ==
  {row \in {<<p, dict[p]>> : p \in DOMAIN dict} :
     query.kind = "range" => row[2] >= query.from /\ row[2] < query.to}

\* The order rows are promised in: file order, or routing number first.
Before(x, y) ==
  IF query.kind = "range" /\ x[2] # y[2] THEN x[2] < y[2]
                                         ELSE Position(x[1]) < Position(y[1])

\* While a cursor is read, the rows handed out are rows that were asked for,
\* each once and in order, and none that comes before them is skipped; a cursor
\* that has closed has handed out everything that was asked for.  So an inverse
\* query misses no phone number of any routing number in its range, visitRows
\* gives back the file, and crossing a batch or a routing number loses or
\* repeats nothing, up to a database with as many rows as next can number.
CursorComplete ==
  /\ \A i \in DOMAIN out : out[i] \in Wanted
  /\ \A i, j \in DOMAIN out : i < j => Before(out[i], out[j])
  /\ \A i \in DOMAIN out, row \in Wanted :
       Before(row, out[i]) => \E j \in DOMAIN out : out[j] = row
  /\ ~hasRow /\ query # NoQuery =>
       \A row \in Wanted : \E i \in DOMAIN out : out[i] = row

\* Every inverse query and every dump ends: the threaded list has no cycle
\* and meets the end mark it was given.
CursorCloses == hasRow ~> ~hasRow

=============================================================================
