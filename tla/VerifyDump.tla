----------------------------- MODULE VerifyDump -----------------------------
(***************************************************************************)
(* The `verify` and `dump` commands (verifyMappingFile, dumpMappingFile):  *)
(* each takes a reference to the mapping in service and walks a file or    *)
(* the mapping row by row, while reloads replace the mapping in service.   *)
(***************************************************************************)
EXTENDS Naturals, Sequences, FiniteSets

CONSTANTS
  Keys, Values,  \* phone and routing numbers of the files
  Forms,         \* forms of line a file on disk may contain
  NONE,          \* PhoneNumber::NONE
  Chunk,         \* lines read between two tests of in.good() (10000)
  MaxDiff,       \* differing rows after which verify gives up (100)
  MaxTable,      \* bound: rows of a loaded mapping
  MaxFile        \* bound: lines of the file on disk

ASSUME VerifyDumpAssumption ==
  /\ NONE \notin Values
  /\ Forms \subseteq {"row", "short", "bad"}
  /\ Chunk \in Nat \ {0} /\ MaxDiff \in Nat \ {0} /\ MaxTable \in Nat /\ MaxFile \in Nat

\* A line of a file: two numbers, one number, or no number at all.
Row(k, v) == [form |-> "row", key |-> k, value |-> v]
Short(k) == [form |-> "short", key |-> k]
Bad == [form |-> "bad"]

Rows == {Row(k, v) : k \in Keys, v \in Values}
Lines == {line \in Rows \cup {Short(k) : k \in Keys} \cup {Bad} : line.form \in Forms}

SeqsUpTo(S, n) == UNION {[1..m -> S] : m \in 0..n}

\* What the Builder accepts: pairs, with no key twice.
Loadable(lines) ==
  /\ \A i \in DOMAIN lines : lines[i].form = "row"
  /\ \A i, j \in DOMAIN lines : lines[i].key = lines[j].key => i = j

Tables == {t \in SeqsUpTo(Rows, MaxTable) : Loadable(t)}

VARIABLES
  current,   \* the mapping in service: its rows in file order
  snap,      \* the mapping the command refers to
  file,      \* the file on disk that stdin or stdout refers to
  newline,   \* its last line is terminated
  pc,        \* what the dispatch thread is doing
  nrows,     \* rows done
  maxdiff,   \* differing rows left before verify gives up
  result     \* answer of the last command

vars == <<current, snap, file, newline, pc, nrows, maxdiff, result>>

Init ==
  /\ current \in Tables
  /\ snap = current
  /\ file \in SeqsUpTo(Lines, MaxFile)
  /\ newline \in (IF file = <<>> THEN {TRUE} ELSE BOOLEAN)
  /\ pc = "idle" /\ nrows = 0 /\ maxdiff = MaxDiff /\ result = "none"

\* peek() after an unterminated line finds the end-of-file flag already set and
\* throws, unless the loop is left first because the chunk is complete.
EndOfFileThrows == ~newline /\ Len(file) % Chunk # 0

\* Another command loads any file, or this one, into the mapping.
Reload ==
  /\ \/ current' \in Tables
     \/ pc # "dump" /\ Loadable(file) /\ ~EndOfFileThrows /\ current' = file
  /\ UNCHANGED <<snap, file, newline, pc, nrows, maxdiff, result>>

Return(r) == result' = r /\ pc' = "idle"

-----------------------------------------------------------------------------
\* dumpMappingFile: takes the mapping in service and truncates the file.
StartDump ==
  /\ pc = "idle"
  /\ pc' = "dump"
  /\ snap' = current
  /\ file' = <<>> /\ newline' = TRUE
  /\ nrows' = 0
  /\ result' = "none"
  /\ UNCHANGED <<current, maxdiff>>

\* Mutant: rows are taken from the mapping in service at the time.
DumpRow_Current ==
  /\ pc = "dump"
  /\ nrows < Len(snap)
  /\ file' = Append(file, IF nrows < Len(current) THEN current[nrows + 1] ELSE snap[nrows + 1])
  /\ nrows' = nrows + 1
  /\ UNCHANGED <<current, snap, newline, pc, maxdiff, result>>

\* Writes currentPN() and currentRN() and advances the cursor.
DumpRow ==
  /\ pc = "dump"
  /\ nrows < Len(snap)
  /\ file' = Append(file, snap[nrows + 1])
  /\ nrows' = nrows + 1
  /\ UNCHANGED <<current, snap, newline, pc, maxdiff, result>>

DumpEnd ==
  /\ pc = "dump"
  /\ nrows = Len(snap)
  /\ Return("S")
  /\ UNCHANGED <<current, snap, file, newline, nrows, maxdiff>>

\* A write failed: the stream throws and the file stays as far as it got.
DumpFails ==
  /\ pc = "dump"
  /\ Return("F")
  /\ UNCHANGED <<current, snap, file, newline, nrows, maxdiff>>

-----------------------------------------------------------------------------
getRN(k) ==
  IF \E i \in DOMAIN snap : snap[i].key = k
    THEN snap[CHOOSE i \in DOMAIN snap : snap[i].key = k].value ELSE NONE

StartVerify ==
  /\ pc = "idle"
  /\ pc' = "verify"
  /\ snap' = current
  /\ nrows' = 0
  /\ maxdiff' = MaxDiff
  /\ result' = "none"
  /\ UNCHANGED <<current, file, newline>>

\* row[1] of a line with one column is read past the end of the vector: any
\* value may be there, the one of the line before among them.
Value(line) == IF line.form = "short" THEN Values \cup {NONE} ELSE {line.value}

\* Mutant: a number that is there at all is taken for a match.
Differs_KeyOnly(k, v) == getRN(k) = NONE

Differs(k, v) == getRN(k) # v

VerifyRow ==
  /\ pc = "verify"
  /\ nrows < Len(file)
  /\ LET line == file[nrows + 1] IN
     \/ /\ line.form = "bad"      \* folly::split throws before ++nrows
        /\ Return("F")
        /\ UNCHANGED <<nrows, maxdiff>>
     \/ /\ line.form # "bad"
        /\ nrows' = nrows + 1
        /\ \E v \in Value(line) :
             IF Differs(line.key, v)
             THEN /\ maxdiff' = maxdiff - 1
                  /\ IF maxdiff' = 0 THEN Return("F") ELSE UNCHANGED <<pc, result>>
             ELSE UNCHANGED <<maxdiff, pc, result>>
  /\ UNCHANGED <<current, snap, file, newline>>

\* Mutant: the size is that of the mapping in service at the time.
VerifyEnd_Current ==
  /\ pc = "verify"
  /\ nrows = Len(file)
  /\ Return(IF EndOfFileThrows \/ nrows # Len(current) THEN "F" ELSE "S")
  /\ UNCHANGED <<current, snap, file, newline, nrows, maxdiff>>

\* The file ends: with an exception, or with the comparison of the counts.
VerifyEnd ==
  /\ pc = "verify"
  /\ nrows = Len(file)
  /\ Return(IF EndOfFileThrows \/ nrows # Len(snap) THEN "F" ELSE "S")
  /\ UNCHANGED <<current, snap, file, newline, nrows, maxdiff>>

-----------------------------------------------------------------------------
Command == DumpRow \/ DumpEnd \/ DumpFails \/ VerifyRow \/ VerifyEnd

Next == StartDump \/ StartVerify \/ Command \/ Reload

Spec == Init /\ [][Next]_vars

-----------------------------------------------------------------------------
(* Properties.                                                             *)

\* The file lists the mapping: the same rows, each once.
Matches(lines, table) ==
  Loadable(lines) /\ {lines[i] : i \in DOMAIN lines} = {table[i] : i \in DOMAIN table}

\* verify accepts a file of terminated lines that lists the mapping the command
\* looked at, in any order of rows and whatever reloads happen meanwhile; so a
\* dump that succeeded verifies until the mapping is reloaded.
MatchIsNeverRefused ==
  [][pc = "verify" /\ pc' = "idle" /\ newline /\ Matches(file, snap) => result' = "S"]_vars

\* A dump that succeeds leaves a file the Builder accepts and that lists
\* exactly the mapping that was in service when the command started, even if
\* it was replaced since.
DumpIsSnapshot ==
  [][pc = "dump" /\ pc' = "idle" /\ result' = "S" => newline' /\ Matches(file', snap)]_vars

\* verify accepts a file only if it has as many lines as the mapping the command
\* looked at has rows, and fewer than MaxDiff of its rows say something else than
\* that mapping, whatever is reloaded meanwhile.
AcceptedIsClose ==
  [][pc = "verify" /\ pc' = "idle" /\ result' = "S" =>
       /\ Len(file) = Len(snap)
       /\ Cardinality({i \in DOMAIN file :
            file[i].form = "row" /\ ~\E j \in DOMAIN snap : snap[j] = file[i]}) < MaxDiff]_vars

=============================================================================
