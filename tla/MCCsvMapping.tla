---------------------------- MODULE MCCsvMapping ----------------------------
(* A small instance of CsvMapping for TLC: all files of at most two lines     *)
(* over two keys of each DNO kind, three rows of LERG and, for each table,    *)
(* rows of two numbers and the lines its reader treats differently.           *)
EXTENDS CsvMapping

Key == [dno |-> {4, 11}, dno_npa |-> {0, 1}, dno_npa_nxx |-> {1, 3}, dno_npa_nxx_x |-> {2, 5}]

LergLines ==
  {[npa |-> 1, nxx |-> 0, x |-> Blank], [npa |-> 1, nxx |-> 1, x |-> Blank],
   [npa |-> 1, nxx |-> 0, x |-> 1]}

\* A line with n columns of which the first ones are given.
Wide(cols, n) == Line(cols \o [i \in 1..n - Len(cols) |-> <<Letter>>], FALSE)

A == <<0, 1, 0, 1>>
B == <<1, 0, 1, 1>>
Name == <<Letter>>

\* Lines that leave the number of a DNC row unset: to that of A, that of B or none of them.
EmptyLines == {LineWithJunk(<<>>, FALSE, junk) : junk \in {Value(A), Value(B), 0, 14}}
CommasOnly == LineWithJunk(<<<<>>, <<>>>>, FALSE, Value(A))

TableLines ==
  [dnc |-> {Wide(<<A>>, 1), Wide(<<B>>, 1), Wide(<<Name>>, 1), CommasOnly,
            Line(<<<<1, 0>>, <<1, 1>>>>, FALSE)} \cup EmptyLines,
   tollfree |-> {Wide(<<A>>, 3), Wide(<<B>>, 3), Wide(<<Name>>, 3), Wide(<<A>>, 2)},
   youmail |-> {Wide(<<<<Plus, 1>> \o A>>, 5), Line(<<<<Plus, 1>> \o B, Name, <<>>, <<>>>>, TRUE),
                Wide(<<<<Plus>> \o B>>, 5), Wide(<<<<Plus, 1>>>>, 5), Wide(<<<<Plus, 1>> \o A>>, 4),
                Wide(<<A>>, 5)},
   geo |-> {Wide(<<<<0, 1>>>>, 20), Wide(<<<<1, 0>>>>, 20), Wide(<<<<1, 1>>>>, 19),
            Wide(<<Name>>, 20), Wide(<<<<1, 1>>>>, 18)},
   ftc |-> {Wide(<<<<1>>, A>>, 6), Wide(<<<<1>>, B>>, 6), Wide(<<<<1>>, B>>, 5), Wide(<<Name, B>>, 6),
            Wide(<<<<1>>, Name>>, 6), Wide(<<<<1>>, A>>, 4)},
   f404 |-> {Wide(<<<<1>> \o A>>, 3), Wide(<<<<1>> \o B>>, 4), Wide(<<<<1>>>>, 3), Wide(<<Name>>, 3),
             Wide(<<<<1>> \o A>>, 2)},
   f606 |-> {Wide(<<<<1>> \o A>>, 3), Wide(<<<<1>>>>, 3), Wide(<<Name>>, 3)}]

Lines(k) ==
  CASE k = "lerg" -> BadLines \cup LergLines
    [] k = "dno" -> BadLines \cup Key[k]
    [] k \in DnoKinds \ {"dno"} -> Key[k]
    [] OTHER -> TableLines[k]

\* Files of three rows, for the row limit.
LongFiles(k) ==
  CASE k = "lerg" -> {f \in [1..3 -> LergLines] : IsInjective(f)}
    [] k = "dnc" -> {<<Wide(<<A>>, 1), Wide(<<B>>, 1), Wide(<<Name>>, 1)>>}
    [] OTHER -> {}

MCFiles == [k \in Kinds |-> BoundedSeq(Lines(k), 2) \cup LongFiles(k)]

MCSymmetry == Permutations(Threads)

=============================================================================
