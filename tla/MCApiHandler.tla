---------------------------- MODULE MCApiHandler ----------------------------
(* Small instances of ApiHandler for TLC: two phone numbers of which the     *)
(* first is ported in the US or in Canada, routing numbers of two bits, and  *)
(* two versions of every mapping.                                            *)
EXTENDS ApiHandler

Keys == 0..5

\* The function with the given values at the two phone numbers, 4 and 5.
Ported(a, b) == [n \in {4, 5} |-> IF n = 4 THEN a ELSE b]

Version(v) == [n \in Keys |-> <<v, n>>]

MCDb ==
  [us |-> <<Ported(1, 3), Ported(NONE, 1)>>,
   ca |-> <<Ported(NONE, NONE), Ported(2, 2)>>,
   lerg |-> <<Version(1), Version(2)>>]

\* The second file of each country lists the phone numbers downwards.
MCPlace == [m \in {"us", "ca"} |-> <<Ported(1, 2), Ported(2, 1)>>]

MCOptional == <<"lerg">>

Prefix(v, l) == [val |-> v, len |-> l]

MCTargetQueries == {<<4, 5>>, <<5, NONE, 4>>, <<4, 5, 4, 5>>}

MCReverseQueries ==
  {<<Prefix(0, 1), Prefix(2, 2)>>, <<NONE, Prefix(1, 1), Prefix(0, 3), Prefix(1, 2)>>}

=============================================================================
