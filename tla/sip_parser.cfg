\* About a thousand datagrams, and every pair of 122 URIs with and without their
\* text.
SPECIFICATION LibrarySpec
CONSTANTS
  Datagrams <- MCDatagrams
  Bad = Bad
INVARIANTS
  ReadsOnlyTheDatagram EveryLineIsAHeader ReplyHeadersAreFirst UriIsExact ViasAreExact AddressesAreExact
  MatchesBothWays
PROPERTY ParsingEnds
