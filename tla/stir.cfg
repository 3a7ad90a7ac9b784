\* Two connections and two requests, so that what is signed is verified later,
\* with a clock that moves between the steps.
CONSTANTS
  Period = 1
  IntLimit = 8
  BadNumber = BadNumber
  NoPart = NoPart
  Garbled = Garbled
  Scalar = Scalar
  NoClaim = NoClaim
  NoTn = NoTn
  NotInt = NotInt
  Conns = {c1, c2}
  ValidTNs = {1, 2}
  SigningDocs <- MCSigningDocs
  VerifyingDocs <- MCVerifyingDocs
  Lengths = {0, 2, 3}
  BodyLimit = 2
  LengthWidth = 3
  NoLength = NoLength
  BadType = BadType
  Nothing = Nothing
  StartTime = 4
  MaxTime = 6
  MaxRequests = 2
SPECIFICATION FairSpec
INVARIANT PassedIffSigned
PROPERTY RequestsEnd
