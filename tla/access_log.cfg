\* Two HTTP requests and a SIP request, with up to two rotations.
CONSTANTS
  s = s
  Requests = {r1, r2, s}
  Sip = {s}
  Null = Null
  MaxRotate = 2
SPECIFICATION FairSpec
PROPERTY LinesReachTheFile
