\* One handler answers two datagrams.
CONSTANTS
  p1 = p1
  Handlers = {h1}
  Peers = {p1}
  AclFiles <- MCAclFiles
  Numbers = {n}
  UsFiles <- MCUsFiles
  CaFiles <- MCCaFiles
  u = u
  c = c
  NONE = NONE
  Nothing = Nothing
  Unit = 2
  Unlimited = 9
  MaxDatagrams = 2
  MaxAcls = 2
  MaxTime = 1
SPECIFICATION Spec
INVARIANT OneLinePerRequest
