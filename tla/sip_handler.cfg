\* Two handlers, reloads of the ACL and of both mappings, one second.
CONSTANTS
  p1 = p1
  Handlers = {h1, h2}
  Peers = {p1}
  AclFiles <- MCAclFiles
  Numbers = {n}
  UsFiles <- MCUsFiles
  CaFiles <- MCCaFiles
  u = u
  c = c
  NONE = NONE
  Nothing = Nothing
  Unit = 2
  Unlimited = 9
  MaxDatagrams = 2
  MaxAcls = 2
  MaxTime = 1
SPECIFICATION Spec
SYMMETRY MCSymmetry
INVARIANTS VerdictInForce BudgetHolds RouteInForce
