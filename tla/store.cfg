\* A request and two concurrent reloads of one mapping, with an address to spare;
\* no symmetry, which liveness checking does not allow.
CONSTANTS
  Globals = {US}
  Readers = {r1}
  Loaders = {l1, l2}
  Addr = {a1, a2, a3}
  Files = {f1, f2}
  Null = Null
  NoFile = NoFile
  Avail <- MCAvail
SPECIFICATION FairSpec
INVARIANTS TypeOK NoUseAfterFree SingleSnapshot SingleOwner
PROPERTIES AvailabilityIsStable ImplementsStore RetiredIsReclaimed
