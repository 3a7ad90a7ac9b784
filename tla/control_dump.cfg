\* A reload, a status report and a dump at the same time.
CONSTANTS
  Clients = {c1, c2, c3}
  Requests <- DumpRequests
  Fds = {0, 1, 2, 3, 4, 5}
  Links = {}
  Old = Old
  Nothing = Nothing
SPECIFICATION Spec
SYMMETRY MCSymmetry
INVARIANT DumpIsClean
