\* Up to four rows (the row limit, and its excess) of five phones over two
\* routing numbers with bounds below, on, between and above them; batches of
\* two rows, so that a walk refills up to twice.  A load that failed stops.
CONSTANTS
  Phones = {1, 2, 4, 6, 7}
  Routes = {1, 5}
  Bounds = {0, 1, 3, 5, 6}
  PhoneMod = 8
  MAXROWS = 4
  Batch = 2
  NONE = NONE
SPECIFICATION FairSpec
INVARIANT CursorComplete
PROPERTY CursorCloses
CHECK_DEADLOCK FALSE
