\* Every request, with loads of every mapping between any two steps.
CONSTANTS
  Optional <- MCOptional
  Db <- MCDb
  Place <- MCPlace
  TargetQueries <- MCTargetQueries
  ReverseQueries <- MCReverseQueries
  NONE = NONE
  Base = 2
  Width = 2
  MaxQuery = 3
  FlushAt = 1
SPECIFICATION FairSpec
INVARIANTS StatusIsRight LinesAreTrue ReverseIsExact
PROPERTY WholeRequestAnswered
