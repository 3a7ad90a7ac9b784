\* Two threads load files of every kind, two loads in all; the third row of a
\* LERG or DNC file is one too many.
CONSTANTS
  Threads = {t1, t2}
  Files <- MCFiles
  Base = 2
  Plus = Plus
  Letter = Letter
  Blank = Blank
  Text = Text
  Columns = Columns
  Field = Field
  NONE = NONE
  Space = Space
  Punct = Punct
  MaxText = 12
  MAXROWS = 2
  MaxLoads = 2
SPECIFICATION Spec
SYMMETRY MCSymmetry
INVARIANTS DnoIsExact LergIsMostSpecific TablesAreExact NoBrokenFile
