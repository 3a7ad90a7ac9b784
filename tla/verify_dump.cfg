\* Mappings of up to two rows, files of up to three lines.
CONSTANTS
  Keys = {1, 2}
  Values = {1, 2}
  Forms = {"row", "short", "bad"}
  NONE = NONE
  Chunk = 2
  MaxDiff = 2
  MaxTable = 2
  MaxFile = 3
SPECIFICATION Spec
PROPERTIES MatchIsNeverRefused AcceptedIsClose DumpIsSnapshot
