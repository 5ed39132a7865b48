CONSTANTS
  Rows <- MCRows
  Texts <- OverwrittenTexts
  Alien = "ALIEN"
  YYINITDEPTH = 40
  MaxBatch = 3
  MaxParams = 3
SPECIFICATION Program
INVARIANT ParametersPlaced
