CONSTANTS
  Rows <- MCRows
  Texts <- UndefinedTexts
  Alien = "ALIEN"
  YYINITDEPTH = 40
  MaxBatch = 3
  MaxParams = 3
SPECIFICATION Program
INVARIANT PrintingIsDefined
