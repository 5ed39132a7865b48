CONSTANTS
  Rows <- MCRows
  Texts <- MCTexts
  Alien = "ALIEN"
  YYINITDEPTH = 40
  MaxBatch = 3
  MaxParams = 3
SPECIFICATION FairProgram
INVARIANT PrintingIsDefined
INVARIANT PrintedOnce
INVARIANT PlaceholdersInOrder
INVARIANT ParametersPlaced
PROPERTY ImplementsParserResult
PROPERTY ProgramExits
