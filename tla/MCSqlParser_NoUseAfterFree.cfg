CONSTANTS
  Rows <- MCRows
  Texts <- ReplacedTexts
  Alien = "ALIEN"
  YYINITDEPTH = 60
SPECIFICATION Spec
INVARIANT NoUseAfterFree
