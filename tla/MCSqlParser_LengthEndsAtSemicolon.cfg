CONSTANTS
  Rows <- MCRows
  Texts <- ListTexts
  Alien = "ALIEN"
  YYINITDEPTH = 60
SPECIFICATION Spec
INVARIANT LengthEndsAtSemicolon
