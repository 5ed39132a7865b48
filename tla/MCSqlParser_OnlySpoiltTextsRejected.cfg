CONSTANTS
  Rows <- MCRows
  Texts <- ContestedTexts
  Alien = "ALIEN"
  YYINITDEPTH = 60
SPECIFICATION Spec
PROPERTY OnlySpoiltTextsRejected
