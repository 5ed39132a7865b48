CONSTANTS
  Rows <- MCRows
  Texts <- MCTexts
  Alien = "ALIEN"
  YYINITDEPTH = 60
SPECIFICATION Spec
INVARIANT TypeOK
INVARIANT NoDangling
INVARIANT UniqueOwner
INVARIANT NoNullDereference
INVARIANT NoUseAfterFree
INVARIANT FreedOnSuccess
INVARIANT FreedOnError
INVARIANT LengthsAddUp
INVARIANT ParametersNumbered
INVARIANT TreesFollowPrecedence
INVARIANT StackFollowsNesting
PROPERTY OnlySpoiltTextsRejected
