CONSTANTS
  Texts <- AllTexts
  Letters <- MCLetters
  Keywords <- MCKeywords
SPECIFICATION FairSpec
INVARIANT TypeOK
INVARIANT LocationIsExact
INVARIANT TokensAreWhole
INVARIANT CommentEndsWithLine
INVARIANT OnlyFirstStringLeaks
INVARIANT EndsAtUnknown
PROPERTY Terminates
