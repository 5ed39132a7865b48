CONSTANTS
  Texts <- CommentTexts
  Letters <- MCLetters
  Keywords <- MCKeywords
SPECIFICATION Spec
INVARIANT CommentEndsWithLine
