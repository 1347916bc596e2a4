SPECIFICATION ArenaSpec
CONSTANTS
  TXTB = 1
  Top = 18
  Keys = {1000, 2000}
  Bodies <- MCBodies
  Classes = {1, 2}
  PerClass = 1
  Small = 2
  Large = 3
  Texts <- MCTexts
  Decimals <- MCAnswers
  Answers <- MCLongAnswers
  Limit0 = 3
PROPERTY AnswerIsCut
CHECK_DEADLOCK FALSE
