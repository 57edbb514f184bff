\* The same answers: does the window have the text that was sent?
SPECIFICATION EventSpec
CONSTANTS
  Answers <- MCAnswers
CHECK_DEADLOCK FALSE
INVARIANT TextAsSent
