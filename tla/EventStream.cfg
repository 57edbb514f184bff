\* Answers of up to two texts and an end, cut anywhere.
SPECIFICATION EventSpec
CONSTANTS
  Answers <- MCAnswers
CHECK_DEADLOCK FALSE
INVARIANT ReadableArrives
