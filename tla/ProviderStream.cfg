\* One stream of each provider, up to three lines.
SPECIFICATION FairSpec
CONSTANTS
  Prompts <- MCPrompts
  Texts <- MCTexts
  Usages <- MCUsages
  MaxLines = 3
  None = None
CHECK_DEADLOCK FALSE
INVARIANTS TypeOK ChargedAsReported TextIsCharged LogIsTranscript TruncationReported
PROPERTIES StreamEnds ImplementsContract
