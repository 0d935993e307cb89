SPECIFICATION FairSpec
CONSTANTS
  Timeout = 2
  Names <- TheNames
  Listing <- TwoVariables
INVARIANTS
  SecretsUnderTLS
  AnswersUnderTLS
  WholeListing
  SetDone
  CallBounded
PROPERTY
  CallReturns
CHECK_DEADLOCK FALSE
