SPECIFICATION FairSpec
CONSTANTS
  l1 = l1
  l2 = l2
  MaxLaneTasks = 2
  MaxLaneQuestions = 1
  MaxRecoveries = 1
  MaxRetries = 1
  Scenarios <- MCScenarios
CHECK_DEADLOCK FALSE
INVARIANTS
  TypeOK
  ClosedOnAppliedResult
  CompletedMeansDelivered
  ReplansAreBounded
  PlannedOnce
  QuestionIsHonoured
  OnlyLossesForsake
PROPERTIES
  NothingBehindAPause
  Settles
  ActivationsEnd
