SPECIFICATION FairSpec
CONSTANTS
  MaxAttempts = 2
  Limits <- MCLimits
CHECK_DEADLOCK FALSE
INVARIANTS
  TypeOK
  ProofIsTrue
  NoOverlap
  EndedMeansDead
PROPERTIES
  AttemptsEnd
  StopSettles
