SPECIFICATION FairSpec
CONSTANTS
  a1 = a1
  a2 = a2
  Angles <- MCAngles
  IncludeGeneral = FALSE
  HasSynthesizer = TRUE
  General = General
  NoAngle <- none
  none = none
  ReportedAngles <- AnglesAndGeneral
  Missing = Missing
CHECK_DEADLOCK FALSE
INVARIANTS
  TypeOK
  SecondCallOnlyAfterSynthesis
  DecidedOutcomeIsFinal
  MergeIsEarned
PROPERTIES
  CompleteJoinSettles
  ImplementsJoin
