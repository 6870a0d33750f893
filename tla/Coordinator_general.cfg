SPECIFICATION FairSpec
CONSTANTS
  a1 = a1
  a2 = a2
  Angles <- MCAngles
  IncludeGeneral = TRUE
  HasSynthesizer = FALSE
  General = General
  NoAngle <- none
  none = none
  ReportedAngles <- AnglesAndGeneral
  Missing = Missing
CHECK_DEADLOCK FALSE
INVARIANTS
  MergeIsEarned
PROPERTIES
  CompleteJoinSettles
  ImplementsJoin
