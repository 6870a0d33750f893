SPECIFICATION Spec
CONSTANTS
  a1 = a1
  a2 = a2
  Angles <- MCAngles
  IncludeGeneral = FALSE
  HasSynthesizer = TRUE
  General = General
  NoAngle <- none
  none = none
  ReportedAngles <- OnlyAngles
  Missing = Missing
CHECK_DEADLOCK FALSE
\* Each is violated on its own.
INVARIANT ResolvesOnlyOnce
\* INVARIANT DoesNotThrow
\* INVARIANT FindingsBlockMerge
