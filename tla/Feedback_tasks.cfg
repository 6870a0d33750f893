SPECIFICATION FairSpec
CONSTANTS
  f1 = f1
  f2 = f2
  given = given
  s1 = s1
  s2 = s2
  Items = {f1}
  Parent <- Alone
  Loops = {l1}
  Tasks = {given, s1, s2}
  Given = {given}
  AutoResolve = TRUE
  RetryCap = 2
  MaxProposed = 2
  MaxUpsets = 1
  Overlap = FALSE
  None = None
INVARIANT TypeOK
INVARIANT TasksAreKnown
INVARIANT DoneIsResolved
PROPERTY ResolvedStaysResolved
PROPERTY FeedbackIsServed
CHECK_DEADLOCK FALSE
