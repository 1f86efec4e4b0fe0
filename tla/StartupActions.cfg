\* Views replaced, closed and disposed at any time, failing greetings. The
\* run ends when every command has.
SPECIFICATION FairSpec
CONSTANTS
  a1 = a1
  a2 = a2
  Actions = {a1, a2}
  MaxViews = 3
  MayClose = TRUE
  GreetingFaults = {1, 2}
CHECK_DEADLOCK FALSE
INVARIANTS
  PerformedAsReported
PROPERTIES
  OnlyCurrentTargetFails
  SettlesUnlessUngreeted
