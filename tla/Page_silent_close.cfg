\* The instance of Page: a tab is closed while its save is under way.
SPECIFICATION PageSpec
CONSTANTS
  g = g
  t1 = t1
  r1 = r1
  r2 = r2
  c1 = c1
  c2 = c2
  Scopes = {c1}
  Global = g
  Removable = {c1}
  MaxVariableEdits = 2
  MaxFlushes = 1
  MaxSaveFailures = 1
  MaxSaveTimeouts = 1
  MaxChanges = 1
  Tabs = {t1}
  Requests = {r1, r2}
  Collections = {c1, c2}
  Home <- MCHome
  Texts = {0, 1}
  Auths = {0, 1}
  MaxEdits = 2
  MaxClicks = 3
  MaxFailures = 1
CHECK_DEADLOCK FALSE
INVARIANT
  SilentCloseLosesNothing
