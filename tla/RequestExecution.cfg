\* Cancelling, resending, evicting, closing and replacing the view. The run ends when executions do.
SPECIFICATION Spec
CONSTANTS
  t1 = t1
  t2 = t2
  e1 = e1
  e2 = e2
  Tabs = {t1, t2}
  Executions = {e1, e2}
  MaxBodies = 1
  MaxViews = 2
  MaxWaiting = 2
CHECK_DEADLOCK FALSE
SYMMETRY Symmetry
INVARIANTS
  ShowsLatestOnly
  BodiesMatchTabs
  RunningIsUnderWay
PROPERTIES
  NoConnectionOnceCancelled
