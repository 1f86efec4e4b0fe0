\* Two origins, three redirects, two-block bodies; two rows, two files that change once or vanish.
SPECIFICATION TransportSpec
CONSTANTS
  o1 = o1
  o2 = o2
  Origins = {o1, o2}
  Home = o1
  Requests <- MCRequests
  MaxRedirects = 3
  MaxBytes = 1
  MaxLayers = 2
  r1 = r1
  f1 = f1
  f2 = f2
  p1 = p1
  p2 = p2
  Owners = {r1}
  Owner = r1
  Fields = {f1, f2}
  Paths = {p1, p2}
  MaxSelections = 2
  MaxPicks = 2
  MaxVersions = 2
CHECK_DEADLOCK FALSE
INVARIANTS
  RedirectsAreSafe
  ResponsesAreComplete
  FilesAreAsSelected
PROPERTIES
  Settles
