SPECIFICATION Spec
CONSTANTS
  s1 = s1
  s2 = s2
  full = full
  cut = cut
  p1 = p1
  p2 = p2
  c1 = c1
  None = None
  Sessions = {s1, s2}
  Publics = {p1, p2}
  Probes = {}
  Ports = {full, cut}
  PortOf <- OnePort
  PortViews <- WholeLine
  ConnectionTimeout = 1
  StaleAfter = 0
  Retention = 1
  ConnectWindow = 1
  SweepAbove = 1
  MaxActive = 2
  MaxTime = 0
  Faults = {"dial", "cut", "read"}
SYMMETRY OnePortSymmetry
INVARIANTS TypeOK Matching MatchedToOwn EntryHasHandler CallbackFindsWaiter DeliveredIsUsed ConnectIsNext
PROPERTY ImplementsMatchmaker
