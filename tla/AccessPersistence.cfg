\* Two concurrent scopes and up to three requests over two seeded stores: the
\* two gates, a manager and repeated requests race for q1 and its face.
CONSTANTS
  None = None
  System = System
  q1 = q1
  q2 = q2
  q3 = q3
  s1 = s1
  s2 = s2
  gateIn = gateIn
  gateOut = gateOut
  e1 = e1
  e2 = e2
  f1 = f1
  f2 = f2
  f3 = f3
  Quals = {q1, q2, q3}
  Slots = {s1, s2}
  Sources = {gateIn, gateOut}
  ExternalIds = {e1, e2}
  Subjects = {f1, f2, f3}
  Capacity = 2
  Instants <- MCInstants
  Arrivals <- MCArrivals
  Inputs <- MCInputs
  InitialDocs <- MCSeeds
  Scopes = {a, b}
  MaxRequests = 3
  manager = manager
  scanner = scanner
  AuthCalls = {manager, scanner}
  NoInstant = none
  Accounts = {"u"}
  TokenLifetime = 1
  LastSecond = 1
SYMMETRY MCSymmetry
INIT MachinesInit
NEXT MachinesNext
CONSTRAINT OneManagesOneScans
INVARIANTS
  DocumentsAreReadable
  EventsExplainPresence
  FacesFollowQualifications
  AnswersAreCanonical
  ReadsTellCommits
PROPERTIES
  OneAtATime
  NothingFromTheFrozen
  RepliesAreTrue
CHECK_DEADLOCK FALSE
