SPECIFICATION LoginSpec
CONSTANTS
  Clients = {c1, c2}
  Uids = {root}
  Root = root
  Seats = {seat0, seat1}
  Seat0 = seat0
  Holdings = {control}
  None = None
  MaxSession = 2
  MaxLives = 2
  MaxErrors = 1
  Lockers = {p1, p2}
  Requests = {r1, r2}
  Interfaces = {"compat"}
  MaxLocks = 2
  MaxRuns = 2
INVARIANTS
  InhibitorRespected
  LoginTypesOK
  SessionKept
  ClosesOwn
PROPERTIES
  NewSessionFresh
  PowerAnswered
