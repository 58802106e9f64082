SPECIFICATION Spec
CONSTANTS
  Procs = {p1, p2}
  Rates = {90000, 180000}
  Instants = {1, 6}
  TicksPerMicro = 2
  TicksPerSecond = 4
  DivScale = 1000000
  SimpleProtocol = TRUE
  MaxAmount = 49
  MaxTime = 6
  MaxSessions = 1
  MaxEvents = 2
  MaxLogs = 2
SYMMETRY Symmetry
INVARIANTS TypeOK PayFollowsTimes CheckoutSettles
PROPERTIES CompletedStays ImplementsLedger
