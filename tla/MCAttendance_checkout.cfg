SPECIFICATION Spec
CONSTANTS
  Procs = {p1, p2}
  Rates = {180000}
  Instants = {0, 1, 3}
  TicksPerMicro = 1
  TicksPerSecond = 2
  DivScale = 1000000
  SimpleProtocol = FALSE
  MaxAmount = 1000
  MaxTime = 3
  MaxSessions = 1
  MaxEvents = 2
  MaxLogs = 2
PROPERTIES CheckOutRecorded
