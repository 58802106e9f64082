SPECIFICATION Spec
CONSTANTS
  Workers = {w1, w2}
  Rates = {450, 999}
  Worked = {4}
  MaxWorked = 1000
  Checkins = {1, 6}
  Day = 4
  Zones <- FewZones
  Home <- London
  Periods <- FewPeriods
  MaxRows = 2
  MaxCommits = 2
  TicksPerSecond = 1
  DivScale = 1000000
  SimpleProtocol = TRUE
SYMMETRY Symmetry
INVARIANTS TypeOK PartsAgree DayFilterIsTheDays AmountIsExactPay LongerNeverPaysLess
