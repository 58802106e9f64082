SPECIFICATION Spec
CONSTANTS
  Users = {u1}
  Procs = {p1, p2}
  Codes = {c1}
  maxOTPAttempts = 2
  maxOTPRequests = 2
  OtpTTL = 1
  RateWindow = 1
  SmallintMax = 3
  MaxTime = 2
  MaxOtps = 3
SYMMETRY Symmetry
INVARIANTS RateLimit
