SPECIFICATION FairSpec
CONSTANTS
  Users = {u1}
  Procs = {p1, p2}
  Codes = {c1, c2}
  maxOTPAttempts = 2
  maxOTPRequests = 1
  OtpTTL = 1
  RateWindow = 1
  SmallintMax = 2
  MaxTime = 2
  MaxOtps = 3
INVARIANTS TypeOK SingleUse AttemptLimit RateOverrunBounded
PROPERTIES NewestFirst RequestsEnd
