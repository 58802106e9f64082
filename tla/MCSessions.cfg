SPECIFICATION FairSpec
CONSTANTS
  Users = {u1}
  Procs = {p1, p2, p3}
  AccessTTL = 1
  RefreshTTL = 2
  MaxTime = 2
  MaxRows = 3
INVARIANTS TypeOK OneSuccessor OneAccess
PROPERTIES LogoutFinal RevokedForever ImplementsFamilies RequestsEnd
