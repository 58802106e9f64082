SPECIFICATION Spec
CONSTANTS
  Orgs = {o1, o2}
  Phones = {t1, t2}
  Procs = {p1, p2}
  MaxUsers = 2
  MaxSites = 2
  MaxJobs = 1
SYMMETRY Symmetry
INVARIANTS TypeOK TenantClosed ActiveAgrees PhoneUnique JobsAssigned
