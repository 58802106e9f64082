SPECIFICATION FairSpec
CONSTANTS
  w1 = w1
  w2 = w2
  w3 = w3
  n1 = n1
  n2 = n2
  c1 = c1
  c2 = c2
  v1 = v1
  v2 = v2
  j1 = j1
  l1 = l1
  Procs = {p1, p2, p3}
  Visits = {v1, v2}
  Jobs = {j1}
  Sites = {l1}
  Workers = {w1, w2, w3}
  Numbers = {n1, n2}
  Codes = {c1, c2}
  VisitWorker <- VisitWorkerDef
  VisitJob <- VisitJobDef
  JobSite <- JobSiteDef
  FirstNumber <- FirstNumberDef
  FirstCode <- FirstCodeDef
  Requests <- RequestsDef
  PoolSizes = {2, 3}
CHECK_DEADLOCK FALSE
INVARIANTS TypeOK DeadlocksAreKnown
PROPERTIES RequestsEnd
