SPECIFICATION FairSpec
CONSTANTS
  o1 = o1
  o2 = o2
  c1 = c1
  c2 = c2
  c3 = c3
  Orgs = {o1, o2}
  Conns = {c1, c2}
  Pubs = {p1, p2}
  orgOf <- TwoOfOne
  None = None
INVARIANTS TypeOK TenantOnly RoomsMatchHandlers LoopSeesRoom
PROPERTIES EndsUnlessStalled
