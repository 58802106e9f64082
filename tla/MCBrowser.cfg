SPECIFICATION Spec
CONSTANTS
  Users = {u1}
  Calls = {p1, p2}
  MaxTokens = 4
  MaxMishaps = 3
SYMMETRY Symmetry
INVARIANTS TypeOK OrphansCounted HeldIsLive
