SPECIFICATION Spec
CONSTANTS
  u1 = u1
  u2 = u2
  u3 = u3
  u4 = u4
  Urls <- MCUrls
  LenOf <- MCLen
  TailOf <- MCTail
  Lens <- MCLens
  Tails <- MCTails
  Reqs = {r1, r2}
  MaxReqs = 3
  MaxPage = 2
  Scenarios = {"alone", "apart", "any"}
  NULL = NULL
SYMMETRY Symmetry
INVARIANTS
  CountMatches
  PagesFollowOn
PROPERTY
  OnlyAsAsked
CHECK_DEADLOCK FALSE
