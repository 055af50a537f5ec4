SPECIFICATION Spec
CONSTANTS
  d = d x = x p = p g1 = g1 g2 = g2 g3 = g3 g4 = g4 g5 = g5 g6 = g6
  None = None Top = Top
  Paths = {d, x, p}
  Parent <- InD
  Gens = {g1, g2, g3, g4, g5, g6}
  Tree <- AllTrees
  PerlGens = {g1, g3, g4, g6}
  MaxRuns = 4 MaxStops = 2 MaxActs = 1
INVARIANTS GenerationShown NothingStays OldOrNew
PROPERTIES OthersKept
CHECK_DEADLOCK FALSE
