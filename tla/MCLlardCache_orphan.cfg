SPECIFICATION Spec
CONSTANTS
  Server = {s1, s2}
  Content = {c1, c2}
  Partial = Partial
  None = None
SYMMETRY Symmetry
INVARIANTS
  RefusedMeansPublished
