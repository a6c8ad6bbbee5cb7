SPECIFICATION Spec
CONSTANTS
  Vifs = {s1, p1}
  Stations = {s1}
  Chans = {c1, c2}
  Budgets <- TwoAndError
INVARIANT OneRocOfEachType
