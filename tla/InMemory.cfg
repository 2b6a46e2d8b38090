CONSTANTS
  p1 = p1
  p2 = p2
  p3 = p3
  g1 = g1
  theMovie = theMovie
  sequel = sequel
  Puts = {p1, p2, p3}
  Gets = {g1}
  Movies = {theMovie, sequel}
  NoMovie = NoMovie
  NoMap = NoMap
SYMMETRY Symmetry
SPECIFICATION Spec
INVARIANTS TypeOK CountedStays GetsSeeCounted
CHECK_DEADLOCK FALSE
