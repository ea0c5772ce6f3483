SPECIFICATION Spec
CONSTANTS
  p1 = p1
  p2 = p2
  s1 = s1
  s2 = s2
  Pulls <- TwoPulls
  Suites <- TwoSuites
  MaxRedeliveries = 1
  MaxFaults = 2
  MaxCloses = 1
SYMMETRY Symmetry
CHECK_DEADLOCK FALSE
INVARIANT TypeOK
INVARIANT LastWordRead
PROPERTY KeepsAcceptance
