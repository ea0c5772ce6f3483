SPECIFICATION Spec
CONSTANTS
  a = a
  b = b
  Items <- MCItems
  Interval = 2
  IdleInterval = 6
  Quiet = 4
  SweepTime = 1
  MaxRefires = 1
  MaxPeople = 1
  MaxFaults = 1
SYMMETRY Symmetry
INVARIANTS TypeOK EnsureKeepsPace FoundInTime
PROPERTIES ChainKept AlongsideOnlyUnlisted
