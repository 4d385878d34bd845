SPECIFICATION Spec

CONSTANTS
  p1 = p1   p2 = p2   p3 = p3
  Payments = {p1, p2, p3}
  BatchSize = 2
  MaxFaults = 1
  MaxCrashes = 1

SYMMETRY MCSymmetry

INVARIANTS TypeOK EventsConserved ChainLinked SubmittedIsComplete AuditsAreRight

CHECK_DEADLOCK FALSE
