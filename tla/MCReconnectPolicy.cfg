\* Two threads report failures out of order; small Base and Cap so that the
\* progression reaches the cap well inside the clock's bound.
CONSTANTS
    Base = 1
    Cap = 3
    Threshold = 2
    MaxTime = 6
    MaxFailures = 5
    Callers = {c1, c2}
SPECIFICATION Spec
SYMMETRY CallersSymmetry
INVARIANTS TypeOK RetryWithinCap
