\* The floor raised over two candidates with claims of two strengths.
CONSTANTS
  c1 = c1
  c2 = c2
  c3 = c3
  f1 = f1
  f2 = f2
  f3 = f3
  Candidate = {c1, c2}
  Fragment = {f1, f2}
  Fabricated = {lie}
  Base = 1
  Elevated = 2
  Claims <- MCClaims
  Snapshot <- MixedSnapshot
SPECIFICATION Spec
SYMMETRY Symmetry
INVARIANT FloorIsConservative
