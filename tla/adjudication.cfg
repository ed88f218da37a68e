\* Snapshots of three candidates, three fragments and up to two labelled fields.
CONSTANTS
  c1 = c1
  c2 = c2
  c3 = c3
  f1 = f1
  f2 = f2
  f3 = f3
  Candidate = {c1, c2, c3}
  Fragment = {f1, f2, f3}
  Fabricated = {lie}
  Base = 1
  Elevated = 2
  Claims <- MCClaims
  Snapshot <- MCSnapshot
SPECIFICATION Spec
SYMMETRY Symmetry
INVARIANT TypeOK OneAnswer MoreEvidenceKeepsTheAnswer ResolutionIsProved
