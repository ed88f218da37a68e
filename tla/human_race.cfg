\* Two requests race on the decisions of two cases.
CONSTANTS
  a = a
  b = b
  Keep = Keep
  Case = {1, 2}
  Candidate = {a, b}
  CandidateOf <- MCCandidateOf
  Reason = {w}
  Reviewer = {1, 2}
  MaxRevision = 3
SPECIFICATION HumanSpec
INVARIANT HumanTypeOK LatestIsActive
PROPERTY NoLostDecision
