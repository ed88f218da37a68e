\* Runs one after the other over the whole batch with one model.
CONSTANTS
  a = a
  b = b
  x = x
  s0 = s0
  s1 = s1
  s2 = s2
  m1 = m1
  m2 = m2
  p1 = p1
  p2 = p2
  Keep = Keep
  NoChoice = NoChoice
  NoTrajectory = NoTrajectory
  Torn = Torn
  Case = {1, 2}
  Candidate = {a, b, x}
  CandidateOf <- MCCandidateOf
  Settlement = {s0, s1, s2}
  LinksOf <- MCLinksOf
  ProofOf <- MCProofOf
  Stage2Links <- MCStage2Links
  Reason = {w}
  Trajectory <- MCTrajectory
  Reviewer = {}
  MaxRevision = 1
  Model = {m1}
  Pass = {1, 2, 3}
  MaxConcurrent = 1
  Option <- WholeBatch
SPECIFICATION FairSpec
INVARIANT LinksMatchDecision RecordIsSound
PROPERTY RefinesRegistry PassEnds
