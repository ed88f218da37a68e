\* Two runs over different contents register one batch id at once.
CONSTANTS
  f = f
  g = g
  h = h
  s1 = s1
  s2 = s2
  k1 = k1
  k2 = k2
  resolved1 = resolved1
  resolved2 = resolved2
  open1 = open1
  open2 = open2
  NoContent = NoContent
  NoDecision = NoDecision
  Case = {0, 1, 2, 3}
  Settlement = {s1, s2}
  Candidate = {k1, k2}
  Decision = {resolved1, resolved2, open1, open2}
  DecisionLinks <- MCDecisionLinks
  DecisionCandidates <- MCDecisionCandidates
  Content = {f, g, h}
  DecisionOf <- MCDecisionOf
  EventsOf <- MCEventsOf
  Run = {1, 2}
  MaxConcurrent = 2
SPECIFICATION Spec
INVARIANT CollisionIsLoud
