\* One investigation of two steps, two providers, one transport retry.
CONSTANTS
  e1 = e1
  e2 = e2
  e3 = e3
  Bad = Bad
  Providers = 2
  Retries = 1
  Evidence = {e1, e2, e3}
  Turn <- MCTurn
  Resolving <- MCResolving
  MaxSteps = 2
  MaxToolCalls = 2
SPECIFICATION Spec
INVARIANT BatchIsAtomic OneAuthority AttemptsAreHonest
PROPERTY IsAnInquiry
