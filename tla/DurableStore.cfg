SPECIFICATION Spec
CONSTANTS
  c1 = c1
  c2 = c2
  k1 = k1
  k2 = k2
  d1 = d1
  d2 = d2
  Torn = Torn
  Callers <- MCCallers
  Keys <- MCKeys
  Data <- MCData
INVARIANTS
  AcknowledgedSurvives
PROPERTIES
  ImplementsWriteOnce
