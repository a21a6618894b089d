CONSTANTS
  a = a
  b = b
  c = c
  d = d
  None = None
  NoSli = None
  Services <- MCServices
  DictPos <- MCDictPos
  Metrics <- MCMetrics
  Lag <- MCLag
  Domains <- MCDomains
  Evidence <- MCEvidence
SPECIFICATION Spec
INVARIANTS TypeOK RootsAreCandidates RootsJustified RootsInOnsetOrder ReportConsistent
PROPERTIES ReportProduced ImplementsRootCauses
CHECK_DEADLOCK FALSE
