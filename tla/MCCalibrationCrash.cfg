CONSTANTS
  f = f
  g = g
  c = c
  p = p
  Services = {f, g, c, p}
  Graph <- MCGraph
  Targets <- MCTargets
  Trials = 3
  Onsets = {0, 6}
  MaxCampaigns = 2
  Absent = Absent
  Torn = Torn
  NoOnset = NoOnset
SPECIFICATION Spec
INVARIANT CrashKeepsData
CHECK_DEADLOCK FALSE
