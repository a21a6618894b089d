CONSTANT Series <- MCSeries
SPECIFICATION Spec
INVARIANTS LeftoversAccounted FaultsStruck TriggerTruth
PROPERTY SeriesEnds
CHECK_DEADLOCK FALSE
