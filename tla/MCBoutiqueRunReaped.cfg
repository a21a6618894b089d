CONSTANT Series <- MCSeries
SPECIFICATION Spec
INVARIANT InjectorReaped
CHECK_DEADLOCK FALSE
