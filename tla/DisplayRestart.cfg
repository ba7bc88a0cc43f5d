SPECIFICATION Spec
CONSTANT Patient = TRUE
CHECK_DEADLOCK FALSE
INVARIANTS SelfRestart
