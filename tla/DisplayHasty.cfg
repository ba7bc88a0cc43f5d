SPECIFICATION Spec
CONSTANT Patient = FALSE
CHECK_DEADLOCK FALSE
INVARIANTS NoWritesAfterRelease
