SPECIFICATION Spec
CONSTANT MaxAttempts = 2
INVARIANTS TypeOK HelloIsOwn CancelWorks SessionTrue
CHECK_DEADLOCK FALSE
