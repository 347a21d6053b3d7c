SPECIFICATION Spec
CHECK_DEADLOCK FALSE
INVARIANT RetriesEvery5s
