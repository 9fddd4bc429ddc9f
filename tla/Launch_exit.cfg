SPECIFICATION Spec
INVARIANT ExitCodeReflectsFailure
CHECK_DEADLOCK FALSE
