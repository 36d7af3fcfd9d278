SPECIFICATION Spec
CONSTANTS
    Scripts <- MCScripts
    Settings <- MCSettings
    MaxExpiries = 1
INVARIANTS
    StderrDrained
CHECK_DEADLOCK FALSE
