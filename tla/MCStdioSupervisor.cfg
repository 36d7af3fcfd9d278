SPECIFICATION Spec
CONSTANTS
    Scripts <- MCScripts
    Settings <- MCSettings
    MaxExpiries = 1
INVARIANTS
    TypeOK
    StderrLinesStayWhole
    NoLineLost
    OnlySplitSecretsExposed
    BlockedRunFails
    ReportIsFaithful
CHECK_DEADLOCK FALSE
