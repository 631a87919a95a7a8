SPECIFICATION FairSpec
CONSTANTS
    s1 = s1
    None = None
    OnClose = OnClose
    Nobody = Nobody
    Sockets <- Conns
    Tokens <- Three
    Attach <- First
    KillAttempts = 2
    DetachAttempts = 1
    MaxFailures = 1
    IdleLimit = TRUE
    Watched <- Second
INVARIANTS TypeOK StaysControlled NoPtyLeftBehind ReportIsTrue
PROPERTY UnwantedPtyEnds
CHECK_DEADLOCK FALSE
