SPECIFICATION Spec
CONSTANTS
    s1 = s1
    None = None
    OnClose = OnClose
    Nobody = Nobody
    Sockets <- Conns
    Tokens <- Three
    Attach <- Second
    KillAttempts = 2
    DetachAttempts = 1
    MaxFailures = 1
    IdleLimit = FALSE
    Watched <- NoTokens
PROPERTY AttachOnlyDetached
CHECK_DEADLOCK FALSE
