SPECIFICATION FairSpec
CONSTANTS
    MaxReconnects = 3
    MaxMisses = 2
    MaxTokens = 2
    MaxStarts = 1
INVARIANTS TypeOK ReconnectOnlyWhenClosed StrandedForAReason
PROPERTIES LateAtFirstReconnectOnly RejectedStaysOut StartEnds
CHECK_DEADLOCK FALSE
