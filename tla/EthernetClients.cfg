SPECIFICATION EthSpec
CONSTANTS
    MAX_SOCK_NUM = 2
    Clients = {c1, c2}
    Host = h
    Resets = TRUE
    HostCloses = TRUE
    HoldsOn = FALSE
    BadAddress = TRUE
INVARIANT NoCrossTalk
PROPERTY NothingUnread
