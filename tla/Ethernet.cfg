SPECIFICATION EthSpec
CONSTANTS
    MAX_SOCK_NUM = 2
    Clients = {c1}
    Host = h
    Resets = TRUE
    HostCloses = FALSE
    HoldsOn = FALSE
    BadAddress = FALSE
INVARIANT NoCrossTalk
PROPERTIES NothingUnread ClientsAnswered EthCallsReturn
