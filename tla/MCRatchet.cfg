SPECIFICATION Spec
CONSTANTS
    Keep = 1
    OneTime = TRUE
    MaxSend = 5
CHECK_DEADLOCK FALSE
INVARIANTS TypeOK KeysAreOneTime NoReplay LatestChainOpens
