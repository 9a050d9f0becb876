SPECIFICATION FairSpec
CONSTANTS
    Id = {a, b}
    MaxOpen = 2
    MaxInbox = 1
CHECK_DEADLOCK FALSE
INVARIANTS TypeOK StreamsAreHeld ToldIsTrue
PROPERTY NobodyHangs
