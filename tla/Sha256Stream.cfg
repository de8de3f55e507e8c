SPECIFICATION Spec
CONSTANTS
    BLOCK = 12
    WORD = 512
    MaxUpdate = 27
    MaxTotal = 40
INVARIANTS
    TypeOK
    NothingLost
    HashOfPadded
CHECK_DEADLOCK FALSE
