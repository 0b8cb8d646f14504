SPECIFICATION FairSpec
CONSTANTS
    r1 = r1
    r2 = r2
    Tasks = {idle, r1, r2}
    Idle = idle
    MaxTimeSlices = 1
    BufLen = 2
    KbdLen = 3
    MaxHeld = 3
    MaxLen = 2
    MaxKeys = 4
INVARIANTS
    QueuesOK
    KeysInOrder
    KeysHaveInterrupts

    
