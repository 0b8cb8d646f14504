SPECIFICATION FairSpec
CONSTANTS
    u1 = u1
    u2 = u2
    u3 = u3
    u4 = u4
    Tasks = {idle, init, u1, u2}
    Idle = idle
    InitTask = init
    MaxTimeSlices = 1
    MaxTasks = 4
    NULL = NULL
PROPERTY
    InitReapsAll
