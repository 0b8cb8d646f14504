SPECIFICATION Spec
CONSTANTS
    u1 = u1
    u2 = u2
    u3 = u3
    u4 = u4
    Tasks = {idle, init, u1, u2, u3, u4}
    Idle = idle
    InitTask = init
    MaxTimeSlices = 1
    MaxTasks = 6
    NULL = NULL
PROPERTY
    WaitpidFindsChild
