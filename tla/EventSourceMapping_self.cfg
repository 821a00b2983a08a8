SPECIFICATION FairSpec
CONSTANTS
    work = work
    dead = dead
    p1 = p1
    p2 = p2
    Messages = {m1}
    Queues = {work, dead}
    Mappings = {p1, p2}
    Policy <- MCSelfPolicy
    MaxReceiveCount = 1
    BatchSize = 2
    Sources <- MCSources
    MaxCalls = 4
    NoQueue = NoQueue
    Nobody = Nobody
PROPERTY MutexesAreReleased
CHECK_DEADLOCK FALSE
