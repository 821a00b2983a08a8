SPECIFICATION Spec
CONSTANTS
    work = work
    dead = dead
    p1 = p1
    p2 = p2
    Messages = {m1, m2}
    Queues = {work, dead}
    Mappings = {p1, p2}
    Policy <- MCPolicy
    MaxReceiveCount = 1
    BatchSize = 2
    Sources <- MCSources
    MaxCalls = 5
    NoQueue = NoQueue
    Nobody = Nobody
INVARIANTS TypeOK AtMostOnePlace ExclusiveWork
PROPERTIES ImplementsDelivery RedriveAfterAttempts
SYMMETRY MCSymmetry
CHECK_DEADLOCK FALSE
