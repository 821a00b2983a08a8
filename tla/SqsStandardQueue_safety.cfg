SPECIFICATION Spec
CONSTANTS
    m1 = m1
    m2 = m2
    c1 = c1
    c2 = c2
    Messages = {m1, m2}
    Consumers = {c1}
    Delays = {0, 1}
    Batches = {1, 2}
    Timeouts = {0, 1}
    Waits = {0, 1}
    Extensions = {0, 2}
    Policies = {1, 2}
    MaxReceives = 2
SYMMETRY MessageSymmetry
INVARIANTS TypeOK ExactlyOnePlace InflightHasDeadline TimersArmed
PROPERTIES RedriveAtLimit ImplementsLifecycle
