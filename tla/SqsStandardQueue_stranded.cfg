SPECIFICATION Spec
CONSTANTS
    m1 = m1
    m2 = m2
    c1 = c1
    c2 = c2
    Messages = {m1, m2}
    Consumers = {c1, c2}
    Delays = {0, 1}
    Batches = {1}
    Timeouts = {1}
    Waits = {2}
    Extensions = {0}
    Policies = {1}
    MaxReceives = 2
INVARIANT NoStrandedPoll
