SPECIFICATION Spec
CONSTANTS
    m1 = m1
    m2 = m2
    c1 = c1
    c2 = c2
    Messages = {m1}
    Consumers = {c1}
    Delays = {0}
    Batches = {1}
    Timeouts = {1}
    Waits = {0}
    Extensions = {2}
    Policies = {1}
    MaxReceives = 3
PROPERTY NoEarlyReclaim
