SPECIFICATION Spec
CONSTANTS
    a1 = a1
    a2 = a2
    b1 = b1
    A = A
    B = B
    d = d
    c1 = c1
    Messages = {a1, a2, b1}
    Groups = {A, B}
    DedupIds = {d}
    GroupOf <- MCGroupOf
    DedupOf <- MCDedupOf
    Consumers = {c1}
    Window = 1
    DelaysOf <- MCDelaysOf
    Batches = {2}
    Timeouts = {1}
    Waits = {1}
    Extensions = {0}
    Policies = {1}
    MaxReceives = 2
INVARIANT ExactlyOnePlace
