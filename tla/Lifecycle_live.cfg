SPECIFICATION LiveSpec
CONSTANTS
    c1 = c1
    c2 = c2
    States <- MCStates
    Initial = "QUEUED"
    To <- MCTo
    Slow = {"QUEUED", "RUNNING", "DELETING"}
    Forcible = {"QUEUED", "DELETING"}
    Callers = {c1, c2}
    MaxForces = 3
INVARIANTS TypeOK TimerFitsState NoInstantRest
PROPERTY TransientStatesEnd
