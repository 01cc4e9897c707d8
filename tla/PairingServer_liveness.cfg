\* Two connections and two controllers under weak fairness of the goroutines.
SPECIFICATION Spec
CONSTANTS
    Addr = {a1, a2}
    Controller = {c1, c2}
    MaxFaults = 0
PROPERTIES
    RemovedControllerDisconnected
    ClosedConnectionForgotten
