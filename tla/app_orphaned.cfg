SPECIFICATION AppSpec
CONSTANTS
    a1 = a1  a2 = a2  a3 = a3  s1 = s1  s2 = s2
    d1 = d1  d2 = d2  d3 = d3  n1 = n1  n2 = n2
    NoApp = NoApp
    Apps = {a1, a2}
    Names = {n1}
    Services = {}
    Rejecting = {}
    Deleters = {d1, d2}
INVARIANT AppsAreTheNonDeleted
CHECK_DEADLOCK FALSE
