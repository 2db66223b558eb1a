SPECIFICATION AppFairSpec
CONSTANTS
    a1 = a1  a2 = a2  a3 = a3  s1 = s1  s2 = s2
    d1 = d1  d2 = d2  d3 = d3  n1 = n1  n2 = n2
    NoApp = NoApp
    Apps = {a1, a2, a3}
    Names = {n1, n2}
    Services = {s1, s2}
    Rejecting = {s1}
    Deleters = {d1, d2}
INVARIANTS AppTypeOK DeletedIsEmpty
PROPERTIES NoSilentReplacement DeleteSettles
CHECK_DEADLOCK FALSE
