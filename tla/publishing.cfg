\* Two clients; three templates over two contents; two rulesets; requests that are
\* sent twice.
CONSTANTS
    Clients = {c1, c2}
    Thorough = {c1}
    None = None
    Contents = {x, y}
    Sources = {src}
    FineTimes = {3}
    MaxVersions = 3
    MaxRulesets = 2
    MaxCalls = 2
    OthersCalls = 1
    MaxAttempts = 2
SPECIFICATION Spec
SYMMETRY ContentSymmetry
INVARIANTS PublishTypeOK NoUnseenOverwrite ResultsHeld RefusalsHold
CHECK_DEADLOCK FALSE
