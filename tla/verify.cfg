SPECIFICATION Spec
CONSTANTS
    c1 = c1  c2 = c2  r1 = r1  
    NoToken = NoToken
    Calls = {c1, c2}
    Revokers = {r1}
    Tokens <- MCTokens
    MaxAges <- MCMaxAges
    LongestAge = 2
    MaxLatency = 1
    Second = 2
    Emulator = TRUE
    MaxVersion = 2
    MaxTime = 4
SYMMETRY Symmetry
CHECK_DEADLOCK FALSE
INVARIANT TypeOK
PROPERTIES WithdrawnKeysRefused RevokedRefused
