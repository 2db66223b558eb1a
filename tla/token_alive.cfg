SPECIFICATION Spec
CONSTANTS
    c1 = c1  c2 = c2  k1 = k1  k2 = k2  l1 = l1  t1 = t1  t2 = t2
    NoToken = NoToken  NoChain = NoChain  NotListening = NotListening
    Minute = 2
    TimeoutMax = 100
    Callers = {c1}
    Listeners = {}
    Chains = {k1}
    AccessTokens = {t1}
    Lifetimes = {0, 1, 2, 3, 4, 5, 7, 8, 9, 10, 11, 12}
    ForceRefresh = {FALSE}
    MayThrow = FALSE
INVARIANT RefreshAlive
