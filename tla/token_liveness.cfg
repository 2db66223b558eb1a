SPECIFICATION FairSpec
CONSTANTS
    c1 = c1  c2 = c2  k1 = k1  k2 = k2  l1 = l1  t1 = t1  t2 = t2
    NoToken = NoToken  NoChain = NoChain  NotListening = NotListening
    Minute = 2
    TimeoutMax = 100
    Callers = {c1}
    Listeners = {}
    Chains = {k1, k2}
    AccessTokens = {t1}
    Lifetimes = {1, 11}
    ForceRefresh = {TRUE, FALSE}
    MayThrow = FALSE
PROPERTIES DeleteQuiesces EveryCallAnswered
