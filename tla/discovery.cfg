\* Two projects and accounts, two calls of each kind under way, a URL that only
\* @firebase/database accepts.
CONSTANTS
    None = None
    Projects = {p1, p2}
    Caching = {"auth", "messaging"}
    Calls = {k1, k2}
    Tokens = {t1, t2}
    Accounts = {a1, a2}
    Urls = {u1, u2}
    OpaqueUrls = {u2}
    MaxDatabases = 3
    MaxChanges = 1
SPECIFICATION Spec
SYMMETRY CallSymmetry
INVARIANTS ProjectsAgree SignedByIssuer
PROPERTIES DatabasesClosed
CHECK_DEADLOCK FALSE
