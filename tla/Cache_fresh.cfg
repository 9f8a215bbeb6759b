CONSTANTS
    None = None
    r1 = r1
    r2 = r2
    r3 = r3
    k1 = k1
    k2 = k2
    j1 = j1
    Request = {r1, r2, r3}
    Key = {k1, k2}
    Job = {j1}
    KeyOf <- MCKeyOf
    MaxLockTime = 3
    RequestTimeout = 2
    QueryTimeout = 3
    CachingTime = 2
    MaxTime = 6
SPECIFICATION CacheSpec
INVARIANTS OneHolder TableMatchesRequests
PROPERTIES CachedAnswersAreFresh OneOriginGoesForward
