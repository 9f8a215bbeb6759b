CONSTANTS
    None = None
    r1 = r1
    r2 = r2
    r3 = r3
    r4 = r4
    a = a
    b = b
    Request = {r2, r3, r4}
    Item = {a}
    ItemsOf <- MCItemsOf
    KeyOf <- MCKeyOf
    BadRequest = {r3}
    WithParams = {}
    Caching = {a}
    UnknownDb = {}
    InvalidOutput = {}
    MaxVersion = 1
    MaxStops = 0
SPECIFICATION FairSpec
INVARIANTS SameRequestsApart StaleEntriesSpanReload
PROPERTIES RequestsEnd
\* All requests are served.
CHECK_DEADLOCK FALSE
