CONSTANTS
    None = None
    r1 = r1
    r2 = r2
    r3 = r3
    r4 = r4
    a = a
    b = b
    Request = {r1, r2}
    Item = {a, b}
    ItemsOf <- MCItemsOf
    KeyOf <- MCKeyOf
    BadRequest = {}
    WithParams = {}
    Caching = {a}
    UnknownDb = {}
    InvalidOutput = {b}
    MaxVersion = 0
    MaxStops = 1
SPECIFICATION Spec
INVARIANTS EachItemOnce ResponseIsComplete OutputHasRoom
PROPERTIES UsesService
\* All requests are served.
CHECK_DEADLOCK FALSE
