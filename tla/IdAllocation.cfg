SPECIFICATION FairSpec
CONSTANTS
    p1 = p1  p2 = p2  p3 = p3  cs = cs  math = math
    Papers = {p1, p2, p3}
    Counters = {cs, math}
    CounterOf <- Categories
    Workers = {w1, w2, w3}
    Nobody = Nobody
INVARIANTS
    TypeOK
    IdsUnique
PROPERTIES
    ImplementsRegistry
    CallsEnd
