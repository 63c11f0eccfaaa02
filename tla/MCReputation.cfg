CONSTANTS
    Names = {n1, n2}
    Clients = {c1, c2}
    Threads = {t1, t2}
    KnownMax = 1
    ClientMax = 1
    QueueMax = 1
    Inventories = {{c1}, {}}
    None = None
SPECIFICATION Spec
INVARIANTS LanesBalance 
PROPERTY KnownServed
