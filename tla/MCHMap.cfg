CONSTANTS
    a = a
    a2 = a2
    b = b
    c = c
    d = d
    e = e
    Nodes <- MCNodes
    KeyOf <- MCKeyOf
    HashOf <- MCHashOf
    InitSlots = 2
    K_MAX_LOAD_FACTOR = 1
    K_REHASHING_WORK = 1
    NULL = NULL
SPECIFICATION Spec
INVARIANTS TypeOK NodesInPlace MigratedEmpty LoadBounded
PROPERTIES ImplementsNodeSet
