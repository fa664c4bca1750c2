SPECIFICATION Spec
CONSTANTS
    Main = Main
    Registry = Registry
    a = a
    b = b
    c = c
    d = d
    e = e
    u1 = u1
    n1 = n1
    Obj = {Main, Registry, a, b, c, d, e}
    UpVal = {u1}
    Name = {n1}
    Nil = Nil
    Num = Num
    Dead = Dead
    Void = Void
    GCSWEEPMAX = 2
    CloseAt = {"pause", "swpfinobj"}
    MaxOps = 2
    Heaps <- MCHeaps
CHECK_DEADLOCK FALSE
INVARIANTS
    HeapSound
    FullCycleCollectsAll
PROPERTIES
    FinalizesGarbage
