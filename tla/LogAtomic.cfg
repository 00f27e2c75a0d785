CONSTANTS
    Blocks = {a, b}
    Data = {0, 1}
    Blank = 0
    LOGSIZE = 4
    NBUF = 4
    Proc = {p1, p2}
    Writers = {p1}
    Readers = {p2}
    Syncers = {p1}
    Booter = p1
    MaxHeld = 2
SPECIFICATION Spec
INVARIANTS NoPanic DirtyIsLogged CacheIsCoherent 
PROPERTIES StoreIsAtomic SyncIsDurable
SYMMETRY BlockSymmetry
