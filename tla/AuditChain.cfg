SPECIFICATION FairSpec
CONSTANTS
    t1 = t1
    t2 = t2
    k1 = k1
    k2 = k2
    Writers = {w1, w2}
    Teams = {t1, t2}
    Bodies = {b1, b2}
    LockKeys = {k1, k2}
    hashtext <- OwnKeys
    NoWriter = NoWriter
    MaxId = 3
INVARIANTS TypeOK ChainVerifies TamperEvident
PROPERTIES ImplementsAuditLog EveryTransactionEnds
