SPECIFICATION DictSpec
CONSTANTS
    a1 = a1
    a2 = a2
    b = b
    Threads = {t1, t2}
    Surfaces = {a1, a2, b}
    norm <- MCNorm
    Listed = {a2, b}
    MaxChanges = 4
    None = None
INVARIANTS DictionaryIsCurrent
SYMMETRY ThreadSymmetry
CHECK_DEADLOCK FALSE
