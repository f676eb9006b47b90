SPECIFICATION Spec
CONSTANTS
    Threads = {t1, t2}
    Passwords = {p1, p2}
    None = None
    MaxDraws = 3
INVARIANTS NothingUnderBlankKey
CHECK_DEADLOCK FALSE
