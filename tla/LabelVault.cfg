SPECIFICATION Spec
CONSTANTS
    Threads = {t1, t2}
    Passwords = {p1, p2}
    None = None
    MaxDraws = 6
INVARIANTS KeyMatchesFlag PasswordOpens RowsReadable
CHECK_DEADLOCK FALSE
