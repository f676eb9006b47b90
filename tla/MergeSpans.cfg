SPECIFICATION MergeSpec
CONSTANTS
    Positions = {0, 1, 2, 3, 4}
    Scores = {1, 2}
    Ranks = {1, 3}
    MaxSpans = 3
INVARIANTS CleanList LocalBestKept DropsHaveReason
CHECK_DEADLOCK FALSE
