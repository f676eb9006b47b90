SPECIFICATION Spec
CONSTANTS
    ivan = ivan
    ivana = ivana
    petrenko = petrenko
    olena = olena
    Threads = {t1, t2}
    Surfaces = {ivan, ivana, petrenko, olena}
    norm <- MCNorm
    meta <- MCMeta
    score <- MCScore
    Texts <- MCTexts
    Events = {"delete", "torn_delete", "exclude", "restart"}
    MaxDocs = 2
    MaxBirths = 3
    MaxChanges = 1
    None = None
INVARIANTS SameValueSameLabel RestartKeepsLabels ExactWhenUnique
SYMMETRY ThreadSymmetry
CHECK_DEADLOCK FALSE
