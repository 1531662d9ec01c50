CONSTANTS
    s1 = s1
    s2 = s2
    k1 = k1
    k2 = k2
    t1 = t1
    t2 = t2
    Stations = {s1, s2}
    PairwiseKeys = {k1, k2}
    GroupKeys = {g}
    KeyIdx = {1}
    Tids = {t1, t2}
SYMMETRY Symmetric
SPECIFICATION Spec
INVARIANT GroupKeyKept
