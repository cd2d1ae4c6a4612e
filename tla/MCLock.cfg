\* The unit's worker and two that are started by hand.
SPECIFICATION Spec
CONSTANTS
    u = u
    m1 = m1
    m2 = m2
    f1 = f1
    f2 = f2
    f3 = f3
    f4 = f4
    NoFile = none
    Unit = u
    Manual = {m1, m2}
    Files = {f1, f2, f3, f4}
SYMMETRY Interchangeable
INVARIANT TypeOK
INVARIANT OneLoop
