SPECIFICATION FairSpec
CONSTANTS
    m1 = m1
    m2 = m2
    m3 = m3
    Checked = {m1, m2, m3}
CHECK_DEADLOCK FALSE
INVARIANT AllErrorsReported
PROPERTY Returns
