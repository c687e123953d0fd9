\* deleteItem checks the vBucket state without the state lock: can a
\* client delete reach a VBucket that is no longer active?
CONSTANTS
    c1 = c1
    c2 = c2
    vb0 = vb0
    VB <- MC_VB
    Cookies <- MC_Cookies
    MaxInc = 2
    MaxAdmin = 5
    MaxOps = 1
SPECIFICATION Spec
INVARIANT
    UnlockedWritesOnlyOnActive
CHECK_DEADLOCK FALSE
