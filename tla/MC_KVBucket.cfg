\* Safety of the vBucket state machine, admission and the
\* pending-ops queue.  The engine may sit idle once clients and the
\* cluster manager have sent all they may, so deadlock is not an error.
CONSTANTS
    c1 = c1
    c2 = c2
    vb0 = vb0
    VB <- MC_VB
    Cookies <- MC_Cookies
    MaxInc = 2
    MaxAdmin = 5
    MaxOps = 1
SPECIFICATION Spec
INVARIANTS
    LockedWritesInPermittedState
    OneOutstandingBlock
CHECK_DEADLOCK FALSE
