\* Is every request parked on a pending vBucket eventually resumed?
\* The engine may sit idle once all requests are sent.
CONSTANTS
    c1 = c1
    c2 = c2
    vb0 = vb0
    VB <- MC_VB
    Cookies <- MC_Cookies
    MaxInc = 2
    MaxAdmin = 5
    MaxOps = 1
SPECIFICATION Spec
PROPERTY
    ParkedRequestsResumed
CHECK_DEADLOCK FALSE
