\* Three vBuckets, one of them outside the visitor's filter; two creations
\* or deletions; one pause per walk; random values that start the scan at
\* every vBucket.
CONSTANTS
    NumVB = 3
    Filter = {0, 2}
    RandomValues = {0, 1, 2, 5}
    MaxPauses = 1
    MaxChanges = 2
SPECIFICATION Spec
INVARIANTS
    TypeOK
    RandomKeyFromFirstActive
    AdaptorVisitsListedOnce
    NoVBucketSkipped
PROPERTIES
    AdaptorCompletes
