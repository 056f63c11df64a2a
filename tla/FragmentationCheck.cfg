\* Every signature length up to 8 units and every requested size 0..5 against
\* a 4-unit fragment: sizes 1..4 as asked, 0 and 5 clamped to 4.
CONSTANTS
    MaxFragment = 4
    MaxTotal = 8

SPECIFICATION Spec
INVARIANT FragmentsPartitionSignature
INVARIANT ReassemblyExact
\* Once every copy is delivered nothing is left to do.
CHECK_DEADLOCK FALSE
