SPECIFICATION Spec
CONSTANTS
    Byte = {2, 3}
    HeaderLen = 2
    MaxBlock = 3
    MaxBytes = 5
INVARIANTS
    TotalExact
PROPERTIES
    ImplementsByteQueue
