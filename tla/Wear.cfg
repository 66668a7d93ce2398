SPECIFICATION Spec
CONSTANTS
    Logical = 4
    Slots = 4
    Earlier = 0
    ByteAddresses = 1
    Value = {0, 1}
    Lengths = {1, 2}
    Faults = {"unlock", "lock", "erase", "write"}
    Beyond <- MCBeyond
    None = None
CONSTRAINT NoneFailed
INVARIANTS
    TypeOK
    KeptUnlessReported
    NothingStale
