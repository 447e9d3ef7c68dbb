SPECIFICATION Spec
CONSTANTS
    Keys = {1, 2, 3, 4, 5, 6}
    NoKey = 0
    Sizes <- MCSizes
    HashBits = 7
    Hashes <- MCHashes
    MinLookups = 4
INVARIANTS IInv FindExact CountExact
PROPERTIES Implements CallEnds
