\* Arguments of depth 2 through toHash, the echo server and fromHash.
CONSTANTS
    Atoms <- MCAtoms
    Registry <- MCRegistry
    Fields <- MCFields
    MaxDepth = 2
    MaxLen = 1
SPECIFICATION Spec
INVARIANT TypeOK
INVARIANT WireSafe
INVARIANT RoundTrip
