CONSTANTS
    Kinds <- MCHeaderKinds
    Uints <- MCUints
    Payloads <- MCPayloads
    Hashes <- MCHashes
    MaxNodes = 1
    TamperAt <- MCTamperAt
    Tampers <- MCNoTampers

SPECIFICATION Spec

INVARIANT EncodeExact
