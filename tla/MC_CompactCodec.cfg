CONSTANTS
    Kinds <- MCWireKinds
    Uints <- MCUints
    Payloads <- MCPayloads
    Hashes <- MCHashes
    MaxNodes = 1
    TamperAt <- MCTamperAt
    Tampers <- MCTampers

SPECIFICATION Spec

INVARIANT TypeOK
INVARIANT EncodeExact
INVARIANT RoundTrip
