SPECIFICATION Spec
CONSTANTS
    MaxSent = 3
    MaxLen = 5
    AddressOf <- Addresses
    TextOf <- Canonical
INVARIANT OneAsset
INVARIANT OnlySpellingIsLost
