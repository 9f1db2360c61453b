SPECIFICATION Spec
CONSTANTS
    Address = {zero, alice, bob}
    ZeroAddress = zero
    Versions = {1, 2}
    Nft = {t1, t2}
    MaxNftsPerCollection = 3
    MaxPageSize = 1
    MaxCollections = 2
    Uri = {https, ipfs, script}
    ValidUri = {https, ipfs}
CONSTRAINT Bounds
VIEW WithoutAuth
SYMMETRY Symmetric
INVARIANT
    TokenInAtMostOneCollection
