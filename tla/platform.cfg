SPECIFICATION Spec
CONSTANTS
    User = {alice, bob}
    Factory = factory
    Address = {alice, bob, factory, zero}
    ZeroAddress = zero
    Versions = {1, 2}
    MaxSupply = 2
    MaxNftsPerCollection = 2
    MaxPageSize = 2
    MaxBasisPoints = 10000
    TotalShare = 100
    MaxRecipients = 1
    MaxBatchMint = 2
    MaxCollections = 2
    MaxDeviations = 1
    Uri = {https, script}
    ValidUri = {https}
    Rate = {500, 10001}
CONSTRAINT Bounds
VIEW WithoutAuth
SYMMETRY Accounts
PROPERTIES
    CallsAreAtomic
    ConsentedByAll
    RoyaltyRoleIsGiven
