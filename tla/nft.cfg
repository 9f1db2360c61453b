SPECIFICATION Spec
CONSTANTS
    Address = {zero, alice, bob}
    ZeroAddress = zero
    Versions = {1, 2}
    MaxSupply = 3
    MaxPageSize = 2
    CollectionId = {col}
    Uri = {https, script}
    ValidUri = {https}
    MaxGrants = 1
    MaxUpgradeSupply = 1
CONSTRAINT Bounds
VIEW WithoutAuth
SYMMETRY Accounts
INVARIANTS
    TypeOK
    TokenRecords
    OwnershipIndex
    EnumerationComplete
PROPERTIES
    OwnerLosesTokenOnlyWithConsent
    ApprovalIsTheOwners
    AttributionConsented
    ImplementsLedger
    WritesNeedMatchingVersion
