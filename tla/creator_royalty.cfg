SPECIFICATION EitherSpec
CONSTANTS
    zero = zero
    alice = alice
    bob = bob
    Address = {zero, alice, bob}
    ZeroAddress = zero
    Versions = {1, 2}
    Details = {name1, name2, empty}
    ValidDetails = {name1, name2}
    Links = {none, links1, unlisted}
    ValidLinks = {none, links1}
    NoLinks = none
    Target = {1}
    Rate = {0, 500, 10000, 10001}
    Splits <- MCSplits
    KeyRank <- MCKeyRank
    MaxBasisPoints = 10000
    TotalShare = 100
    MaxRecipients = 2
    MaxInt = 2000000
    Asset = {xlm, zero}
    Price = {0, 1, 3, 19, 60, 199, 201}
    InitialBalance = 2
CONSTRAINT Bounds
VIEW WithoutAuth
INVARIANT
    QuoteExact
PROPERTIES
    FrozenIsFinal
    TermsNeedConsent
    SettlementConserves
    VerificationIsTheAdmins
