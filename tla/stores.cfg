SPECIFICATION StoresSpec
CONSTANTS
    alice = alice
    bob = bob
    cert1 = cert1
    cert2 = cert2
    NoUse = NoUse
    NoInfo = NoInfo
    IdTag <- MCTags
    IdTagInfo <- MCInfos
    Certificate <- MCCertificates
    MaxVersion = 2
INVARIANTS
    VersionNamesContent
    ListingMatchesAccounts
