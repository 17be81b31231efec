SPECIFICATION ConfigureSpec
CONSTANTS
    doh = doh
    local = local
    typo = typo
    Resolver = {doh, local, typo}
    Malformed = {typo}
    Refused = {local}
    Loadable <- Lists
    OtherList <- OnlyDoh
    Limit = 3
    Longest = 4
    NoResolver = NoResolver
    NoResult = NoResult
    NoList = NoList
    Torn = Torn
    MaxTests = 3
CHECK_DEADLOCK FALSE
INVARIANTS
    TypeOK
    TestingHasTests
    FileIsVetted
    NoTempLeft
    SavedIsServed
