SPECIFICATION Spec
CONSTANTS
    acme = acme
    globex = globex
    Orgs = {acme, globex}
    ann = ann
    bea = bea
    People = {ann}
    Nobody = Nobody
    SeatLimit <- OneSeat
    TokenDays = 1
    GraceDays = 1
    FreshDays = 2
    MaxRequests = 1
    MaxErrors = 0
INVARIANTS
    TypeOK
    VerifiedByItsRecord
PROPERTY JoinsAreAuthorised
SYMMETRY Rivals
