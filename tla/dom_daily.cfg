SPECIFICATION FairSpec
CONSTANTS
    acme = acme
    globex = globex
    Orgs = {acme}
    ann = ann
    bea = bea
    People = {ann, bea}
    Nobody = Nobody
    SeatLimit <- OneSeat
    TokenDays = 1
    GraceDays = 1
    FreshDays = 2
    MaxRequests = 1
    MaxErrors = 1
PROPERTIES
    NobodyWaitsForever
    FailingEnds
