SPECIFICATION Spec
CONSTANTS
    ann = ann
    bea = bea
    cid = cid
    Users = {ann, bea, cid}
    Dormant = {}
    Departing = {ann, bea}
    Company = Company
    b1 = b1
    Books = {b1}
    t1 = t1
    Recipes = {t1}
    Nobody = Nobody
    NoBook = NoBook
    Unmade = Unmade
    VerifyListed = FALSE
    MaxRequests = 2
INVARIANTS
    TypeOK
    GoneLeavesNothing
PROPERTIES
    LastOwnerLeavesNobody
    
    SharedBooksSurvive
SYMMETRY Alike
CHECK_DEADLOCK FALSE
