SPECIFICATION Spec
CONSTANTS
    ann = ann
    bea = bea
    cid = cid
    Users = {ann, bea, cid}
    acme = acme
    Companies = {acme}
    hall = hall
    b1 = b1
    Books = {hall, b1}
    DefaultBook <- OneDefault
    SeatLimit <- TwoSeats
    Nobody = Nobody
    Unmade = Unmade
    MaxTx = 2
    MaxChanges = 8
INVARIANTS
    TypeOK
    SeatsRespected
    NoBookLeftBehind
    OwnersAgree
    
PROPERTIES OrgWideReachesEveryone 
SYMMETRY Alike
CHECK_DEADLOCK FALSE
