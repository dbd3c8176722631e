SPECIFICATION Spec
CONSTANTS
    g1 = g1
    g2 = g2
    q1 = q1
    q2 = q2
    r1 = r1
    r2 = r2
    c1 = c1
    b1 = b1
    b2 = b2
    b3 = b3
    Google = {g1, g2}
    Authoritative = {g1}
    Requests = {q1, q2}
    Rows = {r1, r2}
    Consents = {c1}
    Bundles = {b1, b2, b3}
    Password = Password
    Nothing = Nothing
    Skew = 1
    Margin = 2
    MaxTime = 1
    MaxCuts = 2
    MaxBegun = 1
INVARIANTS
    TypeOK
    
    EachUsedOnce
SYMMETRY Alike
CHECK_DEADLOCK FALSE
