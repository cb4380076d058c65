SPECIFICATION Spec
CONSTANTS
    a1 = a1
    a2 = a2
    a3 = a3
    h1 = h1
    h2 = h2
    Accounts = {a1, a2, a3}
    Handlers = {h1, h2}
    Invites = {i1}
    Nobody = Nobody
    MaxFaults = 1
SYMMETRY Symmetry
INVARIANTS
    TypeOK
    FirstTouch
    ReferralKept
    InviteGrantedOnce
