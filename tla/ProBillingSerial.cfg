SPECIFICATION Spec
CONSTANTS
    buyer = buyer
    friend = friend
    month = month
    Users = {buyer, friend}
    Handlers = {h1}
    Charges = {c1, c2}
    Plans = {month}
    Tokens = {t1}
    NoUser = NoUser
    TrialPlan = trial_7d
    BetaPlan = beta
    NoPlan = NoPlan
    ChatPlan = month
    Price <- OnePrice
    Length <- OneLength
    TrialLength = 1
    BetaLength = 1
    Referrer <- MCReferrer
    InitialCredits <- MCInitialCredits
    Reward = 1
    DiscountPercent = 25
    SharePercent = 50
    Window = 1
    Customers = {buyer}
    MaxTime = 3
    MaxInvoices = 1
    MaxDeliveries = 2
    MaxCrashes = 1
INVARIANTS
    PaidTimeDelivered
PROPERTIES
    PaymentExtends
    ProNotLost
    TrialOnce
CHECK_DEADLOCK FALSE
