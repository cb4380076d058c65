SPECIFICATION FairSpec
CONSTANTS
    buyer = buyer
    friend = friend
    month = month
    Users = {buyer, friend}
    Handlers = {h1, h2}
    Charges = {c1, c2}
    Plans = {month}
    Tokens = {}
    NoUser = NoUser
    TrialPlan = trial_7d
    BetaPlan = beta
    NoPlan = NoPlan
    ChatPlan = month
    Price <- OnePrice
    Length <- OneLength
    TrialLength = 1
    BetaLength = 1
    Referrer <- NobodyInvited
    InitialCredits <- MCInitialCredits
    Reward = 1
    DiscountPercent = 25
    SharePercent = 50
    Window = 1
    Customers = {buyer}
    MaxTime = 0
    MaxInvoices = 1
    MaxDeliveries = 2
    MaxCrashes = 0
PROPERTY
    EveryPaymentAnswered
CHECK_DEADLOCK FALSE
