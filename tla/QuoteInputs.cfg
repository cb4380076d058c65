SPECIFICATION Spec
CONSTANTS
    Prices = {1, 2, 3, 7, 100, 250}
    RawPercents <- MCRawPercents
    RawShares <- MCRawShares
    MaxAvailable = 130
INVARIANTS
    QuoteAddsUp
    CreditsPayAtMostHalf
    FreshInvoiceIsAccepted
CHECK_DEADLOCK FALSE
