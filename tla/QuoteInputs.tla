----------------------------- MODULE QuoteInputs -----------------------------
(***************************************************************************)
(* The inputs of build_purchase_quote as a state machine, to check and to  *)
(* prove the arithmetic of Pricing.  A state is one input; a step gives    *)
(* the buyer one more Credit.  The two percentages start as raw settings,  *)
(* out of range and zero included.                                         *)
(***************************************************************************)
EXTENDS Pricing

CONSTANTS
    Prices,           \* catalogue prices, in Stars
    RawPercents,      \* values of referral_discount_percent
    RawShares,        \* values of credits_max_share_percent
    MaxAvailable      \* bound: the largest Credits balance tried

ASSUME InputsAssumption ==
    /\ Prices \subseteq Nat \ {0}
    /\ RawPercents \subseteq Int
    /\ RawShares \subseteq Int
    /\ MaxAvailable \in Nat

VARIABLES base, referral, percent, share, available

vars == <<base, referral, percent, share, available>>

TypeOK ==
    /\ base \in Nat \ {0}
    /\ referral \in BOOLEAN
    /\ percent \in 0..100
    /\ share \in 1..50
    /\ available \in Nat

Init ==
    /\ base \in Prices
    /\ referral \in BOOLEAN
    /\ percent \in {DiscountPercentConfig(raw) : raw \in RawPercents}
    /\ share \in {CreditsMaxSharePercent(raw) : raw \in RawShares}
    /\ available = 0

EarnCredit ==
    /\ available < MaxAvailable
    /\ available' = available + 1
    /\ UNCHANGED <<base, referral, percent, share>>

Next == EarnCredit

Spec == Init /\ [][Next]_vars

Quote == BuildPurchaseQuote(base, referral, percent, share, available)

\* build_purchase_quote always charges at least one Star; Stars and Credits
\* together are the price after the discount, which is at most the catalogue's.
QuoteAddsUp ==
    /\ Quote.starsToPay >= 1
    /\ Quote.starsToPay + Quote.creditsToUse = Quote.finalPrice
    /\ Quote.finalPrice <= base

\* credits_max_share_percent's cap: Credits pay at most half of the price,
\* whatever the settings say, and never more than the buyer has.
CreditsPayAtMostHalf ==
    /\ 2 * Quote.creditsToUse <= Quote.finalPrice
    /\ Quote.creditsToUse <= available

\* apply_percent_discount rounds in the project's favour: the price never
\* falls below the exact percentage of the catalogue price.
RoundingFavoursProject ==
    100 * Quote.finalPrice >= base * (100 - percent)

\* An invoice that POST /invoice builds from a quote passes pre_checkout as long
\* as the quote has not changed.
FreshInvoiceIsAccepted ==
    CheckoutAccepts(Quote, Quote.starsToPay, Quote.creditsToUse)
=============================================================================
