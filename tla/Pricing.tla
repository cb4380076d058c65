------------------------------- MODULE Pricing -------------------------------
(***************************************************************************)
(* The Stars price of a Ghosteek Pro plan: the invitee's percentage        *)
(* discount, the share of the price Credits may cover, the quote that      *)
(* combines them, and the test the pre-checkout handler puts an invoice    *)
(* to.  Sources: bot/services/pro/pricing.py, bot/handlers/subscription.py.*)
(* Python's // is \div, as no operand is negative.                         *)
(***************************************************************************)
EXTENDS Integers

AtMost(a, b) == IF a <= b THEN a ELSE b
Clamp(lo, hi, x) == IF x < lo THEN lo ELSE AtMost(x, hi)

\* "settings.x or default": a setting of 0 also selects the default.
OrDefault(raw, default) == IF raw = 0 THEN default ELSE raw

DiscountPercentConfig(raw) == Clamp(0, 100, OrDefault(raw, 15))

\* Mutant: the share of the settings without the cap of 50 %.
UncappedShare(raw) == Clamp(1, 100, OrDefault(raw, 50))
CreditsMaxSharePercent(raw) == Clamp(1, 50, OrDefault(raw, 50))

CutOf(base, percent) == (base * percent) \div 100

\* Mutant: a discount of 100 % makes the plan free.
DiscountToZero(base, percent) == base - CutOf(base, percent)

\* apply_percent_discount: the price left, never zero by the discount alone.
PriceAfterDiscount(base, percent) ==
    IF base > 0 /\ base - CutOf(base, percent) <= 0
      THEN 1
      ELSE base - CutOf(base, percent)

MaxCreditsForPrice(final, share) ==
    IF final = 0 THEN 0 ELSE AtMost((final * share) \div 100, final - 1)

\* Mutant: the Credits are taken off the price twice.
CreditsOffTwice(base, referralDiscount, percent, share, available) ==
    LET final == IF referralDiscount
                   THEN PriceAfterDiscount(base, percent) ELSE base
        most  == MaxCreditsForPrice(final, share)
        use   == AtMost(available, most)
    IN  [ basePrice |-> base, finalPrice |-> final, maxCredits |-> most,
          available |-> available, creditsToUse |-> use,
          starsToPay |-> final - use - use ]

\* build_purchase_quote.  Its last two corrections (stars < 1, stars < 0) are
\* left out: with max_credits_for_price <= final - 1 they never apply.
BuildPurchaseQuote(base, referralDiscount, percent, share, available) ==
    LET final == IF referralDiscount
                   THEN PriceAfterDiscount(base, percent) ELSE base
        most  == MaxCreditsForPrice(final, share)
        use   == AtMost(available, most)
    IN  [ basePrice |-> base, finalPrice |-> final, maxCredits |-> most,
          available |-> available, creditsToUse |-> use,
          starsToPay |-> final - use ]

\* Mutant: the Stars asked must be the price before Credits.
AcceptsPriceBeforeCredits(q, stars, claimed) ==
    claimed <= q.maxCredits /\ stars \in {q.basePrice, q.finalPrice}

\* pre_checkout: may an invoice over "stars" that claims "claimed" Credits be
\* paid, given the quote q of this moment?
CheckoutAccepts(q, stars, claimed) ==
    /\ claimed <= q.maxCredits
    /\ claimed <= q.available
    /\ q.finalPrice - claimed >= 1
    /\ stars \in {q.finalPrice - claimed, q.starsToPay, q.basePrice, q.finalPrice}
=============================================================================
