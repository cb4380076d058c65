---------------------------- MODULE PricingProofs ----------------------------
(***************************************************************************)
(* QuoteInputs, proved for every set of prices and settings.               *)
(***************************************************************************)
EXTENDS QuoteInputs, TLAPS

-----------------------------------------------------------------------------
\* Facts about the price arithmetic, for every price and every setting.

\* Floor division by 100 stays below a bound that 100 times exceeds the dividend.
LEMMA FloorOfHundredths ==
    ASSUME NEW x \in Nat, NEW n \in Nat, x <= 100 * n
    PROVE  x \div 100 \in 0..n /\ 100 * (x \div 100) <= x
  OBVIOUS

\* A percentage of a price is at most the price.
LEMMA PercentOfPrice ==
    ASSUME NEW price \in Nat, NEW rate \in 0..100
    PROVE  /\ price * rate \in Nat
           /\ price * rate <= 100 * price
<1>1. price * rate \in Nat
  OBVIOUS
<1>2. price * (100 - rate) \in Nat
  OBVIOUS
<1>3. price * (100 - rate) = 100 * price - price * rate
  OBVIOUS
<1>4. QED
  BY <1>1, <1>2, <1>3

\* apply_percent_discount (pricing.py:33-45): the price after the discount lies
\* between 1 and the catalogue price, and the cut is rounded down.
LEMMA DiscountedPrice ==
    ASSUME NEW price \in Nat \ {0}, NEW rate \in 0..100
    PROVE  /\ PriceAfterDiscount(price, rate) \in 1..price
           /\ 100 * PriceAfterDiscount(price, rate) >= price * (100 - rate)
<1>1. /\ CutOf(price, rate) \in 0..price
      /\ 100 * CutOf(price, rate) <= price * rate
  BY PercentOfPrice, FloorOfHundredths DEF CutOf
<1>2. price * (100 - rate) = 100 * price - price * rate
  OBVIOUS
<1>3. price * rate \in Nat
  BY PercentOfPrice
<1>4. CASE price - CutOf(price, rate) <= 0
  <2>1. PriceAfterDiscount(price, rate) = 1
    BY <1>4 DEF PriceAfterDiscount
  <2>2. price * (100 - rate) <= 0
    BY <1>1, <1>2, <1>3, <1>4
  <2>3. QED
    BY <2>1, <2>2, <1>2, <1>3
<1>5. CASE price - CutOf(price, rate) > 0
  <2>1. PriceAfterDiscount(price, rate) = price - CutOf(price, rate)
    BY <1>1, <1>5 DEF PriceAfterDiscount
  <2>2. QED
    BY <1>1, <1>2, <1>3, <1>5, <2>1
<1>6. QED
  BY <1>1, <1>4, <1>5

\* max_credits_for_price (pricing.py:48-56): at most half of the price, so that
\* at least one Star is left.
LEMMA CreditsCap ==
    ASSUME NEW final \in Nat \ {0}, NEW rate \in 1..50
    PROVE  /\ MaxCreditsForPrice(final, rate) \in 0..(final - 1)
           /\ 2 * MaxCreditsForPrice(final, rate) <= final
<1>1. /\ final * rate \in Nat
      /\ (2 * final) * rate = 2 * (final * rate)
  OBVIOUS
<1>2. 2 * (final * rate) <= 100 * final
  <2>1. final * (50 - rate) \in Nat
    OBVIOUS
  <2>2. final * (50 - rate) = 50 * final - final * rate
    OBVIOUS
  <2>3. QED
    BY <1>1, <2>1, <2>2
<1>3. /\ (final * rate) \div 100 \in 0..final
      /\ 100 * ((final * rate) \div 100) <= final * rate
  BY <1>1, <1>2, FloorOfHundredths
<1>4. 2 * ((final * rate) \div 100) <= final
  BY <1>1, <1>2, <1>3
<1>5. QED
  BY <1>3, <1>4 DEF MaxCreditsForPrice, AtMost

\* What a quote q of a plan at this price promises.
SoundQuote(q, price, pct, credits) ==
    /\ q.finalPrice \in 1..price
    /\ q.creditsToUse \in 0..credits
    /\ q.creditsToUse <= q.maxCredits
    /\ 2 * q.creditsToUse <= q.finalPrice
    /\ q.starsToPay \in Nat \ {0}
    /\ q.starsToPay + q.creditsToUse = q.finalPrice
    /\ 100 * q.finalPrice >= price * (100 - pct)
    /\ q.basePrice = price
    /\ q.available = credits

\* build_purchase_quote (pricing.py:59-98) for every price and setting.
LEMMA QuoteIsSound ==
    ASSUME NEW price \in Nat \ {0}, NEW isReferral \in BOOLEAN,
           NEW pct \in 0..100, NEW shr \in 1..50, NEW credits \in Nat
    PROVE  SoundQuote(BuildPurchaseQuote(price, isReferral, pct, shr, credits),
                      price, pct, credits)
<1> DEFINE q == BuildPurchaseQuote(price, isReferral, pct, shr, credits)
           final == IF isReferral THEN PriceAfterDiscount(price, pct) ELSE price
           most == MaxCreditsForPrice(final, shr)
<1>1. final \in 1..price /\ 100 * final >= price * (100 - pct)
  <2>1. CASE isReferral
    BY <2>1, DiscountedPrice
  <2>2. CASE ~isReferral
    <3>1. price * (100 - pct) = 100 * price - price * pct /\ price * pct \in Nat
      BY PercentOfPrice
    <3>2. QED
      BY <2>2, <3>1
  <2>3. QED
    BY <2>1, <2>2
<1>2. most \in 0..(final - 1) /\ 2 * most <= final
  <2>1. final \in Nat \ {0}
    BY <1>1
  <2> HIDE DEF final
  <2>2. QED
    BY <2>1, CreditsCap
<1>3. /\ q.finalPrice = final
      /\ q.maxCredits = most
      /\ q.creditsToUse = AtMost(credits, most)
      /\ q.starsToPay = final - AtMost(credits, most)
      /\ q.basePrice = price
      /\ q.available = credits
  BY DEF BuildPurchaseQuote
<1> HIDE DEF q, final, most
<1>4. AtMost(credits, most) \in 0..credits /\ AtMost(credits, most) <= most
  BY <1>1, <1>2 DEF AtMost
<1>5. QED
  BY <1>1, <1>2, <1>3, <1>4 DEF q, SoundQuote

\* Whatever integers the settings hold, the percentages used are in range.
LEMMA SettingsInRange ==
    ASSUME NEW raw \in Int
    PROVE  DiscountPercentConfig(raw) \in 0..100 /\ CreditsMaxSharePercent(raw) \in 1..50
  BY DEF DiscountPercentConfig, CreditsMaxSharePercent, Clamp, OrDefault, AtMost

-----------------------------------------------------------------------------
\* The state machine over the inputs of a quote.

\* The inputs of a quote stay in their ranges.
THEOREM InputsTypeCorrect == Spec => []TypeOK
<1>1. Init => TypeOK
  BY InputsAssumption, SettingsInRange DEF Init, TypeOK
<1>2. TypeOK /\ [Next]_vars => TypeOK'
  BY DEF TypeOK, Next, EarnCredit, vars
<1>3. QED
  BY <1>1, <1>2, PTL DEF Spec

\* QuoteIsSound for the input of a state.
LEMMA QuoteOfState ==
    TypeOK => SoundQuote(Quote, base, percent, available)
  BY QuoteIsSound DEF TypeOK, Quote

\* Every quote charges at least one Star and adds up (build_purchase_quote).
THEOREM QuotesAddUp == Spec => []QuoteAddsUp
<1>1. TypeOK => QuoteAddsUp
  BY QuoteOfState DEF SoundQuote, TypeOK, QuoteAddsUp
<1>2. QED
  BY <1>1, InputsTypeCorrect, PTL

\* Credits never pay more than half (credits_max_share_percent's hard cap).
THEOREM CreditsNeverPayMoreThanHalf == Spec => []CreditsPayAtMostHalf
<1>1. TypeOK => CreditsPayAtMostHalf
  BY QuoteOfState DEF SoundQuote, TypeOK, CreditsPayAtMostHalf
<1>2. QED
  BY <1>1, InputsTypeCorrect, PTL

\* The discount's rounding favours the project (apply_percent_discount).
THEOREM DiscountRoundsDown == Spec => []RoundingFavoursProject
<1>1. TypeOK => RoundingFavoursProject
  BY QuoteOfState DEF SoundQuote, TypeOK, RoundingFavoursProject
<1>2. QED
  BY <1>1, InputsTypeCorrect, PTL

\* What the invoice route builds, the pre-checkout handler accepts.
THEOREM FreshInvoicesAreAccepted == Spec => []FreshInvoiceIsAccepted
<1>1. TypeOK => FreshInvoiceIsAccepted
  BY QuoteOfState DEF SoundQuote, TypeOK, FreshInvoiceIsAccepted, CheckoutAccepts
<1>2. QED
  BY <1>1, InputsTypeCorrect, PTL
=============================================================================
