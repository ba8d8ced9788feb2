------------------------------ MODULE Pricing ------------------------------
(***************************************************************************)
(* What a request reserves and what it is billed: two implementations of   *)
(* the same price, one in the store (with checks that refuse what does not *)
(* fit in 64 bits) and one in the service (which saturates).  Prices are   *)
(* microyuan per million tokens, rates thousandths; there is no state, and *)
(* the theorems relate the two for all prices, rates and token counts.     *)
(***************************************************************************)
EXTENDS Integers, TLAPS

CONSTANT MaxInt64            \* math.MaxInt64

Million == 1000000

-----------------------------------------------------------------------------
(* The store, when it reserves.                                            *)

\* priceWithRate refuses a quote of which this is false.
QuoteFits(price, rate) == price >= 0 /\ rate > 0 /\ price <= MaxInt64 \div rate

priceWithRate(price, rate) == (price * rate) \div 1000

\* ceilPrice refuses an amount of which this is false.
CeilFits(tokens, price) ==
    /\ tokens >= 0 /\ price >= 0
    /\ tokens = 0 \/ price = 0 \/ tokens <= (MaxInt64 - (Million - 1)) \div price

ceilPrice(tokens, price) ==
    IF tokens = 0 \/ price = 0 THEN 0 ELSE (tokens * price + (Million - 1)) \div Million

\* reserveAmount refuses an amount of which this is false.
AmountFits(in, out, inPrice, outPrice) ==
    /\ CeilFits(in, inPrice) /\ CeilFits(out, outPrice)
    /\ ceilPrice(in, inPrice) <= MaxInt64 - ceilPrice(out, outPrice)

reserveAmount(in, out, inPrice, outPrice) == ceilPrice(in, inPrice) + ceilPrice(out, outPrice)

-----------------------------------------------------------------------------
(* The service, when it settles.                                           *)

Saturated(x) == IF x > MaxInt64 THEN MaxInt64 ELSE x

applyRate(price, rate) ==
    LET r == IF rate <= 0 THEN 1000 ELSE rate
    IN  IF rate = 1000 THEN price
        ELSE IF price > MaxInt64 \div r THEN MaxInt64
        ELSE (price * r) \div 1000

\* In big integers, rounded up.
pricePart(tokens, price) ==
    LET product == tokens * price
        up == IF product % Million > 0 THEN 1 ELSE 0
    IN  IF tokens <= 0 \/ price <= 0 THEN 0 ELSE Saturated(product \div Million + up)

\* Cached prompt tokens are part of the prompt tokens.
CachedTokens(prompt, cached) ==
    LET known == IF cached < 0 THEN 0 ELSE cached
    IN  IF known > prompt THEN prompt ELSE known

PriceUsage(prompt, cached, completion, inPrice, cachedPrice, outPrice) ==
    LET c == CachedTokens(prompt, cached)
    IN  Saturated(Saturated(pricePart(prompt - c, inPrice) + pricePart(c, cachedPrice))
                  + pricePart(completion, outPrice))

-----------------------------------------------------------------------------
(* Arithmetic.                                                             *)

Ceil(x) == (x + (Million - 1)) \div Million

\* Ceil rounds up to the next unit, by less than one unit.
LEMMA CeilFacts ==
    ASSUME NEW x \in Nat
    PROVE  /\ Ceil(x) \in Nat
           /\ Million * Ceil(x) >= x
           /\ Million * Ceil(x) <= x + (Million - 1)
           /\ Ceil(x) = x \div Million + (IF x % Million > 0 THEN 1 ELSE 0)
BY SMT DEF Ceil, Million

\* A rounded amount is an amount.
LEMMA CeilNat ==
    ASSUME NEW x \in Nat
    PROVE  Ceil(x) \in Nat
BY CeilFacts

\* More is never rounded to less.
LEMMA CeilMonotone ==
    ASSUME NEW x \in Nat, NEW y \in Nat, x <= y
    PROVE  Ceil(x) <= Ceil(y)
BY CeilFacts, SMT DEF Million

\* Rounding the two parts of a sum adds at most one unit.
LEMMA CeilSplit ==
    ASSUME NEW x \in Nat, NEW y \in Nat
    PROVE  Ceil(x) + Ceil(y) <= Ceil(x + y) + 1
<1>1. x + y \in Nat
  BY SMT
<1> QED
  BY <1>1, CeilFacts, SMT DEF Million

\* The price of some tokens is a natural number.
LEMMA ProductNat ==
    ASSUME NEW t \in Nat, NEW p \in Nat
    PROVE  t * p \in Nat
BY SMT

\* More tokens at a higher price cost at least as much.
LEMMA ProductMonotone ==
    ASSUME NEW t \in Nat, NEW u \in Nat, NEW p \in Nat, NEW q \in Nat, t <= u, p <= q
    PROVE  t * p <= u * q
<1>1. t * p <= u * p
  BY SMT
<1>2. u * p <= u * q
  BY SMT
<1> QED
  BY <1>1, <1>2, ProductNat, SMT

\* The quotient that ceilPrice compares with is rounded down.
LEMMA QuotientTimes ==
    ASSUME NEW a \in Int, NEW p \in Nat \ {0}
    PROVE  a \div p \in Int /\ (a \div p) * p <= a
BY SMT

-----------------------------------------------------------------------------
(* The check of ceilPrice is enough: the product and the rounding fit in   *)
(* 64 bits, so Go's arithmetic and this module's agree.                    *)
THEOREM ReservationDoesNotOverflow ==
    ASSUME MaxInt64 \in Nat, NEW tokens \in Nat, NEW price \in Nat, CeilFits(tokens, price)
    PROVE  tokens = 0 \/ price = 0 \/ tokens * price + (Million - 1) <= MaxInt64
<1> SUFFICES ASSUME tokens # 0, price # 0
             PROVE  tokens * price + (Million - 1) <= MaxInt64
  BY SMT DEF Million
<1> DEFINE q == (MaxInt64 - (Million - 1)) \div price
<1>1. q \in Int /\ q * price <= MaxInt64 - (Million - 1)
  BY QuotientTimes, SMT DEF Million
<1>2. tokens <= q
  BY SMT DEF CeilFits, Million
<1>3. q \in Nat
  BY <1>1, <1>2, SMT
<1>4. tokens * price <= q * price
  BY <1>2, <1>3, ProductMonotone, SMT
<1> QED
  BY <1>1, <1>3, <1>4, ProductNat, SMT DEF Million

(* pricePart, in big integers, and ceilPrice, in 64 bits, are the same     *)
(* function wherever ceilPrice accepts its arguments.                      *)
THEOREM PartIsCeil ==
    ASSUME MaxInt64 \in Nat, NEW tokens \in Nat, NEW price \in Nat, CeilFits(tokens, price)
    PROVE  /\ ceilPrice(tokens, price) = Ceil(tokens * price)
           /\ pricePart(tokens, price) = Ceil(tokens * price)
           /\ Ceil(tokens * price) \in Nat
<1> DEFINE x == tokens * price
<1>1. x \in Nat
  BY ProductNat, SMT
<1>2. /\ Ceil(x) \in Nat
      /\ Million * Ceil(x) <= x + (Million - 1)
      /\ Ceil(x) = x \div Million + (IF x % Million > 0 THEN 1 ELSE 0)
  BY <1>1, CeilFacts, SMT
<1>3. CASE tokens = 0 \/ price = 0
  <2>1. x = 0
    BY <1>3, SMT
  <2>2. Ceil(0) = 0
    BY SMT DEF Ceil, Million
  <2> QED
    BY <1>3, <2>1, <2>2, SMT DEF ceilPrice, pricePart
<1>4. CASE tokens # 0 /\ price # 0
  <2>1. x + (Million - 1) <= MaxInt64
    BY <1>4, ReservationDoesNotOverflow, SMT DEF Million
  <2>2. Ceil(x) <= MaxInt64
    <3> HIDE DEF x
    <3> QED
      BY <1>1, <1>2, <2>1, SMT DEF Million
  <2>3. ceilPrice(tokens, price) = Ceil(x)
    BY <1>4, SMT DEF ceilPrice, Ceil, Million
  <2>4. pricePart(tokens, price) = Ceil(x)
    BY <1>2, <1>4, <2>2, SMT DEF pricePart, Saturated, Million
  <2> QED
    BY <1>2, <2>3, <2>4, SMT
<1> QED
  BY <1>3, <1>4, SMT

\* A part that overflows is saturated, so it is never above the exact price.
LEMMA PartBound ==
    ASSUME MaxInt64 \in Nat, NEW tokens \in Nat, NEW price \in Nat
    PROVE  pricePart(tokens, price) \in Nat /\ pricePart(tokens, price) <= Ceil(tokens * price)
<1> DEFINE x == tokens * price
<1>1. x \in Nat
  BY ProductNat, SMT
<1>2. /\ Ceil(x) \in Nat
      /\ Ceil(x) = x \div Million + (IF x % Million > 0 THEN 1 ELSE 0)
  BY <1>1, CeilFacts, SMT
<1>3. pricePart(tokens, price) \in {0, MaxInt64, Ceil(x)}
  BY <1>2, SMT DEF pricePart, Saturated, Million
<1>4. pricePart(tokens, price) = MaxInt64 => MaxInt64 <= Ceil(x) \/ MaxInt64 = 0
  BY <1>2, SMT DEF pricePart, Saturated, Million
<1> QED
  BY <1>2, <1>3, <1>4, SMT

\* A saturated sum fits in 64 bits and is never above the exact one.
LEMMA SaturatedBound ==
    ASSUME MaxInt64 \in Nat, NEW x \in Nat
    PROVE  Saturated(x) \in Nat /\ Saturated(x) <= x /\ Saturated(x) <= MaxInt64
BY SMT DEF Saturated

(* A request that used no more tokens than it reserved is billed what it   *)
(* reserved at most, plus one microyuan if the provider reports cached     *)
(* tokens (PriceUsage rounds them up apart from the others), as long as    *)
(* cached tokens are not dearer than the others; and it is never billed    *)
(* more than fits in 64 bits.                                              *)
THEOREM SettlesWithinReserve ==
    ASSUME MaxInt64 \in Nat,
           NEW in \in Nat, NEW out \in Nat, NEW inPrice \in Nat, NEW outPrice \in Nat,
           NEW prompt \in Nat, NEW cached \in Int, NEW completion \in Nat, NEW cachedPrice \in Nat,
           AmountFits(in, out, inPrice, outPrice),
           prompt <= in, completion <= out, cachedPrice <= inPrice
    PROVE  LET bill == PriceUsage(prompt, cached, completion, inPrice, cachedPrice, outPrice)
               reserved == reserveAmount(in, out, inPrice, outPrice)
           IN  /\ bill \in 0 .. MaxInt64
               /\ bill <= reserved + 1
               /\ cached <= 0 => bill <= reserved
<1> DEFINE c == CachedTokens(prompt, cached)
           A == (prompt - c) * inPrice
           B == c * cachedPrice
           C == completion * outPrice
           I == in * inPrice
           O == out * outPrice
           partA == pricePart(prompt - c, inPrice)
           partB == pricePart(c, cachedPrice)
           partC == pricePart(completion, outPrice)
           bill == PriceUsage(prompt, cached, completion, inPrice, cachedPrice, outPrice)
<1>1. c \in Nat /\ prompt - c \in Nat /\ (cached <= 0 => c = 0)
  BY SMT DEF CachedTokens
<1>2. A \in Nat /\ B \in Nat /\ C \in Nat /\ I \in Nat /\ O \in Nat
  BY <1>1, ProductNat, SMT
<1>3. A + B <= I
  <2>1. c * cachedPrice <= c * inPrice
    BY <1>1, ProductMonotone, SMT
  <2>2. (prompt - c) * inPrice + c * inPrice = prompt * inPrice
    BY <1>1, SMT
  <2>3. prompt * inPrice <= in * inPrice
    BY ProductMonotone, SMT
  <2>4. c * inPrice \in Nat /\ prompt * inPrice \in Nat
    BY <1>1, ProductNat, SMT
  <2> QED
    BY <1>2, <2>1, <2>2, <2>3, <2>4, SMT
<1>4. C <= O
  BY ProductMonotone, SMT
<1>5. /\ partA \in Nat /\ partA <= Ceil(A)
      /\ partB \in Nat /\ partB <= Ceil(B)
      /\ partC \in Nat /\ partC <= Ceil(C)
  BY <1>1, PartBound
<1>6. bill \in 0 .. MaxInt64 /\ bill <= partA + partB + partC
  <2>1. partA + partB \in Nat
    BY <1>5, SMT
  <2>2. Saturated(partA + partB) \in Nat /\ Saturated(partA + partB) <= partA + partB
    BY <2>1, SaturatedBound, SMT
  <2>3. Saturated(partA + partB) + partC \in Nat
    BY <1>5, <2>2, SMT
  <2>4. bill = Saturated(Saturated(partA + partB) + partC)
    BY SMT DEF PriceUsage
  <2> HIDE DEF bill, partA, partB, partC
  <2> QED
    BY <1>5, <2>2, <2>3, <2>4, SaturatedBound, SMT
<1>7. reserveAmount(in, out, inPrice, outPrice) = Ceil(I) + Ceil(O)
  BY PartIsCeil, SMT DEF reserveAmount, AmountFits
<1>8. /\ Ceil(A) + Ceil(B) <= Ceil(A + B) + 1
      /\ Ceil(A + B) <= Ceil(I)
      /\ Ceil(A) <= Ceil(I)
      /\ Ceil(C) <= Ceil(O)
  <2> HIDE DEF A, B, C, I, O
  <2>1. A + B \in Nat /\ A <= I
    BY <1>2, <1>3, SMT
  <2>2. Ceil(A) + Ceil(B) <= Ceil(A + B) + 1
    BY <1>2, CeilSplit
  <2> QED
    BY <1>2, <1>3, <1>4, <2>1, <2>2, CeilMonotone
<1>9. cached <= 0 => partB = 0
  BY <1>1, SMT DEF pricePart
<1>10. /\ Ceil(A) \in Nat /\ Ceil(B) \in Nat /\ Ceil(C) \in Nat
       /\ Ceil(I) \in Nat /\ Ceil(O) \in Nat /\ Ceil(A + B) \in Nat
  <2> HIDE DEF A, B, C, I, O
  <2> QED
    BY <1>2, CeilFacts, SMT
<1> HIDE DEF bill, partA, partB, partC, A, B, C, I, O
<1>11. bill <= Ceil(I) + Ceil(O) + 1 /\ (cached <= 0 => bill <= Ceil(I) + Ceil(O))
  BY <1>5, <1>6, <1>8, <1>9, <1>10, SMT
<1> QED
  BY <1>6, <1>7, <1>11, SMT DEF bill

(* The store and the service apply a group's rate alike: a quote the store *)
(* accepts is settled at the very price it was reserved at.                *)
THEOREM QuoteIsReserved ==
    ASSUME MaxInt64 \in Nat, NEW price \in Nat, NEW rate \in Nat, QuoteFits(price, rate)
    PROVE  applyRate(price, rate) = priceWithRate(price, rate)
<1>1. rate > 0 /\ price <= MaxInt64 \div rate
  BY SMT DEF QuoteFits
<1>2. CASE rate = 1000
  BY <1>2, SMT DEF applyRate, priceWithRate
<1>3. CASE rate # 1000
  <2>1. MaxInt64 \div rate \in Int
    BY <1>1, QuotientTimes, SMT
  <2>2. ~(price > MaxInt64 \div rate)
    BY <1>1, <2>1, SMT
  <2>3. ~(rate <= 0)
    BY <1>1, SMT
  <2> QED
    BY <1>3, <2>2, <2>3, SMT DEF applyRate, priceWithRate
<1> QED
  BY <1>2, <1>3, SMT
=============================================================================
