--------------------------- MODULE FeePolicyProofs ---------------------------
(* Machine-checked proofs about FeePolicy, for every width of the amounts, *)
(* every policy and every price.                                           *)
EXTENDS FeePolicy, TLAPS

-----------------------------------------------------------------------------
(* Arithmetic.                                                             *)

LEMMA ModSmall ==
  ASSUME NEW m \in Nat \ {0}, NEW x \in 0 .. m - 1
  PROVE  x % m = x /\ (x + m) % m = x
OBVIOUS

(* Wrapping leaves an amount that fits alone and takes one that exceeds    *)
(* the width once around.                                                  *)
LEMMA WrapFits == ASSUME NEW x \in Int64 PROVE Wrap(x) = x
<1>1. x + Half \in 0 .. 2 * Half - 1 /\ 2 * Half \in Nat \ {0}
  BY HalfAssumption DEF Int64
<1>2. (x + Half) % (2 * Half) = x + Half
  BY <1>1, ModSmall
<1>3. QED
  BY <1>2, HalfAssumption DEF Wrap, Int64

LEMMA WrapAround == ASSUME NEW x \in Half .. 3 * Half - 1 PROVE Wrap(x) = x - 2 * Half
<1> DEFINE y == x - Half
<1>1. y \in 0 .. 2 * Half - 1 /\ 2 * Half \in Nat \ {0} /\ x + Half = y + 2 * Half
  BY HalfAssumption
<1> HIDE DEF y
<1>2. (x + Half) % (2 * Half) = y
  BY <1>1, ModSmall
<1>3. QED
  BY <1>2, HalfAssumption DEF Wrap, y

(* A quotient is bounded by what its numerator is bounded by. *)
LEMMA DivFloor ==
  ASSUME NEW num \in Nat, NEW den \in Nat \ {0}
  PROVE  /\ num \div den \in Nat
         /\ num % den \in 0 .. den - 1
         /\ num = den * (num \div den) + (num % den)
OBVIOUS

LEMMA ProductMonotone ==
  ASSUME NEW d \in Nat, NEW x \in Int, NEW y \in Int, x <= y
  PROVE  d * x \in Int /\ d * y \in Int /\ d * x <= d * y
<1>1. y - x \in Nat
  OBVIOUS
<1>2. d * (y - x) \in Nat
  BY <1>1
<1>3. d * y = d * x + d * (y - x)
  OBVIOUS
<1>4. QED
  BY <1>2, <1>3

LEMMA DivAtMost ==
  ASSUME NEW num \in Nat, NEW den \in Nat \ {0}, NEW k \in Int, num < den * (k + 1)
  PROVE  num \div den <= k
<1> DEFINE q == num \div den
<1>1. q \in Nat /\ num >= den * q
  BY DivFloor
<1> HIDE DEF q
<1>2. q >= k + 1 => den * q >= den * (k + 1)
  BY <1>1, ProductMonotone
<1>3. q <= k
  BY <1>1, <1>2
<1>4. QED
  BY <1>3 DEF q

LEMMA DivAtLeast ==
  ASSUME NEW num \in Nat, NEW den \in Nat \ {0}, NEW k \in Int, den * k <= num
  PROVE  k <= num \div den
<1> DEFINE q == num \div den
<1>1. q \in Nat /\ num < den * q + den
  BY DivFloor
<1> HIDE DEF q
<1>2. den * (q + 1) = den * q + den
  BY <1>1
<1>3. q + 1 <= k => den * (q + 1) <= den * k
  BY <1>1, ProductMonotone
<1>4. k <= q
  BY <1>1, <1>2, <1>3
<1>5. QED
  BY <1>4 DEF q

(* Rounding stays between the quotient rounded down and rounded up. *)
LEMMA RoundedOnce ==
  ASSUME NEW rule, NEW num \in Nat, NEW den \in Nat \ {0}
  PROVE  /\ num \div den \in Nat /\ Up(num, den) \in Nat
         /\ roundAmount(rule, num, den) \in num \div den .. Up(num, den)
<1> DEFINE q == num \div den
           u == Up(num, den)
           near == (2 * num + den) \div (2 * den)
<1>1. q \in Nat /\ den * q <= num /\ num < den * q + den
  BY DivFloor
<1>2. num + den - 1 \in Nat /\ 2 * num + den \in Nat /\ 2 * den \in Nat \ {0}
  OBVIOUS
<1>3. u \in Nat /\ num + den - 1 < den * u + den
  BY <1>2, DivFloor DEF Up
<1>4. near \in Nat
  BY <1>2, DivFloor
<1>5. q <= u
  <2>1. den * q <= num + den - 1
    BY <1>1
  <2>2. q \in Int
    BY <1>1
  <2> HIDE DEF q
  <2>3. QED
    BY <1>2, <2>1, <2>2, DivAtLeast DEF Up
<1>6. q <= near
  <2> HIDE DEF q
  <2>1. 2 * den * q = 2 * (den * q) /\ q \in Int
    BY <1>1
  <2>2. 2 * den * q <= 2 * num + den
    BY <1>1, <2>1
  <2>3. QED
    BY <1>2, <2>1, <2>2, DivAtLeast
<1>7. near <= u
  <2> HIDE DEF u
  <2>1. num <= den * u
    BY <1>3
  <2>2. 2 * den * (u + 1) = 2 * (den * u) + 2 * den /\ u \in Int
    BY <1>3
  <2>3. 2 * num + den < 2 * den * (u + 1)
    BY <1>3, <2>1, <2>2
  <2>4. QED
    BY <1>2, <2>2, <2>3, DivAtMost
<1> HIDE DEF near, u, q
<1>8. roundAmount(rule, num, den) \in {q, u, near}
  BY DEF roundAmount, q, u, near
<1>9. roundAmount(rule, num, den) \in q .. u
  BY <1>1, <1>3, <1>4, <1>5, <1>6, <1>7, <1>8
<1>10. QED
  BY <1>1, <1>3, <1>9 DEF q, u

(* What float64 adds to that. *)
LEMMA RoundedNear ==
  ASSUME NEW rule, NEW num \in Nat, NEW den \in Nat \ {0}, NEW x \in Rounded(rule, num, den)
  PROVE  /\ x \in Nat
         /\ Least(num) \div Widened(den) \in Nat
         /\ Up(Most(num), Widened(den)) \in Nat
         /\ x \in Least(num) \div Widened(den) .. Up(Most(num), Widened(den))
<1> DEFINE lo == Least(num)
           hi == Most(num)
           d == Widened(den)
<1>1. lo \in Nat /\ hi \in Nat /\ d \in Nat \ {0}
  BY PrecisionAssumption DEF Least, Most, Widened
<1> HIDE DEF lo, hi, d
<1>2. /\ lo \div d \in Nat
      /\ roundAmount(rule, lo, d) \in lo \div d .. Up(lo, d) /\ Up(lo, d) \in Nat
      /\ Up(hi, d) \in Nat /\ hi \div d \in Nat
      /\ roundAmount(rule, hi, d) \in hi \div d .. Up(hi, d)
  BY <1>1, RoundedOnce
<1>3. x \in roundAmount(rule, lo, d) .. roundAmount(rule, hi, d)
  BY DEF Rounded, lo, hi, d
<1>4. x \in Nat /\ x \in lo \div d .. Up(hi, d)
  BY <1>2, <1>3
<1>5. QED
  BY <1>2, <1>4 DEF lo, hi, d

-----------------------------------------------------------------------------
(* The host fee.                                                           *)

(* The limits keep a fee in the type, and a limit keeps the sign. *)
LEMMA ClampTyped ==
  ASSUME NEW p \in Policies, LimitsValid(p), NEW x \in Int64
  PROVE  /\ Clamp(p, x) \in Int64
         /\ Clamp(p, x) >= 0 \/ Clamp(p, x) = x
         /\ p.min # None => Clamp(p, x) >= p.min
         /\ p.max # None => Clamp(p, x) <= p.max
<1>1. p.min # None => p.min \in Int64 /\ p.min >= 0
  BY InputsAssumption DEF Policies, LimitsValid
<1>2. p.max # None => p.max \in Int64 /\ p.max >= 0
  BY InputsAssumption DEF Policies, LimitsValid
<1>3. p.min # None /\ p.max # None => p.min <= p.max
  BY DEF LimitsValid
<1>4. QED
  BY <1>1, <1>2, <1>3, HalfAssumption DEF Clamp, AtMostMax, AtLeastMin, Int64

(* A larger fee is charged at least as much. *)
LEMMA ClampMonotone ==
  ASSUME NEW p \in Policies, LimitsValid(p), NEW x \in Int, NEW y \in Int, x <= y
  PROVE  Clamp(p, x) \in Int /\ Clamp(p, x) <= Clamp(p, y)
<1>0. p.min \in Limits \cup {None} /\ p.max \in Limits \cup {None}
  BY DEF Policies
<1>l. \A l \in Limits : l \in Int
  BY InputsAssumption, HalfAssumption DEF Int64
<1>1. p.min # None => p.min \in Int
  BY <1>0, <1>l
<1>2. p.max # None => p.max \in Int
  BY <1>0, <1>l
<1>3. p.min # None /\ p.max # None => p.min <= p.max
  BY DEF LimitsValid
<1>4. QED
  BY <1>1, <1>2, <1>3 DEF Clamp, AtMostMax, AtLeastMin

LEMMA RawFeeNear ==
  ASSUME policy \in Policies, price \in Prices, Valid(policy), policy.type # "free",
         NEW raw \in RawFee(policy, price)
  PROVE  /\ raw \in Nat
         /\ LeastFee \in Nat /\ MostFee \in Nat
         /\ raw \in LeastFee .. MostFee
<1>0. policy.value \in Int /\ policy.value >= 0
  BY InputsAssumption DEF Valid, Policies
<1>1. policy.value \in Nat /\ price \in Nat /\ Scale \in Nat \ {0}
  BY <1>0, ScaleAssumption, PricesAssumption, HalfAssumption
<1>2. CASE policy.type = "percent"
  <2> DEFINE num == price * policy.value
             den == 100 * Scale
  <2>1. num \in Nat /\ den \in Nat \ {0}
    BY <1>1
  <2>2. raw \in Rounded(policy.rounding, num, den)
    BY <1>2 DEF RawFee, PercentOf
  <2>3. LeastFee = Least(num) \div Widened(den) /\ MostFee = Up(Most(num), Widened(den))
    BY <1>2 DEF LeastFee, MostFee
  <2> HIDE DEF num, den
  <2>4. /\ raw \in Nat
        /\ Least(num) \div Widened(den) \in Nat
        /\ Up(Most(num), Widened(den)) \in Nat
        /\ raw \in Least(num) \div Widened(den) .. Up(Most(num), Widened(den))
    BY <2>1, <2>2, RoundedNear
  <2>5. QED
    BY <2>3, <2>4
<1>3. CASE policy.type # "percent"
  <2>1. /\ raw = policy.value \div Scale
        /\ LeastFee = policy.value \div Scale /\ MostFee = policy.value \div Scale
    BY <1>3 DEF RawFee, LeastFee, MostFee
  <2>2. policy.value \div Scale \in Nat
    BY <1>1, DivFloor
  <2>3. QED
    BY <2>1, <2>2
<1>4. QED
  BY <1>2, <1>3

(* Whatever the conversion did, a host fee is an int64 that respects the   *)
(* limits, and a negative one is the least int64.                          *)
LEMMA HostFeeTyped ==
  ASSUME policy \in Policies, price \in Prices, Valid(policy),
         NEW fee \in HostFee(policy, price)
  PROVE  /\ fee \in Int64
         /\ fee >= 0 \/ fee = -Half
         /\ (price = 0 \/ policy.type = "free") => fee = 0
         /\ price # 0 /\ policy.type # "free" =>
              /\ policy.min # None => fee >= policy.min
              /\ policy.max # None => fee <= policy.max
<1>1. price \in Nat
  BY PricesAssumption, HalfAssumption
<1>2. CASE price = 0 \/ policy.type = "free"
  BY <1>1, <1>2, HalfAssumption DEF HostFee, Int64
<1>3. CASE price # 0 /\ policy.type # "free"
  <2>0. PICK raw \in RawFee(policy, price) :
          \E x \in ToInt64(raw) : fee = Clamp(policy, x)
    BY <1>1, <1>3 DEF HostFee
  <2>1. PICK x \in ToInt64(raw) : fee = Clamp(policy, x)
    BY <2>0
  <2>2. raw \in Nat
    BY <1>3, RawFeeNear
  <2>3. x \in Int64 /\ (x >= 0 \/ x = -Half)
    BY <2>1, <2>2, HalfAssumption DEF ToInt64, Int64
  <2>4. LimitsValid(policy)
    BY DEF Valid
  <2>5. QED
    BY <1>3, <2>1, <2>3, <2>4, ClampTyped
<1>4. QED
  BY <1>2, <1>3

LEMMA ProviderFeeTyped ==
  ASSUME price \in Prices, NEW fee \in ProviderFee(price)
  PROVE  /\ fee \in 0 .. price
         /\ Up(Most(price * 25), Widened(1000)) \in Nat
         /\ fee <= Up(Most(price * 25), Widened(1000))
<1>1. price \in Nat /\ price * 25 \in Nat
  BY PricesAssumption, HalfAssumption
<1>2. /\ fee \in Nat
      /\ Up(Most(price * 25), Widened(1000)) \in Nat
      /\ fee \in Least(price * 25) \div Widened(1000) .. Up(Most(price * 25), Widened(1000))
      /\ Least(price * 25) \div Widened(1000) \in Nat
  BY <1>1, RoundedNear DEF ProviderFee
<1>3. fee <= roundAmount("nearest", Most(price * 25), Widened(1000))
  BY <1>2, RoundedOnce DEF ProviderFee, Rounded
<1> DEFINE n == 2 * (price * 25 * (Precision + 1)) + 1000 * Precision
           d == 2 * (1000 * Precision)
<1>4. n \in Nat /\ d \in Nat \ {0}
  BY <1>1, PrecisionAssumption
<1>5. n < d * (price + 1)
  <2>1. price * Precision \in Nat /\ price <= price * Precision
    <3>1. Precision >= 1 /\ price * 1 = price
      BY <1>1, PrecisionAssumption
    <3>2. QED
      BY <1>1, <3>1, PrecisionAssumption, ProductMonotone
  <2>2. n = 50 * (price * Precision) + 50 * price + 1000 * Precision
    BY <1>1, PrecisionAssumption
  <2>3. d * (price + 1) = 2000 * (price * Precision) + 2000 * Precision
    BY <1>1, PrecisionAssumption
  <2>4. QED
    BY <1>1, <2>1, <2>2, <2>3, PrecisionAssumption
<1>6. roundAmount("nearest", Most(price * 25), Widened(1000)) = n \div d
  BY DEF roundAmount, Most, Widened
<1> HIDE DEF n, d
<1>7. n \div d \in Nat
  BY <1>4, DivFloor
<1>8. n \div d <= price
  <2>1. price \in Int
    BY <1>1
  <2>2. QED
    BY <1>4, <1>5, <2>1, DivAtMost
<1>9. QED
  BY <1>1, <1>2, <1>3, <1>6, <1>7, <1>8

-----------------------------------------------------------------------------
(* The settlement.  A fee that overflowed to the least int64 makes the     *)
(* first subtraction wrap to price - Half and the second one stay below    *)
(* zero, so the creation is refused; no other subtraction wraps.           *)

LEMMA NetOfFee ==
  ASSUME NEW gross \in 0 .. Half - 1, NEW host \in 0 .. Half - 1, NEW provider \in 0 .. gross
  PROVE  /\ Wrap(Wrap(gross - host) - provider) = gross - host - provider
         /\ gross - host - provider \in Int64
<1>1. gross - host \in Int64 /\ gross - host - provider \in Int64
  BY HalfAssumption DEF Int64
<1>2. QED
  BY <1>1, WrapFits

LEMMA NetExact ==
  ASSUME NEW gross \in 0 .. Half - 1, NEW host \in Int64, host >= 0 \/ host = -Half,
         NEW provider \in 0 .. gross,
         Wrap(Wrap(gross - host) - provider) >= 0
  PROVE  /\ host >= 0
         /\ Wrap(Wrap(gross - host) - provider) = gross - host - provider
         /\ gross - host - provider \in Int64
<1>1. CASE host >= 0
  <2>1. host \in 0 .. Half - 1
    BY <1>1 DEF Int64
  <2>2. QED
    BY <1>1, <2>1, NetOfFee
<1>2. CASE host = -Half
  <2>1. gross - host \in Half .. 3 * Half - 1
    BY <1>2, HalfAssumption
  <2>2. Wrap(gross - host) = gross - Half
    BY <1>2, <2>1, WrapAround, HalfAssumption
  <2>3. gross - Half - provider \in Int64 /\ gross - Half - provider < 0
    BY HalfAssumption DEF Int64
  <2>4. Wrap(Wrap(gross - host) - provider) < 0
    BY <2>2, <2>3, WrapFits
  <2>5. QED
    BY <2>3, <2>4, <2>2, WrapFits, HalfAssumption DEF Int64
<1>3. QED
  BY <1>1, <1>2

(* What an accepted creation records. *)
Sound ==
  Accepted =>
    /\ Valid(policy)
    /\ quote.host \in HostFee(policy, price)
    /\ quote.provider \in ProviderFee(price)
    /\ quote.host >= 0
    /\ quote.net >= 0
    /\ quote.host + quote.provider + quote.net = price

Inv == TypeOK /\ Sound

LEMMA AcceptSound == Inv /\ Accept => Inv' /\ Accepted'
<1> SUFFICES ASSUME Inv, Accept PROVE Inv' /\ Accepted'
  OBVIOUS
<1>0. policy \in Policies /\ price \in Prices /\ Valid(policy) /\ UNCHANGED <<policy, price>>
  BY DEF Inv, TypeOK, Accept
<1>1. PICK host \in HostFee(policy, price), provider \in ProviderFee(price) :
        LET net == Wrap(Wrap(price - host) - provider) IN
        net >= 0 /\ quote' = [host |-> host, provider |-> provider, net |-> net]
  BY DEF Accept, Settles
<1> DEFINE net == Wrap(Wrap(price - host) - provider)
<1>2. price \in 0 .. Half - 1 /\ provider \in 0 .. price
  BY <1>0, PricesAssumption, ProviderFeeTyped
<1>3. host \in Int64 /\ (host >= 0 \/ host = -Half)
  BY <1>0, HostFeeTyped
<1>4. host >= 0 /\ net = price - host - provider /\ net \in Int64 /\ net >= 0
  BY <1>1, <1>2, <1>3, NetExact
<1>5. provider \in Int64
  BY <1>2, HalfAssumption DEF Int64
<1> HIDE DEF net
<1>6. quote' = [host |-> host, provider |-> provider, net |-> net]
  BY <1>1 DEF net
<1>7. quote' \in Settlements
  BY <1>3, <1>4, <1>5, <1>6 DEF Settlements
<1>8. host + provider + net = price
  BY <1>2, <1>3, <1>4, HalfAssumption DEF Int64
<1>9. TypeOK'
  BY <1>0, <1>7 DEF TypeOK
<1>10. Sound'
  <2>1. Valid(policy)' /\ (quote.host \in HostFee(policy, price))'
        /\ (quote.provider \in ProviderFee(price))'
    BY <1>0, <1>6
  <2>2. quote'.host >= 0 /\ quote'.net >= 0 /\ quote'.host + quote'.provider + quote'.net = price'
    BY <1>0, <1>4, <1>6, <1>8
  <2>3. QED
    BY <2>1, <2>2 DEF Sound
<1>11. QED
  BY <1>7, <1>9, <1>10 DEF Inv, Accepted

LEMMA Invariant == Spec => []Inv
<1>1. Init => Inv
  BY NoneAssumption DEF Init, Inv, TypeOK, Sound, Accepted
<1>2. Inv /\ Refuse => Inv'
  BY NoneAssumption DEF Inv, TypeOK, Refuse, Sound, Accepted
<1>3. Inv /\ UNCHANGED vars => Inv'
  BY DEF Inv, TypeOK, vars, Sound, Accepted, Valid, LimitsValid
<1>4. QED
  BY <1>1, <1>2, <1>3, AcceptSound, PTL DEF Spec, Next

(* The amounts of an order are int64 without overflow. *)
THEOREM FeeTypeCorrect == Spec => []TypeOK
<1>1. Inv => TypeOK
  BY DEF Inv
<1>2. QED
  BY <1>1, Invariant, PTL

(* Fees and net amount are parts of the gross amount and make it up. *)
THEOREM SettlementAddsUp == Spec => []SettlementConserved
<1>1. Inv => SettlementConserved
  <2> SUFFICES ASSUME Inv, Accepted PROVE SettlementConserved
    BY DEF SettlementConserved
  <2>1. quote.provider \in 0 .. price
    BY ProviderFeeTyped DEF Inv, TypeOK, Sound
  <2>2. QED
    BY <2>1, PricesAssumption, HalfAssumption DEF Inv, TypeOK, Sound, SettlementConserved
<1>2. QED
  BY <1>1, Invariant, PTL

(* The limits of a policy hold for every fee charged under it. *)
THEOREM LimitsRespected == Spec => []FeeWithinLimits
<1>1. Inv => FeeWithinLimits
  BY HostFeeTyped DEF Inv, TypeOK, Sound, FeeWithinLimits
<1>2. QED
  BY <1>1, Invariant, PTL

(* A fee that fits its type, before it is known whether the creation is    *)
(* accepted.                                                               *)
LEMMA HostFeeNear ==
  ASSUME policy \in Policies, price \in Prices, Valid(policy), price > 0,
         policy.type # "free", MostFee \in Int64, NEW fee \in HostFee(policy, price)
  PROVE  fee >= 0 /\ fee \in Clamp(policy, LeastFee) .. Clamp(policy, MostFee)
<1>0. price \in Nat /\ LimitsValid(policy)
  BY PricesAssumption, HalfAssumption DEF Valid
<1>r. PICK raw \in RawFee(policy, price) : \E x \in ToInt64(raw) : fee = Clamp(policy, x)
  BY <1>0 DEF HostFee
<1>1. PICK x \in ToInt64(raw) : fee = Clamp(policy, x)
  BY <1>r
<1>2. raw \in Nat /\ LeastFee \in Nat /\ MostFee \in Nat /\ raw \in LeastFee .. MostFee
  BY <1>0, RawFeeNear
<1>3. raw \in Int64
  BY <1>2, HalfAssumption DEF Int64
<1>4. x = raw
  BY <1>1, <1>3 DEF ToInt64
<1>5. /\ Clamp(policy, LeastFee) <= Clamp(policy, x)
      /\ Clamp(policy, x) <= Clamp(policy, MostFee)
      /\ Clamp(policy, LeastFee) \in Int
      /\ Clamp(policy, x) \in Int
      /\ Clamp(policy, MostFee) \in Int
  <2> HIDE DEF LeastFee, MostFee
  <2>1. QED
    BY <1>0, <1>2, <1>4, ClampMonotone
<1>6. fee >= 0
  BY <1>0, <1>1, <1>2, <1>3, <1>4, ClampTyped
<1>7. QED
  BY <1>1, <1>5, <1>6

(* Rounding, conversion and limits move a fee that fits its type by less   *)
(* than one unit and one part in Precision, and only towards a limit by    *)
(* more.                                                                   *)
THEOREM FeeFaithful == Spec => []FeeFollowsPolicy
<1>1. Inv => FeeFollowsPolicy
  BY HostFeeNear DEF Inv, TypeOK, Sound, FeeFollowsPolicy
<1>2. QED
  BY <1>1, Invariant, PTL

(* A refusal of a valid policy has fees whose subtraction went below zero. *)
Short ==
  quote = Refused /\ Valid(policy) =>
    \E host \in HostFee(policy, price), provider \in ProviderFee(price) :
      Wrap(Wrap(price - host) - provider) < 0

LEMMA ShortInvariant == Spec => []Short
<1>1. Init => Short
  BY NoneAssumption DEF Init, Short
<1>2. Inv /\ Short /\ [Next]_vars => Short'
  <2> SUFFICES ASSUME Inv, Short, [Next]_vars PROVE Short'
    OBVIOUS
  <2>1. UNCHANGED <<policy, price>>
    BY DEF Next, Refuse, Accept, vars
  <2>2. CASE Refuse
    <3>1. SUFFICES ASSUME Valid(policy)
                   PROVE  \E host \in HostFee(policy, price), provider \in ProviderFee(price) :
                            Wrap(Wrap(price - host) - provider) < 0
      BY <2>1 DEF Short
    <3>2. PICK host \in HostFee(policy, price), provider \in ProviderFee(price) :
            ~(Wrap(Wrap(price - host) - provider) >= 0)
      BY <2>2, <3>1 DEF Refuse, Settles
    <3>3. Wrap(Wrap(price - host) - provider) \in Int
      <4>1. price \in Int /\ provider \in Int
        BY PricesAssumption, ProviderFeeTyped, HalfAssumption DEF Inv, TypeOK
      <4>2. host \in Int
        BY <3>1, HostFeeTyped, HalfAssumption DEF Inv, TypeOK, Int64
      <4>3. QED
        BY <4>1, <4>2, HalfAssumption DEF Wrap
    <3>4. QED
      BY <3>2, <3>3
  <2>3. CASE Accept
    <3>1. quote' # Refused
      BY <2>3, AcceptSound, NoneAssumption DEF Accepted
    <3>2. QED
      BY <3>1 DEF Short
  <2>4. CASE UNCHANGED vars
    BY <2>1, <2>4 DEF Short, vars
  <2>5. QED
    BY <2>2, <2>3, <2>4 DEF Next
<1>3. QED
  BY <1>1, <1>2, Invariant, PTL DEF Spec

(* Nothing that can be paid for is refused. *)
THEOREM RefusalsDeserved == Spec => []RefusedForCause
<1>1. Inv /\ Short => RefusedForCause
  <2> SUFFICES ASSUME Inv, Short, quote = Refused, Valid(policy)
               PROVE  /\ price > 0 /\ policy.type # "free"
                      /\ MostFee \in Int64 =>
                           Clamp(policy, MostFee) + Up(Most(price * 25), Widened(1000)) > price
    BY DEF RefusedForCause
  <2>0. policy \in Policies /\ price \in Prices /\ price \in 0 .. Half - 1
    BY PricesAssumption DEF Inv, TypeOK
  <2>1. PICK host \in HostFee(policy, price), provider \in ProviderFee(price) :
          Wrap(Wrap(price - host) - provider) < 0
    BY DEF Short
  <2>2. provider \in 0 .. price
    BY <2>0, ProviderFeeTyped
  <2>3. host \in Int64
    BY <2>0, HostFeeTyped
  <2>4. host >= 0 => host + provider > price
    <3>1. SUFFICES ASSUME host >= 0 PROVE host + provider > price
      OBVIOUS
    <3>2. host \in 0 .. Half - 1
      BY <2>3, <3>1 DEF Int64
    <3>3. QED
      BY <2>0, <2>1, <2>2, <3>2, NetOfFee, HalfAssumption
  <2>5. price > 0 /\ policy.type # "free"
    BY <2>0, <2>1, <2>2, <2>4, HalfAssumption DEF HostFee
  <2>6. ASSUME MostFee \in Int64
        PROVE  Clamp(policy, MostFee) + Up(Most(price * 25), Widened(1000)) > price
    <3>1. host >= 0 /\ host <= Clamp(policy, MostFee) /\ Clamp(policy, MostFee) \in Int
      <4>1. host >= 0 /\ host \in Clamp(policy, LeastFee) .. Clamp(policy, MostFee)
        BY <2>0, <2>5, <2>6, HostFeeNear
      <4>2. MostFee \in Int /\ LimitsValid(policy)
        BY <2>6, HalfAssumption DEF Int64, Valid
      <4> HIDE DEF MostFee
      <4>3. Clamp(policy, MostFee) \in Int
        BY <2>0, <4>2, ClampMonotone
      <4>4. QED
        BY <2>3, <4>1, <4>3 DEF Int64
    <3>2. /\ Up(Most(price * 25), Widened(1000)) \in Nat
          /\ provider <= Up(Most(price * 25), Widened(1000))
      BY <2>0, <2>1, ProviderFeeTyped
    <3> HIDE DEF MostFee
    <3>3. QED
      BY <2>0, <2>2, <2>3, <2>4, <3>1, <3>2, HalfAssumption DEF Int64
  <2>7. QED
    BY <2>5, <2>6
<1>2. QED
  BY <1>1, Invariant, ShortInvariant, PTL
=============================================================================
