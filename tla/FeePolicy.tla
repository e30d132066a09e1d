----------------------------- MODULE FeePolicy -----------------------------
(***************************************************************************)
(* What CreatePayment charges for one product under one fee policy:        *)
(* FeePolicy.Validate, CalculateHostFee and the settlement check.          *)
(*                                                                         *)
(* Amounts are int64 and wrap; fees are computed in float64 and converted. *)
(* Half is the 2^63 of that width.  A conversion out of range gives what   *)
(* the machine gives (amd64: the least integer, arm64: the nearest one).   *)
(*                                                                         *)
(* A percentage is rounded three times on its way: value / 100, the amount *)
(* as a float64, and their product, each by at most 2^-53 of itself.  The  *)
(* product that the rounding rule sees is off by less than one part in     *)
(* Precision, 2^51 in the code, and may be any number that near: on the    *)
(* other side of an exact boundary (100 times 0.07 is 7.000000000000001),  *)
(* and of amounts beyond 2^51, several units away.  The value of a fixed   *)
(* fee is taken as it is.  A value is a float64 as well, so an integer     *)
(* over a power of two; one under 2^-1000, whose quotient would underflow, *)
(* is left out.                                                            *)
(***************************************************************************)
EXTENDS Integers

CONSTANTS
  Half,     \* int64 holds -Half .. Half - 1
  Precision, \* a float64 fee is exact to one part in Precision
  Scale,    \* FeePolicy.Value is an integer over Scale
  Values,   \* those integers
  Limits,   \* MinFee and MaxFee
  Prices,   \* Product.Price, which Product.Validate keeps from being negative
  Refused,  \* the error a creation is refused with
  None      \* a limit that is not set, a quote not made yet

Int64 == -Half .. Half - 1

Settlements == [host : Int64, provider : Int64, net : Int64]

ASSUME HalfAssumption == Half \in Nat \ {0}
ASSUME PrecisionAssumption == Precision \in Nat \ {0}
ASSUME ScaleAssumption == Scale \in Nat \ {0}
ASSUME PricesAssumption == Prices \subseteq 0 .. Half - 1
ASSUME NoneAssumption ==
  /\ None \notin Int \cup Settlements
  /\ Refused \notin Settlements \cup {None}
ASSUME InputsAssumption ==
  /\ Values \subseteq Int
  /\ Limits \subseteq Int64

Policies ==
  [type : {"percent", "fixed", "free", "unknown"}, value : Values,
   rounding : {"nearest", "floor", "ceil", "", "unknown"},
   min : Limits \cup {None}, max : Limits \cup {None}]

VARIABLES
  policy,  \* the product's, the host's or the default policy
  price,   \* Product.Price
  quote    \* the settlement of the order, Refused, or None

vars == <<policy, price, quote>>

(* The amounts of an accepted order fit their columns. *)
TypeOK ==
  /\ policy \in Policies
  /\ price \in Prices
  /\ quote \in Settlements \cup {Refused, None}

-----------------------------------------------------------------------------
(* Faulty variants of definitions below, each what a plausible slip in the *)
(* code would make of one of them.  Nothing uses them: the mutants of      *)
(* PROJECT.json put one in the place of the definition it varies.          *)

WrapWide(x) == x
SettlesUnchecked(net) == TRUE
SettlesWithProfit(net) == net > 0
AtMostMaxIgnored(p, x) == x
PercentOfPermille(v) == [num |-> v, den |-> 1000 * Scale]

-----------------------------------------------------------------------------
(* Numbers.                                                                *)

Wrap(x) == ((x + Half) % (2 * Half)) - Half

(* int64(x) *)
ToInt64(x) == IF x \in Int64 THEN {x} ELSE {-Half, Half - 1}

(* num / den rounded up *)
Up(num, den) == (num + den - 1) \div den

(* FeePolicy.roundAmount of num / den, both without sign. *)
roundAmount(rule, num, den) ==
  CASE rule = "floor" -> num \div den
    [] rule = "ceil" -> Up(num, den)
    [] OTHER -> (2 * num + den) \div (2 * den)

(* The least and the greatest number that float64 may make of num / den,   *)
(* over the denominator Widened(den).                                      *)
Least(num) == num * (Precision - 1)
Most(num) == num * (Precision + 1)
Widened(den) == den * Precision

Rounded(rule, num, den) ==
  roundAmount(rule, Least(num), Widened(den)) .. roundAmount(rule, Most(num), Widened(den))

-----------------------------------------------------------------------------
(* FeePolicy.Validate *)

LimitsValid(p) ==
  /\ p.min # None => p.min >= 0
  /\ p.max # None => p.max >= 0
  /\ p.min # None /\ p.max # None => p.min <= p.max

Valid(p) ==
  /\ p.value >= 0
  /\ \/ p.type = "percent" /\ p.value <= 100 * Scale
     \/ p.type = "fixed" /\ p.value % Scale = 0
     \/ p.type = "free" /\ p.value = 0
  /\ p.rounding # "unknown"
  /\ LimitsValid(p)

-----------------------------------------------------------------------------
(* FeePolicy.CalculateHostFee of a valid policy *)

PercentOf(v) == [num |-> v, den |-> 100 * Scale]

(* What the rounding rule makes of the fee, before int64() and the limits. *)
RawFee(p, gross) ==
  IF p.type = "percent"
    THEN LET rate == PercentOf(p.value)
         IN Rounded(p.rounding, gross * rate.num, rate.den)
    ELSE {p.value \div Scale}

AtLeastMin(p, x) == IF p.min # None /\ x < p.min THEN p.min ELSE x
AtMostMax(p, x) == IF p.max # None /\ x > p.max THEN p.max ELSE x

Clamp(p, x) == AtMostMax(p, AtLeastMin(p, x))

HostFee(p, gross) ==
  IF gross <= 0 \/ p.type = "free"
    THEN {0}
    ELSE {Clamp(p, x) : x \in UNION {ToInt64(raw) : raw \in RawFee(p, gross)}}

-----------------------------------------------------------------------------
(* The settlement of CreatePayment: a provider fee of 2.5 percent. *)

ProviderFee(gross) == Rounded("nearest", gross * 25, 1000)

Settles(net) == net >= 0

Init ==
  /\ policy \in Policies
  /\ price \in Prices
  /\ quote = None

Refuse ==
  /\ quote = None
  /\ \/ ~Valid(policy)
     \/ /\ Valid(policy)
        /\ \E host \in HostFee(policy, price), provider \in ProviderFee(price) :
             ~Settles(Wrap(Wrap(price - host) - provider))
  /\ quote' = Refused
  /\ UNCHANGED <<policy, price>>

Accept ==
  /\ quote = None
  /\ Valid(policy)
  /\ \E host \in HostFee(policy, price), provider \in ProviderFee(price) :
       LET net == Wrap(Wrap(price - host) - provider) IN
       /\ Settles(net)
       /\ quote' = [host |-> host, provider |-> provider, net |-> net]
  /\ UNCHANGED <<policy, price>>

Next == Refuse \/ Accept

Spec == Init /\ [][Next]_vars

-----------------------------------------------------------------------------
(* Safety.                                                                 *)

Accepted == quote \in Settlements

(* What an order charges adds up: fees and net amount are parts of the     *)
(* gross amount, none is negative, and nothing is lost, also when a fee    *)
(* overflows its conversion and the subtractions wrap.                     *)
SettlementConserved ==
  Accepted =>
    /\ quote.host >= 0 /\ quote.provider >= 0 /\ quote.net >= 0
    /\ quote.host + quote.provider + quote.net = price

(* A fee that is charged respects the limits of its policy; a free policy  *)
(* or a free product is charged none, whatever its limits say.             *)
FeeWithinLimits ==
  Accepted =>
    IF price = 0 \/ policy.type = "free"
      THEN quote.host = 0
      ELSE /\ policy.min # None => quote.host >= policy.min
           /\ policy.max # None => quote.host <= policy.max

(* The exact fee, less and more by one part in Precision. *)
LeastFee ==
  IF policy.type = "percent"
    THEN Least(price * policy.value) \div Widened(100 * Scale)
    ELSE policy.value \div Scale
MostFee ==
  IF policy.type = "percent"
    THEN Up(Most(price * policy.value), Widened(100 * Scale))
    ELSE policy.value \div Scale

(* A fee that int64 can hold is charged to within one unit and one part in *)
(* Precision of the exact fee, or at the limit the exact fee is beyond:    *)
(* rounding, conversion and the order of the limits never move it further, *)
(* and a fixed fee not at all (CalculateHostFee).                          *)
FeeFollowsPolicy ==
  Accepted /\ price > 0 /\ policy.type # "free" /\ MostFee \in Int64 =>
    quote.host \in Clamp(policy, LeastFee) .. Clamp(policy, MostFee)

(* What a customer can pay for is not refused: a creation under a valid    *)
(* policy fails only if the fees, each at most one unit and one part in    *)
(* Precision above what it is exactly, exceed the price, or if the host's  *)
(* may not fit int64; never for a free policy or a free product, and never *)
(* by a wrapped difference (CreatePayment's settlement check).             *)
RefusedForCause ==
  quote = Refused /\ Valid(policy) =>
    /\ price > 0 /\ policy.type # "free"
    /\ MostFee \in Int64 =>
         Clamp(policy, MostFee) + Up(Most(price * 25), Widened(1000)) > price
=============================================================================
