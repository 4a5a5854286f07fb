------------------------------ MODULE WinProb -------------------------------
(***************************************************************************)
(* WinningProbability (src/internal/tickets.rs): seven bytes that are read *)
(* as an integer, the luck a ticket is compared with, and as a float whose *)
(* mantissa is all but the last four bits of it.  And the products and     *)
(* quotients of amounts with such floats (src/primitive/primitives.rs).    *)
(*                                                                         *)
(* A float of [0, 1] is an integer, the float times Unit: its mantissa has *)
(* Bits bits, so that above 1/2 the floats are Unit \div 2^Bits apart, and *)
(* below they are closer, down to 1/Unit.  A float of [1, 2) is told by    *)
(* its mantissa, the f64 by the integers q of 0 .. 2^Bits with 2^Bits for  *)
(* 2.0.                                                                    *)
(***************************************************************************)
EXTENDS Integers, FiniteSets

CONSTANTS
    Bits,       \* bits of a mantissa (52)
    Extra,      \* bits of the floats near zero that a mantissa after the 1 does not have
    Epsilon,    \* WinningProbability::EPSILON, times Unit
    MaxU256   \* the largest U256

Pow == 2 ^ Bits
Ulp == 2 ^ Extra
Unit == Pow * Ulp
Cut == 16
MaxLuck == Pow * Cut - 1

\* Two units of precision are well within EPSILON, so that f64_approx_eq is a
\* comparison with EPSILON alone.
ASSUME FloatAssumption ==
    /\ Bits \in Nat \ {0} /\ Extra \in Nat \ {0} /\ MaxU256 \in Nat
    /\ Epsilon \in Nat /\ 2 * Ulp <= Epsilon /\ 4 * Epsilon < Unit

\* Powers of two, which a proof has to be told of.
ASSUME PowersAssumption == Pow \in Nat \ {0} /\ Ulp \in Nat \ {0}

\* The floats of [0, 1]: with at most Bits + 1 significant bits.
Float == {x \in 0 .. Unit : \A e \in 1 .. Extra : x > 2 ^ (Bits + e) => x % 2 ^ e = 0}

Distance(a, b) == IF a < b THEN b - a ELSE a - b

\* f64_approx_eq
ApproxEq(a, b) == Distance(a, b) <= Epsilon

\* x + 1.0, rounded to a mantissa, ties to even.
PlusOne(x) ==
    LET q == x \div Ulp
        rest == 2 * (x % Ulp)
    IN  IF rest > Ulp \/ (rest = Ulp /\ q % 2 = 1) THEN q + 1 ELSE q

\* The bits of the mantissa of a float of [1, 2]; those of 2.0 are zero.
MantissaBits(q) == q % Pow

-----------------------------------------------------------------------------
(* WinningProbability, which is its luck                                    *)

NEVER == 0
ALWAYS == MaxLuck
Luck == 0 .. MaxLuck

\* A slip: the tail is not rounded up before it is cut off.
AsF64NoCarry(p) ==
    IF p = NEVER THEN 0
    ELSE IF p = ALWAYS THEN Unit
    ELSE (p \div Cut) * Ulp

\* as_f64
AsF64(p) ==
    IF p = NEVER THEN 0
    ELSE IF p = ALWAYS THEN Unit
    ELSE ((p + 1) \div Cut) * Ulp

\* A slip: the probability is not snapped to 1, and 2.0 has no mantissa.
TryFromF64NoSnap(x) ==
    IF ApproxEq(0, x) THEN NEVER
    ELSE (MantissaBits(PlusOne(x)) - 1) * Cut + Cut - 1

\* try_from_f64 of a float of [0, 1]; other floats are refused.
TryFromF64(x) ==
    IF ApproxEq(0, x) THEN NEVER
    ELSE IF ApproxEq(Unit, x) THEN ALWAYS
    ELSE (MantissaBits(PlusOne(x)) - 1) * Cut + Cut - 1

\* approx_cmp
ApproxLess(p, q) == ~ApproxEq(AsF64(p), AsF64(q)) /\ AsF64(p) < AsF64(q)
ApproxEqual(p, q) == ApproxEq(AsF64(p), AsF64(q))

\* A slip: the branches are swapped.
MinIsMax(p, q) == IF ApproxLess(p, q) THEN q ELSE p

\* min and max: other, unless self is clearly less or greater.
MinProb(p, q) == IF ApproxLess(p, q) THEN p ELSE q
MaxProb(p, q) == IF ApproxLess(q, p) THEN p ELSE q

\* A slip: the comparison is strict.
WinsStrictly(luck, p) == luck < p

\* check_ticket_win
Wins(luck, p) == luck <= p

-----------------------------------------------------------------------------
(* UnitaryFloatOps of U256, by a float of [0, 1]                            *)

Panic == -1
InvalidInput == -2

\* (rhs + 1.0 + f64::EPSILON): below 2.0 the next mantissa, 2.0 stays 2.0.
PlusOneAndEpsilon(x) == IF PlusOne(x) < Pow THEN PlusOne(x) + 1 ELSE Pow

\* mul_f64; the product of two U256 panics when it overflows.
MulF64(a, x) ==
    IF x = Unit THEN a
    ELSE IF x = 0 THEN 0
    ELSE LET product == a * MantissaBits(PlusOneAndEpsilon(x))
         IN  IF product > MaxU256 THEN Panic ELSE product \div Pow

\* A slip: the special case of 1 is forgotten.
DivF64NoOne(a, x) ==
    IF x = 0 THEN InvalidInput
    ELSE LET nom == (a * Pow) % (MaxU256 + 1)
             denom == MantissaBits(PlusOne(x))
         IN  IF denom = 0 THEN Panic ELSE nom \div denom

\* div_f64; the shift loses the bits above the width, a denominator of zero panics.
DivF64(a, x) ==
    IF x = 0 THEN InvalidInput
    ELSE IF x = Unit THEN a
    ELSE LET nom == (a * Pow) % (MaxU256 + 1)
             denom == MantissaBits(PlusOne(x))
         IN  IF denom = 0 THEN Panic ELSE nom \div denom

-----------------------------------------------------------------------------
\* A probability made of a float is the float again up to EPSILON, and a larger float does
\* not make a smaller luck: try_from_f64 and as_f64 shift, round and snap in places of
\* their own.
ProbabilityKept(x, y) ==
    /\ TryFromF64(x) \in Luck
    /\ Distance(AsF64(TryFromF64(x)), x) <= Epsilon
    /\ x <= y => TryFromF64(x) <= TryFromF64(y)

\* check_ticket_win decides by the luck what as_f64 tells of a probability: of the lucks at
\* least as many win as the float says, and less than one unit of the mantissa more.
WinsAsOften(p) ==
    LET winners == Ulp * Cardinality({luck \in Luck : Wins(luck, p)})
        told == Cut * AsF64(p)
    IN  told <= winners /\ winners < told + Ulp * Cut

\* approx_cmp, lex_cmp, min and max: the approximate order never contradicts the one of the
\* lucks, and min and max are right up to EPSILON in whatever order they are asked.
ComparisonsAgree(p, q) ==
    /\ ApproxLess(p, q) => p < q
    /\ p = q => ApproxEqual(p, q)
    /\ \A r \in {MinProb(p, q), MinProb(q, p)} :
          r \in {p, q} /\ AsF64(r) <= AsF64(p) + Epsilon /\ AsF64(r) <= AsF64(q) + Epsilon
    /\ \A r \in {MaxProb(p, q), MaxProb(q, p)} :
          r \in {p, q} /\ AsF64(p) <= AsF64(r) + Epsilon /\ AsF64(q) <= AsF64(r) + Epsilon

\* div_f64: dividing an amount by what as_f64 says of a probability never panics, is refused
\* for zero only, and as long as no bits are lost gives what multiplied with the
\* probability is the amount again but for the rounding.
QuotientsDefined(a, p) ==
    LET q == DivF64(a, AsF64(p))
    IN  /\ q # Panic
        /\ q = InvalidInput <=> AsF64(p) = 0
        /\ q # InvalidInput /\ a * Pow <= MaxU256 =>
              /\ q * AsF64(p) <= a * Unit
              /\ a * Unit < (q + 1) * AsF64(p)

\* mul_f64 ("Multiply with float in the interval [0.0, 1.0]", src/primitive/traits.rs:125):
\* the product is never less than the true one rounded down, for amounts that do not
\* overflow.
ProductNotLess(a, x) ==
    MulF64(a, x) # Panic => (a * x) \div Unit <= MulF64(a, x)
=============================================================================
