------------------------------ MODULE Amounts -------------------------------
(***************************************************************************)
(* Balance and Currency (src/primitive/balance.rs): amounts of a currency  *)
(* in its smallest unit, with saturating arithmetic, printed in units of   *)
(* 10^SCALE and read back.                                                 *)
(*                                                                         *)
(* A text is told apart by what the regular expression captures: the       *)
(* number with its integer part and the digits behind the point, whether   *)
(* there is a wei prefix, and the name of the currency.                    *)
(***************************************************************************)
EXTENDS Integers, Sequences, SequencesExt

CONSTANTS
    MaxAmount,  \* the largest U256
    Scale,      \* SCALE of the currencies (18)
    Currency    \* their names

\* The results of a text that cannot be parsed and of an overflow that is not handled.
ParseError == -1
Overflow == -2

Amount == 0 .. MaxAmount
Digit == 0 .. 9

Saturated(n) == IF n > MaxAmount THEN MaxAmount ELSE IF n < 0 THEN 0 ELSE n

\* A slip: the sum wraps around.
AddWrapping(a, b) == (a + b) % (MaxAmount + 1)

\* Add, AddAssign, Sub, SubAssign, Mul and MulAssign, of a balance or of a U256
Add(a, b) == Saturated(a + b)
Sub(a, b) == Saturated(a - b)
Mul(a, b) == Saturated(a * b)

\* Sum
SumOf(amounts) == FoldLeft(Add, 0, amounts)

\* new_base multiplies without saturating: too large a value panics.
NewBase(v) == IF v * 10 ^ Scale > MaxAmount THEN Overflow ELSE v * 10 ^ Scale

-----------------------------------------------------------------------------
(* Printing and parsing                                                     *)

\* name_matches of the currencies; upper and lower case are one name.
NameMatches(name, currency) == name = currency

Text == [integer : Nat, fraction : Seq(Digit), wei : BOOLEAN, name : Currency]

\* The last Scale digits of an amount, the first of them first.
Fraction(a) == [i \in 1 .. Scale |-> (a \div 10 ^ (Scale - i)) % 10]

\* A slip: zeros are trimmed on both sides.
TrimmedBoth(digits) == SelectSeq(digits, LAMBDA d : d # 0)

\* trim_end_matches('0')
Trimmed(digits) == SubSeq(digits, 1, SelectLastInSeq(digits, LAMBDA d : d # 0))

\* Display and Debug: amount_in_base_units and the name
Displayed(a, currency) ==
    [integer |-> a \div 10 ^ Scale, fraction |-> Trimmed(Fraction(a)),
     wei |-> FALSE, name |-> currency]

\* format_in_wei
FormatInWei(a, currency) ==
    [integer |-> a, fraction |-> <<>>, wei |-> TRUE, name |-> currency]

\* The number of a text times 10^places, without the digits behind that.
Scaled(text, places) ==
    LET digits == [i \in 1 .. places |->
                      IF i <= Len(text.fraction) THEN text.fraction[i] ELSE 0]
    IN  FoldLeft(LAMBDA n, d : 10 * n + d, text.integer, digits)

\* FromStr: the name first; a number without wei is in units, and what is behind the
\* smallest unit is cut off.
Parse(text, currency) ==
    LET value == Scaled(text, IF text.wei THEN 0 ELSE Scale)
    IN  IF ~NameMatches(text.name, currency) \/ value > MaxAmount THEN ParseError ELSE value

-----------------------------------------------------------------------------
\* A sum saturates at the bounds of U256 wherever in it the overflow is, so that the order
\* of its parts does not matter, equal parts make a product, and taking away what was added
\* gives back no more than there was.
SumsSaturate(amounts) ==
    LET exact == FoldLeft(LAMBDA n, a : n + a, 0, amounts)
    IN  /\ SumOf(amounts) = (IF exact > MaxAmount THEN MaxAmount ELSE exact)
        /\ SumOf(Reverse(amounts)) = SumOf(amounts)
        /\ (\A i \in DOMAIN amounts : amounts[i] = amounts[1]) =>
              amounts = <<>> \/ SumOf(amounts) = Mul(amounts[1], Len(amounts))
        /\ \A i \in DOMAIN amounts :
              Sub(SumOf(amounts), amounts[i]) <= SumOf(RemoveAt(amounts, i))

\* Display, format_in_wei and FromStr: a printed balance is read back as the same amount by
\* its own currency and refused by the others, in units as in wei.
PrintedAmountsParse(a, currency, other) ==
    LET read(text) == Parse(text, other)
        expected == IF other = currency THEN a ELSE ParseError
    IN  /\ read(Displayed(a, currency)) = expected /\ read(FormatInWei(a, currency)) = expected
        /\ NewBase(a) # Overflow => Displayed(NewBase(a), currency) = [FormatInWei(a, currency)
                                                                        EXCEPT !.wei = FALSE]

\* FromStr: digits behind the smallest unit are cut off and never rounded up, so that no
\* text makes more than it says; a text whose amount is too large is refused.
ParsedNotMore(text, currency) ==
    LET value == Parse(text, currency)
        said == Scaled(text, Len(text.fraction))
    IN  value # ParseError /\ ~text.wei =>
            value * 10 ^ Len(text.fraction) <= said * 10 ^ Scale
=============================================================================
