------------------------------- MODULE Amount -------------------------------
(***************************************************************************)
(* pkg/obie/amount.go: money as a shopspring decimal and a currency.       *)
(*                                                                         *)
(* A Decimal is coef * 10^exp.  The same number has many: NewFromString    *)
(* takes "1.50" to 150 * 10^-2, and Validate looks at the exponent, not at *)
(* the number.  A numeral, what is written between the quotes, is its      *)
(* digits as an integer, how many of them follow the point, and the        *)
(* exponent after an "e"; num is FALSE for a text that is no numeral.      *)
(***************************************************************************)
EXTENDS Integers

CONSTANT Currencies \* the codes currencyPattern matches

Decimal == [coef : Int, exp : Int]
Numeral == [num : BOOLEAN, coef : Int, frac : Nat, e : Int]
Amounts == [value : Decimal, currency : Currencies]

MinExp == -5 \* "at most 5 decimal places"

\* Ten[n] is 10^n, written out for the sake of the proofs.
Ten[n \in Nat] == IF n = 0 THEN 1 ELSE 10 * Ten[n - 1]

Lower(i, j) == IF i < j THEN i ELSE j

\* The coefficient of d at the exponent x, no greater than d's own.
CoefAt(d, x) == d.coef * Ten[d.exp - x]

-----------------------------------------------------------------------------
(* The decimal library, as the code uses it.                               *)

NewFromString(s) == [coef |-> s.coef, exp |-> s.e - s.frac]

\* Faulty: the exponents are not brought together.
GteUnscaled(d1, d2) == d1.coef >= d2.coef

Gte(d1, d2) ==
    LET x == Lower(d1.exp, d2.exp) IN CoefAt(d1, x) >= CoefAt(d2, x)

Neg(d) == [d EXCEPT !.coef = -d.coef]

Minus(d1, d2) ==
    LET x == Lower(d1.exp, d2.exp)
    IN [coef |-> CoefAt(d1, x) - CoefAt(d2, x), exp |-> x]

\* Faulty: all the digits that are held are printed, up to six of them.
RenderedPadded(d) ==
    [num |-> TRUE, coef |-> CoefAt(d, Lower(d.exp, -6)),
     frac |-> -Lower(d.exp, -6), e |-> 0]

\* Faulty: a positive exponent is not written out.
RenderedExponentLost(d) == [num |-> TRUE, coef |-> d.coef, frac |-> -d.exp, e |-> 0]

\* String: no exponent, and no zeros at the end of the fraction.
Rendered(d) ==
    IF d.exp >= 0 THEN [num |-> TRUE, coef |-> CoefAt(d, 0), frac |-> 0, e |-> 0]
    ELSE LET zeros == {z \in 0..(-d.exp) : d.coef % Ten[z] = 0}
             z == CHOOSE z \in zeros : \A y \in zeros : y <= z
         IN [num |-> TRUE, coef |-> d.coef \div Ten[z], frac |-> -d.exp - z, e |-> 0]

-----------------------------------------------------------------------------
(* amount.go                                                               *)

Validate(a) == a.currency \in Currencies /\ a.value.exp >= MinExp

\* The amount made of a text and a code, if there is one: {} is an error.
NewAmount(s, currency) ==
    {a \in {[value |-> NewFromString(s), currency |-> currency]} :
        s.num /\ Validate(a)}

\* GreaterThanOrEqual; {} is the currency mismatch.
GreaterThanOrEqual(a, other) ==
    {b \in {Gte(a.value, other.value)} : a.currency = other.currency}

Sub(a, other) ==
    {d \in {[value |-> Minus(a.value, other.value), currency |-> a.currency]} :
        a.currency = other.currency}

\* What goes on the wire, in JSON (MarshalJSON) and in the query of accountscli.
Wire(a) == [value |-> Rendered(a.value), currency |-> a.currency]

\* UnmarshalJSON, and the handler's reading of the query.
FromWire(w) == NewAmount(w.value, w.currency)

=============================================================================
