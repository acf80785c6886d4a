---------------------------- MODULE MCFundsCall ----------------------------
(***************************************************************************)
(* Amounts around the boundaries of Validate and of the comparison: the    *)
(* same number with different exponents, five and six decimal places,      *)
(* scientific notation, zero, negative differences, another currency.      *)
(***************************************************************************)
EXTENDS FundsCall

CONSTANTS i1, i2

MCCurrencies == {"GBP", "EUR"}
MCIdents == {i1, i2, NoIdent}
MCKnown == {i1}

N(coef, frac, e) == [num |-> TRUE, coef |-> coef, frac |-> frac, e |-> e]

\* 12, 12.0, 12.00000, 12.000000 (too long), 11.9, 12.1, 0.00001, 1e1, 120e-1,
\* 0, 0.0, -1
Texts ==
    {N(12, 0, 0), N(120, 1, 0), N(1200000, 5, 0), N(12000000, 6, 0), N(119, 1, 0),
     N(121, 1, 0), N(1, 5, 0), N(1, 0, 1), N(120, 0, -1), N(0, 0, 0), N(0, 1, 0),
     N(-1, 0, 0)}

Made == UNION {NewAmount(s, c) : s \in Texts, c \in MCCurrencies}

\* What the funds service can hold: parsed amounts and their differences.
MCAsks == Made \cup UNION {Sub(a, b) : a \in Made, b \in {x \in Made : x.value.exp >= -1}}

MCStored ==
    [indicator : {"Credit", "Debit"},
     amount : [value : {N(12, 0, 0), N(1200, 2, 0), N(0, 0, 0), N(1, 5, 0),
                        N(1, 0, 1), N(12000000, 6, 0)},
               currency : {"GBP"}]]

=============================================================================
