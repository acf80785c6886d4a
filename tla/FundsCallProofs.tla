-------------------------- MODULE FundsCallProofs --------------------------
(***************************************************************************)
(* The funds confirmation for any amounts and identifications: whatever    *)
(* the network does, the handler understands the query the client prints,  *)
(* "no such account" stays apart from "no funds" on the whole way, and a   *)
(* yes or a no is the truth about the two numbers.                         *)
(*                                                                         *)
(* The numbers are compared in units of 10^MinExp; the laws of the powers  *)
(* of ten are inductions over sets of naturals (module Inductions).        *)
(***************************************************************************)
EXTENDS FundsCall, Inductions

-----------------------------------------------------------------------------
(* Powers of ten.                                                          *)

\* Ten is the recursion it is written as.
LEMMA TenDef ==
    /\ Ten \in [Nat -> Nat]
    /\ Ten[0] = 1
    /\ \A n \in Nat \ {0} : Ten[n] = 10 * Ten[n - 1]
<1> DEFINE Is(f) == f = [n \in Nat |-> IF n = 0 THEN 1 ELSE 10 * f[n - 1]]
<1>1. PICK f \in [Nat -> Nat] : f[0] = 1 /\ \A n \in Nat \ {0} : f[n] = 10 * f[n - 1]
  <2>1. PICK step : step = [k \in Nat |-> [v \in Nat |-> 10 * v]]
    OBVIOUS
  <2>2. \A v \in Nat, k \in Nat : step[k][v] \in Nat
    BY <2>1
  <2>3. PICK f : IsRecursion(f, Nat, 1, step)
    <3>1. 1 \in Nat
      OBVIOUS
    <3> QED
      BY <2>2, <3>1, Recursion
  <2>4. ASSUME NEW n \in Nat \ {0}
        PROVE  f[n] = 10 * f[n - 1]
    <3>1. n \in Nat /\ f[n - 1] \in Nat
      BY <2>3 DEF IsRecursion
    <3>2. f[n] = step[n][f[n - 1]]
      BY <2>3 DEF IsRecursion
    <3> QED
      BY <2>1, <3>1, <3>2
  <2> QED
    BY <2>3, <2>4 DEF IsRecursion
<1>2. Is(f)
  BY <1>1
<1>3. Is(Ten)
  <2>1. Ten = CHOOSE g : Is(g)
    BY DEF Ten
  <2> HIDE DEF Is
  <2> QED
    BY <1>2, <2>1
<1>4. /\ Ten[0] = 1
      /\ \A n \in Nat \ {0} : Ten[n] = 10 * Ten[n - 1]
  BY <1>3
<1>5. Ten \in [Nat -> Nat]
  <2> DEFINE S == {n \in Nat : Ten[n] \in Nat}
  <2>1. 0 \in S /\ \A n \in Nat : n \in S => n + 1 \in S
    <3>1. ASSUME NEW n \in Nat, Ten[n] \in Nat
          PROVE  Ten[n + 1] \in Nat
      <4>1. Ten[n + 1] = 10 * Ten[n]
        BY <1>4
      <4> QED
        BY <3>1, <4>1
    <3> QED
      BY <1>4, <3>1
  <2>2. Nat \subseteq S
    <3> HIDE DEF S
    <3> QED
      BY <2>1, Induction
  <2> QED
    BY <1>3, <2>2
<1> QED
  BY <1>4, <1>5

LEMMA TenPositive == \A n \in Nat : Ten[n] \in Nat \ {0}
<1> DEFINE S == {n \in Nat : Ten[n] # 0}
<1>1. 0 \in S
  BY TenDef
<1>2. ASSUME NEW n \in Nat, n \in S
      PROVE  n + 1 \in S
  <2>1. Ten[n + 1] = 10 * Ten[n] /\ Ten[n] \in Nat
    BY TenDef
  <2> QED
    BY <1>2, <2>1
<1>3. Nat \subseteq S
  <2> HIDE DEF S
  <2> QED
    BY <1>1, <1>2, Induction
<1> QED
  BY <1>3, TenDef

LEMMA TenSum ==
    ASSUME NEW m \in Nat, NEW n \in Nat
    PROVE  Ten[m + n] = Ten[m] * Ten[n]
<1> DEFINE S == {k \in Nat : Ten[m + k] = Ten[m] * Ten[k]}
<1>1. 0 \in S
  BY TenDef
<1>2. ASSUME NEW k \in Nat, k \in S
      PROVE  k + 1 \in S
  <2>1. Ten[m + (k + 1)] = 10 * Ten[m + k]
    BY TenDef
  <2>2. Ten[k + 1] = 10 * Ten[k]
    BY TenDef
  <2>3. Ten[m] \in Nat /\ Ten[k] \in Nat
    BY TenDef
  <2>4. 10 * (Ten[m] * Ten[k]) = Ten[m] * (10 * Ten[k])
    BY <2>3
  <2> QED
    BY <1>2, <2>1, <2>2, <2>4
<1>3. Nat \subseteq S
  <2> HIDE DEF S
  <2> QED
    BY <1>1, <1>2, Induction
<1> QED
  BY <1>3

LEMMA ScaleKeepsOrder ==
    ASSUME NEW x \in Int, NEW y \in Int, NEW p \in Nat \ {0}
    PROVE  x >= y <=> x * p >= y * p
<1>1. ASSUME NEW d \in Nat
      PROVE  d * p >= 0 /\ (d # 0 => d * p > 0)
  OBVIOUS
<1>2. CASE x >= y
  <2>1. x - y \in Nat /\ (x - y) * p = x * p - y * p
    BY <1>2
  <2>2. (x - y) * p >= 0
    BY <1>1, <2>1
  <2> QED
    BY <1>2, <2>1, <2>2
<1>3. CASE x < y
  <2>1. y - x \in Nat /\ y - x # 0 /\ (y - x) * p = y * p - x * p
    BY <1>3
  <2>2. (y - x) * p > 0
    BY <1>1, <2>1
  <2> QED
    BY <1>3, <2>1, <2>2
<1> QED
  BY <1>2, <1>3

LEMMA DivisionIsExact ==
    ASSUME NEW c \in Int, NEW p \in Nat \ {0}, c % p = 0
    PROVE  c \div p \in Int /\ c = (c \div p) * p
<1>1. c \div p \in Int
  OBVIOUS
<1>2. c = (c \div p) * p
  OBVIOUS
<1> QED
  BY <1>1, <1>2

-----------------------------------------------------------------------------
(* Amounts as numbers.                                                     *)

\* Decimals of which Whole is the number.
Placed(d) == d \in Decimal /\ d.exp >= MinExp

LEMMA WholeType == ASSUME NEW d, Placed(d) PROVE Whole(d) \in Int
<1>1. d.coef \in Int /\ d.exp \in Int /\ d.exp - MinExp \in Nat
  BY DEF Placed, Decimal, MinExp
<1> QED
  BY <1>1, TenDef DEF Whole

\* A decimal rescaled to fewer units is the same number.
LEMMA WholeOfCoef ==
    ASSUME NEW d, Placed(d), NEW x \in Int, MinExp <= x, x <= d.exp
    PROVE  /\ CoefAt(d, x) \in Int
           /\ Whole(d) = CoefAt(d, x) * Ten[x - MinExp]
<1>1. d.coef \in Int /\ d.exp \in Int
  BY DEF Placed, Decimal
<1>2. d.exp - x \in Nat /\ x - MinExp \in Nat
  BY <1>1 DEF MinExp
<1>3. d.exp - MinExp = (d.exp - x) + (x - MinExp)
  BY <1>1 DEF MinExp
<1>4. Ten[d.exp - MinExp] = Ten[d.exp - x] * Ten[x - MinExp]
  BY <1>2, <1>3, TenSum
<1>5. Ten[d.exp - x] \in Nat /\ Ten[x - MinExp] \in Nat
  BY <1>2, TenDef
<1>6. d.coef * (Ten[d.exp - x] * Ten[x - MinExp]) = (d.coef * Ten[d.exp - x]) * Ten[x - MinExp]
  BY <1>1, <1>5
<1> QED
  BY <1>1, <1>4, <1>5, <1>6 DEF Whole, CoefAt

\* GreaterThanOrEqual of the decimal library compares the numbers, whatever
\* the exponents they are held with.
THEOREM GteIsExact ==
    ASSUME NEW d1, NEW d2, Placed(d1), Placed(d2)
    PROVE  Gte(d1, d2) <=> Whole(d1) >= Whole(d2)
<1> DEFINE x == Lower(d1.exp, d2.exp)
<1>1. x \in Int /\ MinExp <= x /\ x <= d1.exp /\ x <= d2.exp
  BY DEF Placed, Decimal, Lower, MinExp
<1>2. Gte(d1, d2) <=> CoefAt(d1, x) >= CoefAt(d2, x)
  BY DEF Gte
<1> HIDE DEF x
<1>3. /\ CoefAt(d1, x) \in Int /\ Whole(d1) = CoefAt(d1, x) * Ten[x - MinExp]
      /\ CoefAt(d2, x) \in Int /\ Whole(d2) = CoefAt(d2, x) * Ten[x - MinExp]
  BY <1>1, WholeOfCoef
<1>4. Ten[x - MinExp] \in Nat \ {0}
  BY <1>1, TenPositive DEF MinExp
<1> QED
  BY <1>2, <1>3, <1>4, ScaleKeepsOrder

\* Sub is the difference of the numbers, and keeps within MinExp.
THEOREM SubIsExact ==
    ASSUME NEW a, NEW b, Placed(a.value), Placed(b.value), NEW d \in Sub(a, b)
    PROVE  Placed(d.value) /\ Whole(d.value) = Whole(a.value) - Whole(b.value)
<1> DEFINE x == Lower(a.value.exp, b.value.exp)
           p == CoefAt(a.value, x)
           q == CoefAt(b.value, x)
<1>1. x \in Int /\ MinExp <= x /\ x <= a.value.exp /\ x <= b.value.exp
  BY DEF Placed, Decimal, Lower, MinExp
<1>2. d.value = [coef |-> p - q, exp |-> x]
  BY DEF Sub, Minus
<1> HIDE DEF x
<1>3. /\ p \in Int /\ Whole(a.value) = p * Ten[x - MinExp]
      /\ q \in Int /\ Whole(b.value) = q * Ten[x - MinExp]
  BY <1>1, WholeOfCoef
<1>4. Ten[x - MinExp] \in Nat
  BY <1>1, TenPositive DEF MinExp
<1> HIDE DEF p, q
<1>5. Placed(d.value)
  BY <1>1, <1>2, <1>3 DEF Placed, Decimal
<1>6. Whole(d.value) = (p - q) * Ten[x - MinExp]
  BY <1>2 DEF Whole
<1>7. (p - q) * Ten[x - MinExp] = p * Ten[x - MinExp] - q * Ten[x - MinExp]
  BY <1>3, <1>4
<1> QED
  BY <1>3, <1>5, <1>6, <1>7

\* So is the sign that a Debit gives a balance.
LEMMA NegIsExact ==
    ASSUME NEW d, Placed(d)
    PROVE  Placed(Neg(d)) /\ Whole(Neg(d)) = -1 * Whole(d)
<1>1. d.coef \in Int /\ d.exp \in Int /\ d.exp - MinExp \in Nat
  BY DEF Placed, Decimal, MinExp
<1>2. Neg(d) \in Decimal /\ Neg(d).coef = -d.coef /\ Neg(d).exp = d.exp
  BY DEF Neg, Placed, Decimal
<1>3. Ten[d.exp - MinExp] \in Nat
  BY <1>1, TenDef
<1>4. (-d.coef) * Ten[d.exp - MinExp] = -1 * (d.coef * Ten[d.exp - MinExp])
  BY <1>1, <1>3
<1> QED
  BY <1>2, <1>4 DEF Whole, Placed

\* The text of a decimal, if there is one that NewAmount accepts, is a number.
LEMMA ParsedIsPlaced ==
    ASSUME NEW s \in Numeral, NEW c, NEW a \in NewAmount(s, c)
    PROVE  /\ a = [value |-> NewFromString(s), currency |-> c]
           /\ Placed(a.value)
BY DEF NewAmount, Validate, NewFromString, Numeral, Placed, Decimal

\* What String prints is a numeral for the same number, with no exponent and no
\* more places than the decimal holds.
THEOREM RenderedIsExact ==
    ASSUME NEW d, Placed(d)
    PROVE  /\ Rendered(d) \in Numeral /\ Rendered(d).num
           /\ Placed(NewFromString(Rendered(d)))
           /\ Whole(NewFromString(Rendered(d))) = Whole(d)
<1>1. d.exp \in Int /\ d.coef \in Int /\ d.exp >= MinExp
  BY DEF Placed, Decimal
<1>2. CASE d.exp >= 0
  <2>1. CoefAt(d, 0) \in Int /\ Whole(d) = CoefAt(d, 0) * Ten[0 - MinExp]
    BY <1>1, <1>2, WholeOfCoef DEF MinExp
  <2>2. Rendered(d) = [num |-> TRUE, coef |-> CoefAt(d, 0), frac |-> 0, e |-> 0]
    BY <1>2 DEF Rendered
  <2>3. Rendered(d) \in Numeral
    BY <2>1, <2>2 DEF Numeral
  <2>4. NewFromString(Rendered(d)) = [coef |-> CoefAt(d, 0), exp |-> 0]
    BY <2>2 DEF NewFromString
  <2> QED
    BY <2>1, <2>2, <2>3, <2>4 DEF Placed, Decimal, MinExp, Whole
<1>3. CASE d.exp < 0
  <2> DEFINE zeros == {z \in 0..(-d.exp) : d.coef % Ten[z] = 0}
             z0 == CHOOSE z \in zeros : \A y \in zeros : y <= z
             c0 == d.coef \div Ten[z0]
  <2>1. 0 \in zeros
    BY <1>1, <1>3, TenDef
  <2>2. \E z \in zeros : \A y \in zeros : y <= z
    <3>1. zeros \in SUBSET (0..(-d.exp))
      OBVIOUS
    <3>2. -d.exp \in Nat
      BY <1>1, <1>3
    <3> HIDE DEF zeros
    <3> QED
      BY <2>1, <3>1, <3>2, Greatest
  <2>3. z0 \in 0..(-d.exp) /\ d.coef % Ten[z0] = 0
    <3>1. z0 \in zeros
      BY <2>2
    <3> QED
      BY <3>1
  <2>4. Rendered(d) = [num |-> TRUE, coef |-> c0, frac |-> -d.exp - z0, e |-> 0]
    BY <1>1, <1>3 DEF Rendered
  <2> HIDE DEF z0
  <2>5. z0 \in Nat /\ Ten[z0] \in Nat \ {0} /\ -d.exp - z0 \in Nat
    BY <1>1, <2>3, TenPositive
  <2>6. c0 \in Int /\ d.coef = c0 * Ten[z0]
    BY <1>1, <2>3, <2>5, DivisionIsExact
  <2> HIDE DEF c0
  <2>7. Rendered(d) \in Numeral /\ Rendered(d).num
    BY <2>4, <2>5, <2>6 DEF Numeral
  <2>8. NewFromString(Rendered(d)) = [coef |-> c0, exp |-> 0 - (-d.exp - z0)]
    BY <2>4 DEF NewFromString
  <2>9. 0 - (-d.exp - z0) = d.exp + z0 /\ d.exp + z0 \in Int /\ d.exp + z0 >= MinExp
    BY <1>1, <2>5 DEF MinExp
  <2>10. Placed(NewFromString(Rendered(d)))
    BY <2>6, <2>8, <2>9 DEF Placed, Decimal
  <2>11. Whole(NewFromString(Rendered(d))) = c0 * Ten[(d.exp + z0) - MinExp]
    BY <2>8, <2>9 DEF Whole
  <2>12. Ten[(d.exp + z0) - MinExp] = Ten[z0] * Ten[d.exp - MinExp]
    <3>1. (d.exp + z0) - MinExp = z0 + (d.exp - MinExp) /\ d.exp - MinExp \in Nat
      BY <1>1, <2>5 DEF MinExp
    <3> QED
      BY <2>5, <3>1, TenSum
  <2>13. c0 * (Ten[z0] * Ten[d.exp - MinExp]) = (c0 * Ten[z0]) * Ten[d.exp - MinExp]
    <3>1. Ten[d.exp - MinExp] \in Nat
      BY <1>1, TenDef DEF MinExp
    <3> QED
      BY <2>5, <2>6, <3>1
  <2> QED
    BY <2>6, <2>7, <2>10, <2>11, <2>12, <2>13 DEF Whole
<1> QED
  BY <1>1, <1>2, <1>3

\* The print of an amount, if it parses, parses to the same number; and the
\* print of a valid amount parses.
LEMMA PrintParses ==
    ASSUME NEW a, Placed(a.value)
    PROVE  /\ Wire(a).value \in Numeral
           /\ \A b \in FromWire(Wire(a)) :
                 /\ Placed(b.value) /\ Whole(b.value) = Whole(a.value)
                 /\ b.currency = a.currency
           /\ Validate(a) => FromWire(Wire(a)) # {}
<1> DEFINE s == Rendered(a.value)
           b == [value |-> NewFromString(s), currency |-> a.currency]
<1>1. /\ s \in Numeral /\ s.num /\ Placed(NewFromString(s))
      /\ Whole(NewFromString(s)) = Whole(a.value)
  BY RenderedIsExact
<1>2. Wire(a).value = s /\ FromWire(Wire(a)) = NewAmount(s, a.currency)
  BY DEF FromWire, Wire
<1> HIDE DEF s
<1>3. \A x \in NewAmount(s, a.currency) : x = b
  BY DEF NewAmount
<1>4. ASSUME Validate(a)
      PROVE  b \in NewAmount(s, a.currency)
  <2>1. Validate(b)
    BY <1>1, <1>4 DEF Validate, Placed
  <2> QED
    BY <1>1, <2>1 DEF NewAmount
<1> QED
  BY <1>1, <1>2, <1>3, <1>4

-----------------------------------------------------------------------------
(* The exchange.                                                           *)

\* What a yes should mean.
Covered(a) ==
    row # NoRow /\ row.amount.currency = a.currency /\ Worth(row) >= Whole(a.value)

\* What an answer says of the call it answers.
Truthful(q, r) ==
    /\ r.code = 400 => q.ident = NoIdent \/ FromWire(Wire(q.amount)) = {}
    /\ r.code = 404 => q.ident \notin Known
    /\ r.code = 200 => q.ident \in Known /\ (r.funds <=> Covered(q.amount))

IInv ==
    /\ TypeOK
    /\ request = [ident |-> ask.ident, amount |-> Wire(ask.amount)]
    /\ Placed(ask.amount.value)
    /\ Truthful(ask, reply)
    /\ outcome = "ErrAccountNotFound" => ask.ident \notin Known
    /\ outcome \in {"yes", "no"} =>
          ask.ident \in Known /\ (outcome = "yes" <=> Covered(ask.amount))

\* What the repository makes of a row is the row's worth.
LEMMA AvailableIsWorth ==
    ASSUME row \in Stored, NEW v \in Available(row)
    PROVE  v.currency = row.amount.currency /\ Placed(v.value) /\ Whole(v.value) = Worth(row)
<1> DEFINE n == NewFromString(row.amount.value)
           sign == IF row.indicator = "Debit" THEN -1 ELSE 1
<1>1. PICK b \in Parsed(row) : v = Signed(row, b)
  BY CallAssumption DEF Available
<1>2. b = [value |-> n, currency |-> row.amount.currency] /\ Placed(n)
  BY CallAssumption, ParsedIsPlaced DEF Parsed
<1>3. Worth(row) = sign * Whole(n) /\ Whole(n) \in Int
  BY <1>2, WholeType DEF Worth
<1> HIDE DEF n
<1>4. CASE row.indicator = "Debit"
  <2>1. v.value = Neg(n) /\ v.currency = row.amount.currency
    BY <1>1, <1>2, <1>4 DEF Signed
  <2>2. Worth(row) = -1 * Whole(n)
    <3>1. sign = -1
      BY <1>4
    <3> HIDE DEF sign
    <3> QED
      BY <1>3, <3>1
  <2> QED
    BY <1>2, <2>1, <2>2, NegIsExact
<1>5. CASE row.indicator # "Debit"
  <2>1. v = b
    BY <1>1, <1>5 DEF Signed
  <2>2. Worth(row) = Whole(n)
    <3>1. sign = 1
      BY <1>5
    <3> HIDE DEF sign
    <3> QED
      BY <1>3, <3>1
  <2> QED
    BY <1>2, <2>1, <2>2
<1> QED
  BY <1>4, <1>5

\* The comparison of what was parsed from the query and from the row is the
\* comparison of the numbers at the two ends.
LEMMA EnoughIsExact ==
    ASSUME row \in Stored \cup {NoRow}, NEW q, Placed(q.value),
           NEW a \in FromWire(Wire(q)), NEW v \in Available(row)
    PROVE  Enough(v, a) <=> Covered(q)
<1>1. Placed(a.value) /\ Whole(a.value) = Whole(q.value) /\ a.currency = q.currency
  BY PrintParses
<1>2. Enough(v, a) <=> Gte(v.value, a.value) /\ v.currency = a.currency
  <2>1. Enough(v, a) <=> TRUE \in {c \in {Gte(v.value, a.value)} : v.currency = a.currency}
    BY DEF Enough, GreaterThanOrEqual
  <2>2. Gte(v.value, a.value) \in BOOLEAN
    BY DEF Gte
  <2> QED
    BY <2>1, <2>2
<1>3. CASE row = NoRow
  <2>1. v.currency = NoAmount.currency
    BY <1>3 DEF Available
  <2>2. a.currency \in Currencies
    BY DEF FromWire, NewAmount, Validate
  <2> QED
    BY <1>2, <1>3, <2>1, <2>2, CallAssumption DEF Covered
<1>4. CASE row \in Stored
  <2>1. v.currency = row.amount.currency /\ Placed(v.value) /\ Whole(v.value) = Worth(row)
    BY <1>4, AvailableIsWorth
  <2>2. Gte(v.value, a.value) <=> Whole(v.value) >= Whole(a.value)
    BY <1>1, <2>1, GteIsExact
  <2>3. row # NoRow
    BY <1>4, CallAssumption
  <2> QED
    BY <1>1, <1>2, <2>1, <2>2, <2>3 DEF Covered
<1> QED
  BY <1>3, <1>4

\* What the handler answers to the query of an amount.
LEMMA AnswersAreTruthful ==
    ASSUME row \in Stored \cup {NoRow}, NEW q, Placed(q.amount.value),
           NEW w, w.ident = q.ident, w.amount = Wire(q.amount),
           NEW r \in Answers(w)
    PROVE  /\ r.code \in {200, 400, 404, 500} /\ r.funds \in BOOLEAN
           /\ Truthful(q, r)
<1> USE DEF Truthful
<1>1. w.ident = q.ident /\ w.amount = Wire(q.amount)
  OBVIOUS
<1>2. CASE w.ident = NoIdent \/ FromWire(w.amount) = {}
  <2>1. r = [code |-> 400, funds |-> FALSE]
    BY <1>2 DEF Answers
  <2> QED
    BY <1>1, <1>2, <2>1
<1>3. CASE ~(w.ident = NoIdent \/ FromWire(w.amount) = {})
  <2>1. CASE w.ident \notin Known
    <3>1. r = [code |-> 500, funds |-> FALSE] \/ r = [code |-> 404, funds |-> FALSE]
      BY <1>3, <2>1 DEF Answers
    <3>2. CASE r = [code |-> 500, funds |-> FALSE]
      BY <3>2
    <3>3. CASE r = [code |-> 404, funds |-> FALSE]
      BY <1>1, <2>1, <3>3
    <3> QED
      BY <3>1, <3>2, <3>3
  <2>2. CASE w.ident \in Known
    <3>1. \/ r = [code |-> 500, funds |-> FALSE]
          \/ \E a \in FromWire(w.amount), b \in Available(row) :
                r = [code |-> 200, funds |-> Enough(b, a)]
      BY <1>3, <2>2 DEF Answers
    <3>2. CASE r = [code |-> 500, funds |-> FALSE]
      BY <3>2
    <3>3. ASSUME NEW a \in FromWire(w.amount), NEW b \in Available(row),
                 r = [code |-> 200, funds |-> Enough(b, a)]
          PROVE  r.code = 200 /\ r.funds \in BOOLEAN /\ (r.funds <=> Covered(q.amount))
      <4>1. Enough(b, a) <=> Covered(q.amount)
        BY <1>1, EnoughIsExact
      <4>2. Enough(b, a) \in BOOLEAN
        BY DEF Enough
      <4> QED
        BY <3>3, <4>1, <4>2
    <3> QED
      BY <1>1, <2>2, <3>1, <3>2, <3>3
  <2> QED
    BY <2>1, <2>2
<1> QED
  BY <1>2, <1>3

\* The invariant is inductive.
LEMMA StepIInv ==
    ASSUME IInv, [Next]_callVars
    PROVE  IInv'
<1> USE DEF IInv
<1>1. ASSUME NEW i \in Idents, NEW a \in Asks, Call(i, a)
      PROVE  IInv'
  <2>1. Placed(a.value)
    BY CallAssumption DEF Placed
  <2>2. TypeOK'
    <3>1. Wire(a).value \in Numeral
      BY <2>1, PrintParses
    <3> QED
      BY <1>1, <3>1 DEF Call, TypeOK, NoReply
  <2> QED
    BY <1>1, <2>1, <2>2 DEF Call, NoReply, Truthful
<1>2. CASE Serve
  <2>1. reply' \in Answers(request) /\ pc' = "served" /\ UNCHANGED <<row, ask, request, outcome>>
    BY <1>2 DEF Serve
  <2>2. /\ row \in Stored \cup {NoRow} /\ Placed(ask.amount.value)
        /\ request.ident = ask.ident /\ request.amount = Wire(ask.amount)
    BY DEF TypeOK
  <2>3. /\ reply'.code \in {200, 400, 404, 500} /\ reply'.funds \in BOOLEAN
        /\ Truthful(ask, reply')
    <3> HIDE DEF IInv
    <3> QED
      BY <2>1, <2>2, AnswersAreTruthful
  <2>4. TypeOK'
    BY <2>1, <2>3 DEF TypeOK
  <2>5. Covered(ask.amount)' <=> Covered(ask.amount)
    BY <2>1 DEF Covered
  <2>6. Truthful(ask, reply)'
    BY <2>1, <2>3, <2>5 DEF Truthful
  <2> QED
    BY <2>1, <2>4, <2>5, <2>6
<1>3. CASE Resend
  <2>1. TypeOK'
    BY <1>3 DEF Resend, TypeOK, NoReply
  <2>2. Covered(ask.amount)' <=> Covered(ask.amount)
    BY <1>3 DEF Resend, Covered
  <2> QED
    BY <1>3, <2>1, <2>2 DEF Resend, NoReply, Truthful
<1>4. CASE Receive
  <2>1. /\ reply.code = 200 => outcome' = IF reply.funds THEN "yes" ELSE "no"
        /\ reply.code = 404 => outcome' = "ErrAccountNotFound"
        /\ reply.code \notin {200, 404} => outcome' = "error"
    BY <1>4 DEF Receive, Reading
  <2>2. TypeOK'
    BY <1>4, <2>1 DEF Receive, TypeOK
  <2>3. Covered(ask.amount)' <=> Covered(ask.amount)
    BY <1>4 DEF Receive, Covered
  <2> QED
    BY <1>4, <2>1, <2>2, <2>3 DEF Receive, Truthful
<1>5. CASE TimeOut
  <2>1. TypeOK'
    BY <1>5 DEF TimeOut, TypeOK
  <2>2. Covered(ask.amount)' <=> Covered(ask.amount)
    BY <1>5 DEF TimeOut, Covered
  <2> QED
    BY <1>5, <2>1, <2>2 DEF TimeOut, Truthful
<1>6. CASE UNCHANGED callVars
  <2>1. TypeOK' /\ (Covered(ask.amount)' <=> Covered(ask.amount))
    BY <1>6 DEF callVars, TypeOK, Covered
  <2> QED
    BY <1>6, <2>1 DEF callVars, Truthful
<1> QED
  BY <1>1, <1>2, <1>3, <1>4, <1>5, <1>6 DEF Next

\* What is known of the exchange holds in every state of it.
THEOREM Invariance == Spec => []IInv
<1>1. Init => IInv
  <2>1. Placed(NoAmount.value)
    BY DEF NoAmount, Placed, Decimal, MinExp
  <2>2. Wire(NoAmount).value \in Numeral
    BY <2>1, PrintParses
  <2>3. Init => TypeOK
    BY <2>2 DEF Init, TypeOK, NoReply
  <2> QED
    BY <2>1, <2>3 DEF Init, IInv, NoReply, Truthful
<1>2. IInv /\ [Next]_callVars => IInv'
  BY StepIInv
<1> QED
  BY <1>1, <1>2, PTL DEF Spec

\* What the client prints is a numeral in plain digits, for every amount.
THEOREM CallTypeCorrect == Spec => []TypeOK
<1>1. IInv => TypeOK
  BY DEF IInv
<1> QED
  BY <1>1, Invariance, PTL

\* The yes or the no that FundsAvailable returns is the truth about the number
\* it was called with and the number in the row, through the print, the parse,
\* the sign and the comparison, for amounts of any size held with any exponents.
THEOREM OutcomeIsExact == Spec => []OutcomeExact
<1>1. IInv => OutcomeExact
  BY DEF IInv, OutcomeExact, Covered
<1> QED
  BY <1>1, Invariance, PTL

\* ErrAccountNotFound is said only of an unknown identification, and a yes or a
\* no only of a known one, whatever is lost or sent again.
THEOREM NotFoundApart == Spec => []NotFoundIsNotNo
<1>1. IInv => NotFoundIsNotNo
  BY DEF IInv, NotFoundIsNotNo
<1> QED
  BY <1>1, Invariance, PTL

\* fundsConfirmation rejects nothing that accountscli prints for an amount that
\* Validate accepts, of any size and number of places.
THEOREM ClientIsUnderstood == Spec => []ClientUnderstood
<1>1. ASSUME IInv, reply.code = 400
      PROVE  ask.ident = NoIdent \/ ~Validate(ask.amount)
  BY <1>1, PrintParses DEF IInv, Truthful
<1>2. IInv => ClientUnderstood
  BY <1>1 DEF ClientUnderstood
<1> QED
  BY <1>2, Invariance, PTL

=============================================================================
