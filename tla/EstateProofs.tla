---------------------------- MODULE EstateProofs ----------------------------
(***************************************************************************)
(* Facts about what the statements of a repository return, for any tables: *)
(* shared by the proofs about PgRepository and about the service.          *)
(***************************************************************************)
EXTENDS Estate, Inductions, SequenceTheorems

\* The rows of a table are rows.
LEMMA SelectedType ==
    ASSUME NEW q \in Queries, NEW d \in Estates
    PROVE  Selected(q, d) \subseteq Rows
  BY DEF Selected, Table, Estates, Rows

\* The rows of a statement are a sequence of rows.
LEMMA ListingsType ==
    ASSUME NEW q \in Queries, NEW d \in Estates, NEW s \in Listings(q, d)
    PROVE  s \in Seq(Rows)
<1> DEFINE S == Selected(q, d)
<1>1. S \subseteq Rows
  BY SelectedType
<1>2. CASE q.op \in Single
  <2>1. s = << >> \/ \E row \in S : s = <<row>>
    BY <1>2 DEF Listings
  <2>2. << >> \in Seq(Rows)
    OBVIOUS
  <2>3. \A row \in Rows : <<row>> \in Seq(Rows)
    OBVIOUS
  <2> QED
    BY <1>1, <2>1, <2>2, <2>3
<1>3. CASE q.op \notin Single
  <2>1. s \in Seq(S)
    BY <1>3 DEF Listings, IsListing
  <2> QED
    BY <1>1, <2>1, SeqMonotonic
<1> QED
  BY <1>2, <1>3

\* What a call makes of rows is a value.
LEMMA MadeType ==
    ASSUME NEW q, NEW s \in Seq(Rows)
    PROVE  Made(q, s) \in Values
<1>1. InterimOf(s) \in Seq(Rows)
  <2> DEFINE I == {i \in 1..Len(s) : s[i] \in Interim}
             k == CHOOSE i \in I : TRUE
  <2>1. CASE I = {}
    <3>1. InterimOf(s) = << >>
      BY <2>1 DEF InterimOf
    <3> QED
      BY <3>1
  <2>2. CASE I # {}
    <3>1. k \in I
      BY <2>2
    <3>2. s[k] \in Rows
      BY <3>1, ElementOfSeq
    <3>3. InterimOf(s) = <<s[k]>>
      BY <2>2 DEF InterimOf
    <3> QED
      BY <3>2, <3>3
  <2> QED
    BY <2>1, <2>2
<1>2. NotFound \in Values
  BY DEF NotFound, Values
<1> QED
  BY <1>1, <1>2 DEF Made, Values

\* Two tables in one, row by row: nothing of e is missing in d.
Within(e, d) ==
    /\ e.accounts \subseteq d.accounts
    /\ e.balances \subseteq d.balances
    /\ e.transactions \subseteq d.transactions

\* Rows that are not taken away stay selected.
LEMMA SelectedGrows ==
    ASSUME NEW e, NEW d, Within(e, d), NEW q
    PROVE  Selected(q, e) \subseteq Selected(q, d)
<1>1. Table(q.op) \in {"accounts", "balances", "transactions"}
  BY DEF Table
<1> QED
  BY <1>1 DEF Selected, Within

\* A query for one row returns one of those that match, or none if none does.
LEMMA SingleListing ==
    ASSUME NEW q, q.op \in Single, NEW d, NEW s \in Listings(q, d)
    PROVE  \/ s = << >> /\ Selected(q, d) = {}
           \/ \E row \in Selected(q, d) : s = <<row>>
  BY DEF Listings

\* The others return all of them, in the order of the table.
LEMMA ManyListing ==
    ASSUME NEW q, q.op \notin Single, NEW d, NEW s \in Listings(q, d)
    PROVE  IsListing(s, Selected(q, d))
  BY DEF Listings

\* availableBalance finds an InterimAvailable row if and only if there is one.
LEMMA InterimFound ==
    ASSUME NEW S, NEW s, IsListing(s, S)
    PROVE  \/ InterimOf(s) = << >> /\ S \cap Interim = {}
           \/ \E b \in S \cap Interim : InterimOf(s) = <<b>>
<1> DEFINE I == {i \in 1..Len(s) : s[i] \in Interim}
           k == CHOOSE i \in I : TRUE
<1>1. CASE I = {}
  <2>1. InterimOf(s) = << >>
    BY <1>1 DEF InterimOf
  <2>2. \A row \in S : \E i \in 1..Len(s) : s[i] = row
    BY DEF IsListing
  <2>3. S \cap Interim = {}
    BY <1>1, <2>2
  <2> QED
    BY <2>1, <2>3
<1>2. CASE I # {}
  <2>1. k \in I
    BY <1>2
  <2>2. InterimOf(s) = <<s[k]>>
    BY <1>2 DEF InterimOf
  <2>3. s \in Seq(S)
    BY DEF IsListing
  <2>4. s[k] \in S \cap Interim
    BY <2>1, <2>3, ElementOfSeq
  <2> QED
    BY <2>2, <2>4
<1> QED
  BY <1>1, <1>2

-----------------------------------------------------------------------------
(* A table has one listing.                                                *)

\* Two listings of the same rows agree as far as the first goes.
LEMMA ListingPrefix ==
    ASSUME NEW S \in SUBSET Int, NEW s, NEW t, IsListing(s, S), IsListing(t, S),
           NEW i \in 1..Len(s)
    PROVE  i <= Len(t) /\ s[i] = t[i]
<1> DEFINE D == {k \in 1..Len(s) : ~(k <= Len(t) /\ s[k] = t[k])}
<1>1. /\ s \in Seq(S) /\ t \in Seq(S)
      /\ \A row \in S : (\E k \in 1..Len(s) : s[k] = row) /\ (\E k \in 1..Len(t) : t[k] = row)
      /\ \A k, l \in 1..Len(s) : k < l => s[k] < s[l]
      /\ \A k, l \in 1..Len(t) : k < l => t[k] < t[l]
  BY DEF IsListing
<1>2. /\ Len(s) \in Nat /\ Len(t) \in Nat
      /\ \A k \in 1..Len(s) : s[k] \in S
      /\ \A k \in 1..Len(t) : t[k] \in S
  BY <1>1, LenProperties, ElementOfSeq
<1> SUFFICES ASSUME D # {}
             PROVE  FALSE
  OBVIOUS
<1>3. PICK d \in D : \A k \in D : d <= k
  <2>1. D \in SUBSET Nat
    BY <1>2
  <2> HIDE DEF D
  <2> QED
    BY <2>1, Least
<1>4. d \in 1..Len(s) /\ ~(d <= Len(t) /\ s[d] = t[d])
  OBVIOUS
<1>5. ASSUME NEW k \in 1..Len(s), k < d
      PROVE  k \in 1..Len(t) /\ s[k] = t[k]
  <2>1. k \notin D
    BY <1>2, <1>3, <1>4, <1>5
  <2> QED
    BY <1>2, <2>1
<1> HIDE DEF D
<1>6. PICK j \in 1..Len(t) : t[j] = s[d]
  BY <1>1, <1>2, <1>4
<1>7. ~(j < d)
  <2> SUFFICES ASSUME j < d
               PROVE  FALSE
    OBVIOUS
  <2>1. j \in 1..Len(s)
    BY <1>2, <1>4
  <2>2. s[j] = s[d] /\ s[j] < s[d] /\ s[d] \in Int
    BY <1>1, <1>2, <1>4, <1>5, <1>6, <2>1
  <2> QED
    BY <2>2
<1>8. d \in 1..Len(t) /\ d < j
  BY <1>2, <1>4, <1>6, <1>7
<1>9. t[d] < s[d] /\ t[d] \in S
  BY <1>1, <1>2, <1>6, <1>8
<1>10. PICK k \in 1..Len(s) : s[k] = t[d]
  BY <1>1, <1>9
<1>11. k < d
  <2> SUFFICES ASSUME ~(k < d)
               PROVE  FALSE
    OBVIOUS
  <2>1. k = d \/ d < k
    BY <1>2, <1>4
  <2>2. s[d] \in Int /\ s[k] \in Int /\ s[k] < s[d]
    BY <1>2, <1>4, <1>9, <1>10
  <2>3. CASE d < k
    <3>1. s[d] < s[k]
      BY <1>1, <1>4, <2>3
    <3> QED
      BY <2>2, <3>1
  <2> QED
    BY <2>1, <2>2, <2>3
<1>12. t[k] = t[d] /\ t[k] < t[d] /\ t[d] \in Int
  BY <1>1, <1>2, <1>5, <1>8, <1>10, <1>11
<1> QED
  BY <1>12

LEMMA ListingUnique ==
    ASSUME NEW S \in SUBSET Int, NEW s, NEW t, IsListing(s, S), IsListing(t, S)
    PROVE  s = t
<1>1. s \in Seq(S) /\ t \in Seq(S) /\ Len(s) \in Nat /\ Len(t) \in Nat
  BY LenProperties DEF IsListing
<1>2. \A i \in 1..Len(s) : i <= Len(t) /\ s[i] = t[i]
  BY ListingPrefix
<1>3. \A i \in 1..Len(t) : i <= Len(s)
  BY ListingPrefix
<1>4. Len(s) = Len(t)
  BY <1>1, <1>2, <1>3
<1> QED
  BY <1>1, <1>2, <1>4, SeqEqual

\* Rows that all come before others, listed before them, are listed with them.
LEMMA ListingConcat ==
    ASSUME NEW S, NEW T, NEW s, NEW t, IsListing(s, S), IsListing(t, T),
           \A x \in S, y \in T : x < y
    PROVE  IsListing(s \o t, S \cup T)
<1> DEFINE u == s \o t
<1>1. s \in Seq(S) /\ t \in Seq(T) /\ s \in Seq(S \cup T) /\ t \in Seq(S \cup T)
  BY SeqMonotonic DEF IsListing
<1>2. /\ u \in Seq(S \cup T) /\ Len(u) = Len(s) + Len(t)
      /\ \A i \in 1..(Len(s) + Len(t)) : u[i] = IF i <= Len(s) THEN s[i] ELSE t[i - Len(s)]
  BY <1>1, ConcatProperties
<1>3. /\ Len(s) \in Nat /\ Len(t) \in Nat
      /\ \A k \in 1..Len(s) : s[k] \in S
      /\ \A k \in 1..Len(t) : t[k] \in T
  BY <1>1, LenProperties, ElementOfSeq
<1>4. /\ \A k, l \in 1..Len(s) : k < l => s[k] < s[l]
      /\ \A k, l \in 1..Len(t) : k < l => t[k] < t[l]
  BY DEF IsListing
<1> HIDE DEF u
<1>5. ASSUME NEW row \in S \cup T
      PROVE  \E i \in 1..Len(u) : u[i] = row
  <2>1. CASE row \in S
    <3>1. PICK k \in 1..Len(s) : s[k] = row
      BY <2>1 DEF IsListing
    <3>2. k \in 1..Len(u) /\ u[k] = row
      BY <1>2, <1>3, <3>1
    <3> QED
      BY <3>2
  <2>2. CASE row \in T
    <3>1. PICK k \in 1..Len(t) : t[k] = row
      BY <2>2 DEF IsListing
    <3>2. k + Len(s) \in 1..Len(u) /\ ~(k + Len(s) <= Len(s)) /\ (k + Len(s)) - Len(s) = k
      BY <1>2, <1>3
    <3>3. u[k + Len(s)] = row
      BY <1>2, <3>1, <3>2
    <3> QED
      BY <3>2, <3>3
  <2> QED
    BY <2>1, <2>2
<1>6. ASSUME NEW i \in 1..Len(u), NEW j \in 1..Len(u), i < j
      PROVE  u[i] < u[j]
  <2>1. CASE j <= Len(s)
    <3>1. i \in 1..Len(s) /\ j \in 1..Len(s) /\ u[i] = s[i] /\ u[j] = s[j]
      BY <1>2, <1>3, <1>6, <2>1
    <3> QED
      BY <1>4, <1>6, <3>1
  <2>2. CASE i <= Len(s) /\ ~(j <= Len(s))
    <3>1. /\ i \in 1..Len(s) /\ j - Len(s) \in 1..Len(t)
          /\ u[i] = s[i] /\ u[j] = t[j - Len(s)]
      BY <1>2, <1>3, <1>6, <2>2
    <3> QED
      BY <1>3, <3>1
  <2>3. CASE ~(i <= Len(s)) /\ ~(j <= Len(s))
    <3>1. /\ i - Len(s) \in 1..Len(t) /\ j - Len(s) \in 1..Len(t)
          /\ i - Len(s) < j - Len(s)
      BY <1>2, <1>3, <1>6, <2>3
    <3>2. u[i] = t[i - Len(s)] /\ u[j] = t[j - Len(s)]
      BY <1>2, <2>3
    <3> QED
      BY <1>4, <3>1, <3>2
  <2> QED
    BY <1>2, <1>3, <1>6, <2>1, <2>2, <2>3
<1> QED
  BY <1>2, <1>5, <1>6 DEF IsListing, u

=============================================================================
