----------------------------- MODULE SumLemmas -----------------------------
(***************************************************************************)
(* Facts about Sums!Total for sums of any length.  The library's induction *)
(* theorems take an operator as a parameter; here induction over Nat is    *)
(* derived from WFMin for one set at a time, and Total from its unique     *)
(* sequence of partial sums.                                               *)
(***************************************************************************)
EXTENDS Sums, WellFoundedInduction, TLAPS

\* A non-empty set of naturals has a smallest member.
LEMMA LeastNumber ==
  ASSUME NEW T \in SUBSET Nat, T # {}
  PROVE  \E m \in T : \A k \in T : m <= k
<1>. DEFINE R == {ss \in Nat \X Nat : ss[1] < ss[2]}
<1>1. IsWellFoundedOn(R, Nat)
  BY NatLessThanWellFounded, Zenon DEF OpToRel
<1>2. PICK m \in T : \A k \in T : <<k, m>> \notin R
  <2>. HIDE DEF R
  <2>. QED BY <1>1, WFMin
<1>3. \A k \in T : ~(k < m)
  BY <1>2
<1>. QED BY <1>3

\* Induction over the naturals, for a set in place of a predicate.
LEMMA NatSetInduction ==
  ASSUME NEW S, 0 \in S, \A n \in Nat : n \in S => n + 1 \in S
  PROVE  Nat \subseteq S
<1>1. SUFFICES ASSUME Nat \ S # {} PROVE FALSE
  OBVIOUS
<1>2. PICK m \in Nat \ S : \A k \in Nat \ S : m <= k
  BY <1>1, LeastNumber
<1>3. m # 0 /\ m - 1 \in Nat
  BY <1>2
<1>4. m - 1 \in S
  BY <1>2, <1>3
<1>. QED BY <1>2, <1>3, <1>4

-----------------------------------------------------------------------------
IsPartial(s, f, n) ==
  s = [i \in 0 .. n |-> IF i = 0 THEN 0 ELSE s[i - 1] + f[i]]

\* The partial sums that Total reads its last member from exist.
LEMMA PartialExists ==
  ASSUME NEW f
  PROVE  \A n \in Nat : \E s : IsPartial(s, f, n)
<1>. DEFINE S == {n \in Nat : \E s : IsPartial(s, f, n)}
<1>1. 0 \in S
  <2>. DEFINE s0 == [i \in 0 .. 0 |-> 0]
  <2>1. IsPartial(s0, f, 0) BY DEF IsPartial
  <2>. QED BY <2>1
<1>2. ASSUME NEW n \in Nat, n \in S PROVE n + 1 \in S
  <2>1. PICK s : IsPartial(s, f, n) BY <1>2
  <2>. DEFINE t == [i \in 0 .. n + 1 |-> IF i = n + 1 THEN s[n] + f[i] ELSE s[i]]
  <2>2. \A i \in 0 .. n : s[i] = IF i = 0 THEN 0 ELSE s[i - 1] + f[i]
    BY <2>1 DEF IsPartial
  <2>3. ASSUME NEW i \in 0 .. n + 1
        PROVE  t[i] = IF i = 0 THEN 0 ELSE t[i - 1] + f[i]
    BY <2>2
  <2>4. IsPartial(t, f, n + 1)
    BY <2>3 DEF IsPartial
  <2>. HIDE DEF t
  <2>. QED BY <2>4
<1>. HIDE DEF S
<1>3. Nat \subseteq S BY <1>1, <1>2, NatSetInduction
<1>. QED BY <1>3 DEF S

\* Total is the last partial sum.
LEMMA TotalIsPartial ==
  ASSUME NEW f, NEW n \in Nat
  PROVE  \E s : IsPartial(s, f, n) /\ Total(f, n) = s[n]
<1>. DEFINE u == CHOOSE s : s = [i \in 0 .. n |-> IF i = 0 THEN 0 ELSE s[i - 1] + f[i]]
<1>1. \E s : IsPartial(s, f, n) BY PartialExists
<1>2. IsPartial(u, f, n) BY <1>1 DEF IsPartial
<1>3. Total(f, n) = u[n] BY DEF Total
<1>. QED BY <1>2, <1>3

\* Partial sums do not depend on how far they go.
LEMMA PartialsAgree ==
  ASSUME NEW f, NEW n \in Nat, NEW s, NEW t, IsPartial(s, f, n), IsPartial(t, f, n + 1)
  PROVE  s[n] = t[n]
<1>. DEFINE S == {i \in Nat : i <= n => s[i] = t[i]}
<1>1. \A i \in 0 .. n : s[i] = IF i = 0 THEN 0 ELSE s[i - 1] + f[i]
  BY DEF IsPartial
<1>2. \A i \in 0 .. n + 1 : t[i] = IF i = 0 THEN 0 ELSE t[i - 1] + f[i]
  BY DEF IsPartial
<1>3. 0 \in S
  BY <1>1, <1>2
<1>4. ASSUME NEW i \in Nat, i \in S PROVE i + 1 \in S
  <2>1. CASE i + 1 <= n
    <3>1. s[i + 1] = s[i] + f[i + 1] BY <1>1, <2>1
    <3>2. t[i + 1] = t[i] + f[i + 1] BY <1>2, <2>1
    <3>. QED BY <3>1, <3>2, <1>4, <2>1
  <2>2. CASE ~(i + 1 <= n)
    BY <2>2
  <2>. QED BY <2>1, <2>2
<1>. HIDE DEF S
<1>5. Nat \subseteq S BY <1>3, <1>4, NatSetInduction
<1>. QED BY <1>5 DEF S

\* The recursion equations of Total: an empty sum, and one more summand.
LEMMA TotalStep ==
  ASSUME NEW f, NEW n \in Nat
  PROVE  Total(f, 0) = 0 /\ Total(f, n + 1) = Total(f, n) + f[n + 1]
<1>1. PICK z : IsPartial(z, f, 0) /\ Total(f, 0) = z[0]
  BY TotalIsPartial
<1>2. z[0] = 0
  BY <1>1 DEF IsPartial
<1>3. PICK s : IsPartial(s, f, n) /\ Total(f, n) = s[n]
  BY TotalIsPartial
<1>4. PICK t : IsPartial(t, f, n + 1) /\ Total(f, n + 1) = t[n + 1]
  BY TotalIsPartial
<1>5. t[n + 1] = t[n] + f[n + 1]
  BY <1>4 DEF IsPartial
<1>6. s[n] = t[n]
  BY <1>3, <1>4, PartialsAgree
<1>. QED BY <1>1, <1>2, <1>3, <1>4, <1>5, <1>6

-----------------------------------------------------------------------------
\* A total of naturals is a natural.
LEMMA TotalNat ==
  ASSUME NEW n \in Nat, NEW f, \A i \in 1 .. n : f[i] \in Nat
  PROVE  Total(f, n) \in Nat
<1>. DEFINE S == {m \in Nat : m <= n => Total(f, m) \in Nat}
<1>1. 0 \in S
  BY TotalStep
<1>2. ASSUME NEW m \in Nat, m \in S PROVE m + 1 \in S
  <2>1. Total(f, m + 1) = Total(f, m) + f[m + 1] BY TotalStep
  <2>. QED BY <1>2, <2>1
<1>. HIDE DEF S
<1>3. Nat \subseteq S BY <1>1, <1>2, NatSetInduction
<1>. QED BY <1>3 DEF S

\* The premises of the next lemmas by name, so that a proof can cite an instance.
IsSumOf(h, f, g, n) == \A i \in 1 .. n : f[i] \in Int /\ g[i] \in Int /\ h[i] = f[i] + g[i]

DiffersAt(h, f, r, n) ==
  /\ r \in 1 .. n
  /\ \A i \in 1 .. n : f[i] \in Int /\ h[i] \in Int
  /\ \A i \in (1 .. n) \ {r} : h[i] = f[i]

\* Totals add up: the total of a pointwise sum is the sum of the totals.
LEMMA TotalAdd ==
  ASSUME NEW n \in Nat, NEW f, NEW g, NEW h, IsSumOf(h, f, g, n)
  PROVE  Total(f, n) \in Int /\ Total(g, n) \in Int /\ Total(h, n) = Total(f, n) + Total(g, n)
<1>. USE DEF IsSumOf
<1>. DEFINE Adds(m) == /\ Total(f, m) \in Int
                       /\ Total(g, m) \in Int
                       /\ Total(h, m) = Total(f, m) + Total(g, m)
            S == {m \in Nat : m <= n => Adds(m)}
<1>1. 0 \in S
  BY TotalStep
<1>2. ASSUME NEW m \in Nat, m \in S PROVE m + 1 \in S
  <2>1. /\ Total(f, m + 1) = Total(f, m) + f[m + 1]
        /\ Total(g, m + 1) = Total(g, m) + g[m + 1]
        /\ Total(h, m + 1) = Total(h, m) + h[m + 1]
    BY TotalStep
  <2>2. m + 1 <= n => m + 1 \in 1 .. n
    OBVIOUS
  <2>. QED BY <1>2, <2>1, <2>2
<1>. HIDE DEF S
<1>3. Nat \subseteq S BY <1>1, <1>2, NatSetInduction
<1>. QED BY <1>3 DEF S

\* When one summand changes, the total changes by as much.
LEMMA TotalUpdate ==
  ASSUME NEW n \in Nat, NEW f, NEW h, NEW r, DiffersAt(h, f, r, n)
  PROVE  Total(f, n) \in Int /\ Total(h, n) = Total(f, n) + (h[r] - f[r])
<1>. USE DEF DiffersAt
<1>. DEFINE Moved(m) == /\ Total(f, m) \in Int
                        /\ Total(h, m) = Total(f, m) + IF r <= m THEN h[r] - f[r] ELSE 0
            S == {m \in Nat : m <= n => Moved(m)}
<1>1. 0 \in S
  BY TotalStep
<1>2. ASSUME NEW m \in Nat, m \in S PROVE m + 1 \in S
  <2>1. /\ Total(f, m + 1) = Total(f, m) + f[m + 1]
        /\ Total(h, m + 1) = Total(h, m) + h[m + 1]
    BY TotalStep
  <2>2. m + 1 <= n => m + 1 \in 1 .. n
    OBVIOUS
  <2>. QED BY <1>2, <2>1, <2>2
<1>. HIDE DEF S
<1>3. Nat \subseteq S BY <1>1, <1>2, NatSetInduction
<1>. QED BY <1>3 DEF S

\* The total of zeros is zero.
LEMMA TotalZero ==
  ASSUME NEW n \in Nat, NEW f, \A i \in 1 .. n : f[i] = 0
  PROVE  Total(f, n) = 0
<1>. DEFINE S == {m \in Nat : m <= n => Total(f, m) = 0}
<1>1. 0 \in S
  BY TotalStep
<1>2. ASSUME NEW m \in Nat, m \in S PROVE m + 1 \in S
  <2>1. Total(f, m + 1) = Total(f, m) + f[m + 1] BY TotalStep
  <2>. QED BY <1>2, <2>1
<1>. HIDE DEF S
<1>3. Nat \subseteq S BY <1>1, <1>2, NatSetInduction
<1>. QED BY <1>3 DEF S
=============================================================================
