-------------------------- MODULE ArithmeticProofs --------------------------
(***************************************************************************)
(* Facts about SumTo for sequences of any length.                          *)
(*                                                                         *)
(* The provers cannot instantiate an induction rule that takes a predicate *)
(* as an operator, so induction is stated on sets: SetInduction follows    *)
(* from the well-foundedness of < on Nat.                                  *)
(***************************************************************************)
EXTENDS Arithmetic, Sequences, WellFoundedInduction, TLAPS

\* A nonempty set of naturals has a least element.
LEMMA LeastNat ==
  ASSUME NEW T, T \subseteq Nat, T # {}
  PROVE  \E m \in T : \A k \in T : m <= k
<1> DEFINE R == OpToRel(<, Nat)
<1>1. IsWellFoundedOn(R, Nat)
  BY NatLessThanWellFounded
<1> HIDE DEF R
<1>2. PICK m \in T : \A k \in T : <<k, m>> \notin R
  BY <1>1, WFMin, Zenon
<1>3. \A k \in T : ~(k < m)
  BY <1>2 DEF R, OpToRel
<1>. QED BY <1>2, <1>3

\* Induction on a set of naturals.
LEMMA SetInduction ==
  ASSUME NEW T, T \subseteq Nat, 0 \in T, \A n \in T : n + 1 \in T
  PROVE  T = Nat
<1> DEFINE Bad == Nat \ T
<1>1. SUFFICES ASSUME Bad # {} PROVE FALSE
  OBVIOUS
<1>2. PICK m \in Bad : \A k \in Bad : m <= k
  <2>. Bad \subseteq Nat OBVIOUS
  <2>. HIDE DEF Bad
  <2>. QED BY <1>1, LeastNat
<1>3. m # 0 /\ m \in Nat
  OBVIOUS
<1>4. m - 1 \in T
  BY <1>2, <1>3
<1>5. (m - 1) + 1 \in T
  BY <1>4
<1>. QED BY <1>5, <1>3

IsSum(f, s, n) == f = [i \in 0..n |-> IF i = 0 THEN 0 ELSE f[i - 1] + s[i]]

\* The function that the definition of SumTo chooses exists.
LEMMA SumExists ==
  ASSUME NEW N \in Nat, NEW s \in [1..N -> Nat]
  PROVE  \A n \in 0..N : \E f \in [0..n -> Nat] : IsSum(f, s, n)
<1> DEFINE T == {n \in Nat : n <= N => \E f \in [0..n -> Nat] : IsSum(f, s, n)}
<1>1. 0 \in T
  <2> DEFINE f == [i \in 0..0 |-> 0]
  <2>1. f \in [0..0 -> Nat]
    OBVIOUS
  <2>2. IsSum(f, s, 0)
    BY DEF IsSum
  <2>. QED BY <2>1, <2>2
<1>2. ASSUME NEW n \in T PROVE n + 1 \in T
  <2>1. SUFFICES ASSUME n + 1 <= N
                 PROVE  \E f \in [0..(n + 1) -> Nat] : IsSum(f, s, n + 1)
    OBVIOUS
  <2>2. PICK f \in [0..n -> Nat] : IsSum(f, s, n)
    BY <2>1
  <2> DEFINE g == [i \in 0..(n + 1) |-> IF i = n + 1 THEN f[n] + s[n + 1] ELSE f[i]]
  <2>3. \A i \in 0..n : f[i] = IF i = 0 THEN 0 ELSE f[i - 1] + s[i]
    BY <2>2 DEF IsSum
  <2>4. \A i \in 0..(n + 1) : g[i] \in Nat
    BY <2>1
  <2>5. \A i \in 0..(n + 1) : g[i] = IF i = 0 THEN 0 ELSE g[i - 1] + s[i]
    <3>1. TAKE i \in 0..(n + 1)
    <3>2. CASE i = n + 1
      <4>1. n \in 0..(n + 1) /\ n # n + 1 /\ n + 1 # 0
        OBVIOUS
      <4>2. g[n] = f[n] /\ g[n + 1] = f[n] + s[n + 1] /\ (n + 1) - 1 = n
        BY <4>1
      <4>. QED BY <3>2, <4>1, <4>2
    <3>3. CASE i # n + 1
      <4>1. i \in 0..n /\ g[i] = f[i]
        BY <3>3
      <4>2. i # 0 => i - 1 \in 0..(n + 1) /\ i - 1 # n + 1
        BY <4>1
      <4>3. i # 0 => g[i - 1] = f[i - 1]
        BY <4>2
      <4>. QED BY <2>3, <4>1, <4>3
    <3>. QED BY <3>2, <3>3
  <2>6. g \in [0..(n + 1) -> Nat]
    BY <2>4
  <2>7. g = [i \in 0..(n + 1) |-> g[i]]
    OBVIOUS
  <2>. HIDE DEF g
  <2>8. IsSum(g, s, n + 1)
    BY <2>5, <2>7 DEF IsSum
  <2>. QED BY <2>6, <2>8
<1>3. T = Nat
  <2>. T \subseteq Nat OBVIOUS
  <2>. HIDE DEF T
  <2>. QED BY <1>1, <1>2, SetInduction
<1>4. ASSUME NEW n \in 0..N PROVE \E f \in [0..n -> Nat] : IsSum(f, s, n)
  <2>1. n \in Nat /\ n <= N
    OBVIOUS
  <2>2. n \in T
    <3>. HIDE DEF T
    <3>. QED BY <1>3, <2>1
  <2>. QED BY <2>1, <2>2
<1>. QED BY <1>4

\* Two such functions agree where both are defined.
LEMMA SumUnique ==
  ASSUME NEW s, NEW n \in Nat, NEW m \in Nat, n <= m,
         NEW f, NEW g, IsSum(f, s, n), IsSum(g, s, m)
  PROVE  \A i \in 0..n : f[i] = g[i]
<1> DEFINE T == {i \in Nat : i <= n => f[i] = g[i]}
<1>1. /\ \A i \in 0..n : f[i] = (IF i = 0 THEN 0 ELSE f[i - 1] + s[i])
      /\ \A i \in 0..m : g[i] = (IF i = 0 THEN 0 ELSE g[i - 1] + s[i])
  BY DEF IsSum
<1>2. 0 \in T
  BY <1>1
<1>3. ASSUME NEW i \in T PROVE i + 1 \in T
  <2>1. SUFFICES ASSUME i + 1 <= n PROVE f[i + 1] = g[i + 1]
    OBVIOUS
  <2>2. /\ f[i] = g[i]
        /\ i + 1 \in 0..n
        /\ i + 1 \in 0..m
        /\ i + 1 # 0
        /\ (i + 1) - 1 = i
    BY <2>1
  <2>. QED BY <1>1, <2>2
<1>4. T = Nat
  <2>. T \subseteq Nat OBVIOUS
  <2>. HIDE DEF T
  <2>. QED BY <1>2, <1>3, SetInduction
<1>5. ASSUME NEW i \in 0..n PROVE f[i] = g[i]
  <2>1. i \in Nat /\ i <= n
    OBVIOUS
  <2>2. i \in T
    <3>. HIDE DEF T
    <3>. QED BY <1>4, <2>1
  <2>. QED BY <2>1, <2>2
<1>. QED BY <1>5

\* SumTo is the last value of such a function.
LEMMA SumToDef ==
  ASSUME NEW N \in Nat, NEW s \in [1..N -> Nat], NEW n \in 0..N,
         NEW f, IsSum(f, s, n)
  PROVE  SumTo(s, n) = f[n]
<1> DEFINE g == CHOOSE h : IsSum(h, s, n)
<1>1. IsSum(g, s, n)
  OBVIOUS
<1>2. SumTo(s, n) = g[n]
  BY DEF SumTo, IsSum
<1>. HIDE DEF g
<1>3. \A i \in 0..n : f[i] = g[i]
  BY <1>1, SumUnique
<1>. QED BY <1>2, <1>3

LEMMA SumToWitness ==
  ASSUME NEW N \in Nat, NEW s \in [1..N -> Nat], NEW n \in 0..N
  PROVE  \E f : IsSum(f, s, n) /\ SumTo(s, n) = f[n] /\ \A i \in 0..n : f[i] \in Nat
<1>1. PICK f \in [0..n -> Nat] : IsSum(f, s, n)
  BY SumExists
<1>2. SumTo(s, n) = f[n]
  BY <1>1, SumToDef
<1>3. \A i \in 0..n : f[i] \in Nat
  OBVIOUS
<1>. QED BY <1>1, <1>2, <1>3

\* The recursion SumTo satisfies, and its type.
LEMMA SumToRec ==
  ASSUME NEW N \in Nat, NEW s \in [1..N -> Nat]
  PROVE  /\ SumTo(s, 0) = 0
         /\ \A n \in 0..N : SumTo(s, n) \in Nat
         /\ \A n \in 1..N : SumTo(s, n) = SumTo(s, n - 1) + s[n]
<1>2. SumTo(s, 0) = 0
  <2>1. PICK f : IsSum(f, s, 0) /\ SumTo(s, 0) = f[0]
    BY SumToWitness
  <2>. QED BY <2>1 DEF IsSum
<1>3. ASSUME NEW n \in 0..N PROVE SumTo(s, n) \in Nat
  <2>1. PICK f : SumTo(s, n) = f[n] /\ \A i \in 0..n : f[i] \in Nat
    BY SumToWitness
  <2>. QED BY <2>1
<1>4. ASSUME NEW n \in 1..N PROVE SumTo(s, n) = SumTo(s, n - 1) + s[n]
  <2>0. n \in 0..N /\ n - 1 \in 0..N /\ n \in Nat /\ n - 1 \in Nat /\ n - 1 <= n
    OBVIOUS
  <2>1. PICK f : IsSum(f, s, n) /\ SumTo(s, n) = f[n]
    BY <2>0, SumToWitness
  <2> DEFINE m == n - 1
  <2>2. PICK g : IsSum(g, s, m) /\ SumTo(s, m) = g[m]
    BY <2>0, SumToWitness
  <2>3. g[m] = f[m]
    <3>1. m \in Nat /\ m <= n /\ m \in 0..m
      BY <2>0
    <3>. HIDE DEF m
    <3>2. \A i \in 0..m : g[i] = f[i]
      BY <2>0, <2>1, <2>2, <3>1, SumUnique
    <3>. QED BY <3>1, <3>2
  <2>4. f[n] = f[m] + s[n]
    BY <2>1 DEF IsSum
  <2>. QED BY <2>1, <2>2, <2>3, <2>4
<1>. QED BY <1>2, <1>3, <1>4

\* Sequences that agree on their first n elements have the same sum to n.
LEMMA SumToAgree ==
  ASSUME NEW N \in Nat, NEW s \in [1..N -> Nat], NEW M \in Nat, NEW t \in [1..M -> Nat],
         NEW n \in Nat, n <= N, n <= M, \A i \in 1..n : s[i] = t[i]
  PROVE  SumTo(s, n) = SumTo(t, n)
<1> DEFINE T == {i \in Nat : i <= n => SumTo(s, i) = SumTo(t, i)}
<1>1. 0 \in T
  BY SumToRec
<1>2. ASSUME NEW i \in T PROVE i + 1 \in T
  <2>1. SUFFICES ASSUME i + 1 <= n PROVE SumTo(s, i + 1) = SumTo(t, i + 1)
    OBVIOUS
  <2>2. i + 1 \in 1..N /\ i + 1 \in 1..M /\ i + 1 \in 1..n /\ (i + 1) - 1 = i
    BY <2>1
  <2>3. SumTo(s, i + 1) = SumTo(s, i) + s[i + 1]
    BY <2>2, SumToRec
  <2>4. SumTo(t, i + 1) = SumTo(t, i) + t[i + 1]
    BY <2>2, SumToRec
  <2>. QED BY <2>1, <2>2, <2>3, <2>4
<1>3. T = Nat
  <2>. T \subseteq Nat OBVIOUS
  <2>. HIDE DEF T
  <2>. QED BY <1>1, <1>2, SetInduction
<1>4. n \in T
  <2>. HIDE DEF T
  <2>. QED BY <1>3
<1>. QED BY <1>4

\* The sum of what is left when the first k elements go.
LEMMA SumToShift ==
  ASSUME NEW N \in Nat, NEW s \in [1..N -> Nat], NEW k \in 0..N,
         NEW t \in [1..(N - k) -> Nat], \A i \in 1..(N - k) : t[i] = s[i + k]
  PROVE  SumTo(t, N - k) = SumTo(s, N) - SumTo(s, k)
<1> DEFINE T == {i \in Nat : i <= N - k => SumTo(t, i) = SumTo(s, i + k) - SumTo(s, k)}
<1>0. N - k \in Nat
  OBVIOUS
<1>1. 0 \in T
  <2>1. SumTo(t, 0) = 0
    BY <1>0, SumToRec
  <2>2. SumTo(s, k) \in Nat
    BY SumToRec
  <2>3. 0 + k = k
    OBVIOUS
  <2>4. SumTo(t, 0) = SumTo(s, 0 + k) - SumTo(s, k)
    BY <2>1, <2>2, <2>3
  <2>. QED BY <2>4
<1>2. ASSUME NEW i \in T PROVE i + 1 \in T
  <2>1. SUFFICES ASSUME i + 1 <= N - k
                 PROVE  SumTo(t, i + 1) = SumTo(s, (i + 1) + k) - SumTo(s, k)
    OBVIOUS
  <2>2. /\ i + 1 \in 1..(N - k)
        /\ (i + 1) - 1 = i
        /\ (i + 1) + k \in 1..N
        /\ ((i + 1) + k) - 1 = i + k
        /\ i \in 0..(N - k)
        /\ i + k \in 0..N
    BY <2>1
  <2>3. SumTo(t, i + 1) = SumTo(t, i) + t[i + 1]
    BY <1>0, <2>2, SumToRec
  <2>4. SumTo(s, (i + 1) + k) = SumTo(s, i + k) + s[(i + 1) + k]
    BY <2>2, SumToRec
  <2>5. SumTo(t, i) = SumTo(s, i + k) - SumTo(s, k)
    BY <2>1
  <2>6. t[i + 1] = s[(i + 1) + k]
    BY <2>2
  <2>7. /\ SumTo(t, i) \in Nat /\ SumTo(s, i + k) \in Nat /\ SumTo(s, k) \in Nat
        /\ t[i + 1] \in Nat
    BY <1>0, <2>2, SumToRec
  <2>. QED BY <2>3, <2>4, <2>5, <2>6, <2>7
<1>3. T = Nat
  <2>. T \subseteq Nat OBVIOUS
  <2>. HIDE DEF T
  <2>. QED BY <1>1, <1>2, SetInduction
<1>4. N - k \in T
  <2>. HIDE DEF T
  <2>. QED BY <1>3, <1>0
<1>. QED BY <1>4, <1>0
=============================================================================
