---------------------------- MODULE TextsProofs ----------------------------
(***************************************************************************)
(* Proofs about Texts: for every text, conversation and entry, not only the *)
(* small ones TLC builds.                                                  *)
(*                                                                         *)
(* The functions are folds and recursive functions over sequences.  A fold *)
(* is chosen by its equation, so first one that satisfies it is built; what *)
(* it holds of every prefix then follows by UpToAll, an induction over a   *)
(* set of numbers from the well-foundedness of <.                          *)
(***************************************************************************)
EXTENDS Texts, FiniteSetTheorems, SequenceTheorems, WellFoundedInduction, TLAPS

-----------------------------------------------------------------------------
(* Sums.                                                                   *)

LEMMA LeastOf ==
  ASSUME NEW S \in SUBSET Nat, S # {}
  PROVE  \E k \in S : \A j \in S : k <= j
<1>1. PICK k \in S : \A j \in S : <<j, k>> \notin OpToRel(<, Nat)
  BY NatLessThanWellFounded, WFMin
<1>2. \A j \in S : ~(j < k)
  BY <1>1 DEF OpToRel
<1> QED BY <1>2

LEMMA GreatestIs ==
  ASSUME NEW n \in Nat, NEW S \in SUBSET (0..n), S # {}
  PROVE  Max(S) \in S /\ \A j \in S : j <= Max(S)
<1> DEFINE D == {n - j : j \in S}
<1>1. D \in SUBSET Nat /\ D # {}
  <2>1. \A j \in S : n - j \in Nat
    OBVIOUS
  <2> QED BY <2>1
<1>2. PICK d \in D : \A x \in D : d <= x
  BY <1>1, LeastOf
<1>3. PICK k \in S : d = n - k
  BY <1>2
<1>4. ASSUME NEW j \in S PROVE k >= j
  <2>1. n - j \in D /\ n - k <= n - j
    BY <1>2, <1>3
  <2>2. j \in Nat /\ k \in Nat
    OBVIOUS
  <2> QED BY <2>1, <2>2
<1>5. Max(S) \in S /\ \A j \in S : Max(S) >= j
  BY <1>4 DEF Max
<1> QED BY <1>5

\* Induction up to n, of a set.
LEMMA UpToAll ==
  ASSUME NEW n \in Nat, NEW P, 0 \in P, \A i \in 1..n : i - 1 \in P => i \in P
  PROVE  0..n \subseteq P
<1> DEFINE D == (0..n) \ P
<1> SUFFICES ASSUME D # {} PROVE FALSE
  OBVIOUS
<1>1. D \in SUBSET Nat
  OBVIOUS
<1>2. PICK k \in D : \A j \in D : k <= j
  BY <1>1, LeastOf
<1>3. k \in 1..n /\ k \notin P
  OBVIOUS
<1>4. k - 1 \in P
  <2> SUFFICES ASSUME k - 1 \notin P PROVE FALSE
    OBVIOUS
  <2>1. k - 1 \in D
    BY <1>3
  <2> QED BY <1>2, <1>3, <2>1
<1> QED BY <1>3, <1>4

\* f holds the sums of the prefixes of s.
Sums(f, s) ==
  /\ f \in [0..Len(s) -> Nat] /\ f[0] = 0
  /\ \A i \in 1..Len(s) : f[i] = f[i - 1] + s[i]

LEMMA SumsExist ==
  ASSUME NEW s \in Seq(Nat)
  PROVE  \E f : Sums(f, s)
<1>0. Len(s) \in Nat /\ DOMAIN s = 1..Len(s) /\ \A i \in 1..Len(s) : s[i] \in Nat
  OBVIOUS
<1> DEFINE Upto(f, k) == /\ f \in [0..k -> Nat] /\ f[0] = 0
                         /\ \A i \in 1..k : f[i] = f[i - 1] + s[i]
           P == {k \in 0..Len(s) : \E f : Upto(f, k)}
<1>1. 0 \in P
  <2>1. PICK f : f = [i \in 0..0 |-> 0]
    OBVIOUS
  <2>2. Upto(f, 0)
    BY <2>1
  <2> QED BY <1>0, <2>2
<1>2. ASSUME NEW k \in 1..Len(s), k - 1 \in P PROVE k \in P
  <2>1. PICK f : Upto(f, k - 1)
    BY <1>2
  <2>2. k \in Nat /\ k - 1 \in Nat /\ k \in 0..Len(s)
    BY <1>0
  <2> DEFINE g == [i \in 0..k |-> IF i = k THEN f[k - 1] + s[k] ELSE f[i]]
  <2>3. f[k - 1] + s[k] \in Nat
    BY <1>0, <2>1, <2>2
  <2>4. \A i \in 0..k : i = k \/ i \in 0..(k - 1)
    BY <2>2
  <2>5. g \in [0..k -> Nat]
    BY <2>1, <2>3, <2>4
  <2>6. g[0] = 0 /\ g[k] = f[k - 1] + s[k] /\ \A i \in 0..(k - 1) : g[i] = f[i]
    BY <2>1, <2>2
  <2> HIDE DEF g
  <2>7. ASSUME NEW i \in 1..k PROVE g[i] = g[i - 1] + s[i]
    <3>1. i - 1 \in 0..(k - 1) /\ (i = k \/ i \in 1..(k - 1))
      BY <2>2
    <3>2. CASE i = k
      BY <2>6, <3>1, <3>2
    <3>3. CASE i \in 1..(k - 1)
      <4>1. f[i] = f[i - 1] + s[i] /\ i \in 0..(k - 1)
        BY <2>1, <2>2, <3>3
      <4> QED BY <2>6, <3>1, <4>1
    <3> QED BY <3>1, <3>2, <3>3
  <2>8. Upto(g, k)
    BY <2>5, <2>6, <2>7
  <2> QED BY <2>2, <2>8
<1> HIDE DEF P
<1>3. 0..Len(s) \subseteq P
  BY <1>0, <1>1, <1>2, UpToAll
<1>4. Len(s) \in P
  BY <1>0, <1>3
<1> QED BY <1>4 DEF P, Sums

LEMMA SumsType ==
  ASSUME NEW s \in Seq(Nat), NEW f, Sums(f, s)
  PROVE  /\ Len(s) \in Nat /\ 0 \in 0..Len(s) /\ Len(s) \in 0..Len(s) /\ f[0] = 0
         /\ \A k \in 0..Len(s) : f[k] \in Nat
         /\ \A k \in 1..Len(s) : k \in 0..Len(s) /\ k - 1 \in 0..Len(s) /\ s[k] \in Nat
<1>1. Len(s) \in Nat /\ \A k \in 1..Len(s) : s[k] \in Nat
  OBVIOUS
<1>2. /\ \A k \in 1..Len(s) : k \in 0..Len(s) /\ k - 1 \in 0..Len(s)
      /\ 0 \in 0..Len(s) /\ Len(s) \in 0..Len(s)
  BY <1>1
<1>3. f[0] = 0 /\ \A k \in 0..Len(s) : f[k] \in Nat
  BY DEF Sums
<1> QED BY <1>1, <1>2, <1>3

LEMMA SumsUnique ==
  ASSUME NEW s \in Seq(Nat), NEW f, NEW g, Sums(f, s), Sums(g, s)
  PROVE  f = g
<1> DEFINE P == {k \in 0..Len(s) : f[k] = g[k]}
<1>0. Len(s) \in Nat
  OBVIOUS
<1>1. 0 \in P
  BY <1>0 DEF Sums
<1>2. ASSUME NEW k \in 1..Len(s), k - 1 \in P PROVE k \in P
  BY <1>0, <1>2 DEF Sums
<1> HIDE DEF P
<1>3. 0..Len(s) \subseteq P
  BY <1>0, <1>1, <1>2, UpToAll
<1>4. \A k \in 0..Len(s) : f[k] = g[k]
  BY <1>3 DEF P
<1>5. f \in [0..Len(s) -> Nat] /\ g \in [0..Len(s) -> Nat]
  BY DEF Sums
<1> QED BY <1>4, <1>5

LEMMA TotalIsLast ==
  ASSUME NEW s \in Seq(Nat), NEW f, Sums(f, s)
  PROVE  Total(s) = f[Len(s)]
<1> DEFINE D(g) == [i \in 0..Len(s) |-> IF i = 0 THEN 0 ELSE g[i - 1] + s[i]]
<1>0. Len(s) \in Nat
  OBVIOUS
<1>1. f = D(f)
  BY <1>0 DEF Sums
<1>2. PICK u : u = CHOOSE g : g = D(g)
  OBVIOUS
<1>3. u = D(u)
  BY <1>1, <1>2
<1>4. Sums(u, s)
  <2>0. \A i \in 1..Len(s) : s[i] \in Nat
    OBVIOUS
  <2>1. /\ u = [i \in 0..Len(s) |-> u[i]] /\ u[0] = 0
        /\ \A i \in 1..Len(s) : u[i] = u[i - 1] + s[i]
    BY <1>0, <1>3
  <2> DEFINE P == {k \in 0..Len(s) : u[k] \in Nat}
  <2>2. 0 \in P
    BY <1>0, <2>1
  <2>3. ASSUME NEW k \in 1..Len(s), k - 1 \in P PROVE k \in P
    <3>1. u[k] = u[k - 1] + s[k]
      BY <2>1
    <3>2. u[k - 1] \in Nat /\ s[k] \in Nat /\ k \in 0..Len(s)
      BY <1>0, <2>0, <2>3
    <3> QED BY <3>1, <3>2
  <2> HIDE DEF P
  <2>4. 0..Len(s) \subseteq P
    BY <1>0, <2>2, <2>3, UpToAll
  <2>5. \A k \in 0..Len(s) : u[k] \in Nat
    BY <2>4 DEF P
  <2> QED BY <2>1, <2>5 DEF Sums
<1>5. Total(s) = u[Len(s)]
  BY <1>2 DEF Total
<1> QED BY <1>4, <1>5, SumsUnique

LEMMA TotalNat ==
  ASSUME NEW s \in Seq(Nat)
  PROVE  Total(s) \in Nat
<1>1. PICK f : Sums(f, s)
  BY SumsExist
<1>2. Len(s) \in 0..Len(s)
  OBVIOUS
<1> QED BY <1>1, <1>2, TotalIsLast DEF Sums

LEMMA NoLess == \A x, y, z \in Nat : x = y + z => y <= x
OBVIOUS

LEMMA Chained == \A x, y, z \in Nat : x <= y /\ y <= z => x <= z
OBVIOUS

LEMMA SumsRise ==
  ASSUME NEW s \in Seq(Nat), NEW f, Sums(f, s), NEW i \in 0..Len(s), NEW j \in 0..Len(s), i <= j
  PROVE  f[i] <= f[j]
<1> DEFINE P == {k \in 0..Len(s) : i <= k => f[i] <= f[k]}
<1>1. 0 \in P
  BY SumsType
<1>2. ASSUME NEW k \in 1..Len(s), k - 1 \in P PROVE k \in P
  <2>1. f[k] = f[k - 1] + s[k]
    BY DEF Sums
  <2>2. k \in 0..Len(s) /\ k - 1 \in 0..Len(s) /\ s[k] \in Nat
    BY SumsType
  <2>3. f[k - 1] \in Nat /\ f[i] \in Nat /\ f[k] \in Nat
    BY <2>2, SumsType
  <2>4. i <= k - 1 => f[i] <= f[k - 1]
    BY <1>2
  <2>5. i <= k => i = k \/ i <= k - 1
    BY <2>2
  <2>6. f[k - 1] <= f[k]
    BY <2>1, <2>2, <2>3, NoLess
  <2>7. ASSUME i <= k - 1 PROVE f[i] <= f[k]
    BY <2>3, <2>4, <2>6, <2>7, Chained
  <2>8. i <= k => f[i] <= f[k]
    BY <2>3, <2>5, <2>7
  <2> QED BY <2>2, <2>8
<1> HIDE DEF P
<1>3. 0..Len(s) \subseteq P
  BY <1>1, <1>2, SumsType, UpToAll
<1> QED BY <1>3 DEF P

LEMMA Added == \A x \in Nat, y \in Nat, z \in Nat : (x + y) + z = x + (y + z) /\ (z + x) - z = x
OBVIOUS

\* t is the stretch of s behind its first a elements; t is s from its end.
IsStretch(t, s, a) == a + Len(t) <= Len(s) /\ \A i \in 1..Len(t) : t[i] = s[a + i]
IsEnd(t, s) == Len(t) <= Len(s) /\ \A i \in 1..Len(t) : t[i] = s[Len(s) + 1 - i]

LEMMA TotalWindow ==
  ASSUME NEW s \in Seq(Nat), NEW f, Sums(f, s), NEW t \in Seq(Nat), NEW a \in Nat, IsStretch(t, s, a)
  PROVE  Total(t) = f[a + Len(t)] - f[a]
<1>1. PICK g : Sums(g, t)
  BY SumsExist
<1>9. Len(s) \in Nat /\ Len(t) \in Nat /\ a + Len(t) <= Len(s) /\ \A i \in 1..Len(t) : t[i] = s[a + i]
  BY DEF IsStretch
<1>0. /\ Len(s) \in Nat /\ Len(t) \in Nat /\ 0 \in 0..Len(t)
      /\ \A k \in 0..Len(t) : a + k \in 0..Len(s)
  BY <1>9
<1> DEFINE P == {k \in 0..Len(t) : f[a + k] = f[a] + g[k]}
<1>2. 0 \in P
  <2>1. a + 0 = a /\ g[0] = 0 /\ f[a] \in Nat
    BY <1>0, <1>1, SumsType
  <2> QED BY <1>0, <2>1
<1>3. ASSUME NEW k \in 1..Len(t), k - 1 \in P PROVE k \in P
  <2>a. k \in Nat /\ 1 <= k /\ k <= Len(t)
    BY <1>9
  <2>b. a + k \in 1..Len(s)
    BY <1>9, <2>a
  <2>c. (a + k) - 1 = a + (k - 1)
    BY <2>a
  <2>d. k \in 0..Len(t) /\ k - 1 \in 0..Len(t)
    BY <1>9, <2>a
  <2>1. a + k \in 1..Len(s) /\ (a + k) - 1 = a + (k - 1) /\ k \in 0..Len(t) /\ k - 1 \in 0..Len(t)
    BY <2>b, <2>c, <2>d
  <2>2. f[a + k] = f[a + (k - 1)] + s[a + k]
    BY <2>1 DEF Sums
  <2>3. g[k] = g[k - 1] + s[a + k]
    BY <1>1, <1>9 DEF Sums
  <2>4. g[k - 1] \in Nat
    BY <1>1, <2>1, SumsType
  <2>5. s[a + k] \in Nat
    BY <2>1, SumsType
  <2>6. f[a] \in Nat
    <3>1. a \in 0..Len(s)
      BY <1>0
    <3> QED BY <3>1, SumsType
  <2>7. f[a + (k - 1)] = f[a] + g[k - 1]
    BY <1>3
  <2>8. f[a + k] = f[a] + g[k]
    <3>1. PICK x, y, z : x = g[k - 1] /\ y = s[a + k] /\ z = f[a]
      OBVIOUS
    <3>2. f[a + k] = (z + x) + y /\ g[k] = x + y
      BY <2>2, <2>3, <2>7, <3>1
    <3>3. x \in Nat /\ y \in Nat /\ z \in Nat
      BY <2>4, <2>5, <2>6, <3>1
    <3>4. (z + x) + y = z + (x + y)
      BY <3>3, Added
    <3> QED BY <3>1, <3>2, <3>4
  <2> QED BY <2>1, <2>8
<1> HIDE DEF P
<1>4. 0..Len(t) \subseteq P
  BY <1>0, <1>2, <1>3, UpToAll
<1>5. f[a + Len(t)] = f[a] + g[Len(t)]
  <2>1. Len(t) \in 0..Len(t)
    BY <1>0
  <2>2. Len(t) \in P
    BY <1>4, <2>1
  <2> QED BY <2>2 DEF P
<1>6. f[a] \in Nat /\ g[Len(t)] \in Nat
  <2>1. a \in 0..Len(s)
    BY <1>0
  <2> QED BY <1>1, <2>1, SumsType
<1>7. (f[a] + g[Len(t)]) - f[a] = g[Len(t)]
  BY <1>6, Added
<1> QED BY <1>1, <1>5, <1>7, TotalIsLast

\* The end of s, backwards.
LEMMA TotalBack ==
  ASSUME NEW s \in Seq(Nat), NEW f, Sums(f, s), NEW t \in Seq(Nat), IsEnd(t, s)
  PROVE  Total(t) = f[Len(s)] - f[Len(s) - Len(t)]
<1>1. PICK g : Sums(g, t)
  BY SumsExist
<1>9. Len(s) \in Nat /\ Len(t) \in Nat /\ Len(t) <= Len(s)
      /\ \A i \in 1..Len(t) : t[i] = s[Len(s) + 1 - i]
  BY DEF IsEnd
<1>0. /\ Len(s) \in Nat /\ Len(t) \in Nat /\ 0 \in 0..Len(t)
      /\ \A k \in 0..Len(t) : Len(s) - k \in 0..Len(s)
  BY <1>9
<1> DEFINE P == {k \in 0..Len(t) : f[Len(s)] = f[Len(s) - k] + g[k]}
<1>2. 0 \in P
  <2>1. Len(s) - 0 = Len(s) /\ g[0] = 0 /\ f[Len(s)] \in Nat
    BY <1>0, <1>1, SumsType
  <2> QED BY <1>0, <2>1
<1>3. ASSUME NEW k \in 1..Len(t), k - 1 \in P PROVE k \in P
  <2>1. PICK x \in 1..Len(s) : x = Len(s) + 1 - k
    BY <1>9
  <2>2. x - 1 = Len(s) - k /\ x = Len(s) - (k - 1) /\ k \in 0..Len(t) /\ k - 1 \in 0..Len(t)
    BY <1>0, <2>1
  <2>3. f[x] = f[x - 1] + s[x]
    BY DEF Sums
  <2>4. g[k] = g[k - 1] + s[x]
    BY <1>1, <1>9, <2>1 DEF Sums
  <2>5. g[k - 1] \in Nat
    BY <1>1, <2>2, SumsType
  <2>6. f[x - 1] \in Nat /\ s[x] \in Nat
    BY SumsType
  <2>7. f[Len(s)] = f[x] + g[k - 1]
    BY <1>3, <2>2
  <2>8. f[Len(s)] = f[x - 1] + g[k]
    <3>1. PICK p, q, u : p = f[x - 1] /\ q = s[x] /\ u = g[k - 1]
      OBVIOUS
    <3>2. f[Len(s)] = (p + q) + u /\ g[k] = u + q
      BY <2>3, <2>4, <2>7, <3>1
    <3>3. p \in Nat /\ q \in Nat /\ u \in Nat
      BY <2>5, <2>6, <3>1
    <3>4. (p + q) + u = p + (u + q)
      BY <3>3
    <3> QED BY <3>1, <3>2, <3>4
  <2> QED BY <2>2, <2>8
<1> HIDE DEF P
<1>4. 0..Len(t) \subseteq P
  BY <1>0, <1>2, <1>3, UpToAll
<1>5. Len(t) \in P
  BY <1>0, <1>4
<1>6. f[Len(s)] = f[Len(s) - Len(t)] + g[Len(t)]
  BY <1>5 DEF P
<1>7. f[Len(s) - Len(t)] \in Nat /\ g[Len(t)] \in Nat
  <2>1. Len(s) - Len(t) \in 0..Len(s) /\ Len(t) \in 0..Len(t)
    BY <1>0
  <2> QED BY <1>1, <2>1, SumsType
<1>8. (f[Len(s) - Len(t)] + g[Len(t)]) - f[Len(s) - Len(t)] = g[Len(t)]
  BY <1>7, Added
<1> QED BY <1>1, <1>6, <1>8, TotalIsLast

\* t is s and one more; t is one more, then s.
Extends(t, s, v) == Len(t) = Len(s) + 1 /\ t[Len(t)] = v /\ \A i \in 1..Len(s) : t[i] = s[i]
Precedes(t, s, v) == Len(t) = Len(s) + 1 /\ t[1] = v /\ \A i \in 1..Len(s) : s[i] = t[1 + i]

LEMMA TotalAppend ==
  ASSUME NEW s \in Seq(Nat), NEW t \in Seq(Nat), NEW v, Extends(t, s, v)
  PROVE  Total(t) = Total(s) + v
<1>h. Len(t) = Len(s) + 1 /\ t[Len(t)] = v /\ \A i \in 1..Len(s) : t[i] = s[i]
  BY DEF Extends
<1>0. Len(s) \in Nat /\ Len(t) \in 1..Len(t) /\ t[Len(t)] \in Nat
  BY <1>h
<1>1. PICK f : Sums(f, t)
  BY SumsExist
<1>2. Total(s) = f[0 + Len(s)] - f[0]
  <2>1. \A i \in 1..Len(s) : 0 + i = i
    OBVIOUS
  <2>2. IsStretch(s, t, 0)
    BY <1>h, <1>0, <2>1 DEF IsStretch
  <2>3. 0 \in Nat
    OBVIOUS
  <2> QED BY <1>1, <2>2, <2>3, TotalWindow
<1>4. Len(t) - 1 = Len(s) /\ 0 + Len(s) = Len(s) /\ Len(s) \in 0..Len(t)
  BY <1>h, <1>0
<1>3. f[Len(t)] = f[Len(t) - 1] + t[Len(t)] /\ f[0] = 0
  BY <1>0, <1>1 DEF Sums
<1>5. f[Len(s)] \in Nat
  BY <1>1, <1>4, SumsType
<1>6. f[Len(s)] - 0 = f[Len(s)]
  BY <1>5
<1>7. Total(t) = f[Len(t)]
  BY <1>1, TotalIsLast
<1> QED BY <1>h, <1>2, <1>3, <1>4, <1>6, <1>7

LEMMA TotalCons ==
  ASSUME NEW s \in Seq(Nat), NEW t \in Seq(Nat), NEW v, Precedes(t, s, v)
  PROVE  Total(t) = v + Total(s)
<1>h. Len(t) = Len(s) + 1 /\ t[1] = v /\ \A i \in 1..Len(s) : s[i] = t[1 + i]
  BY DEF Precedes
<1>0. Len(s) \in Nat /\ 1 \in 1..Len(t) /\ t[1] \in Nat
  BY <1>h
<1>1. PICK f : Sums(f, t)
  BY SumsExist
<1>2. Total(s) = f[1 + Len(s)] - f[1]
  <2>1. 1 + Len(s) <= Len(t) /\ 1 \in Nat
    BY <1>h, <1>0
  <2>2. IsStretch(s, t, 1)
    BY <1>h, <2>1 DEF IsStretch
  <2> QED BY <1>1, <2>1, <2>2, TotalWindow
<1>3. f[1] = f[1 - 1] + t[1] /\ f[0] = 0 /\ 1 - 1 = 0
  BY <1>0, <1>1 DEF Sums
<1>4. f[1] = t[1]
  BY <1>0, <1>3
<1>5. f[Len(t)] \in Nat /\ Len(t) = 1 + Len(s)
  <2>1. Len(t) \in 0..Len(t)
    BY <1>0
  <2> QED BY <1>h, <1>0, <1>1, <2>1, SumsType
<1>6. Total(t) = f[Len(t)]
  BY <1>1, TotalIsLast
<1>7. PICK x \in Nat, y \in Nat : x = f[Len(t)] /\ y = t[1]
  BY <1>0, <1>5
<1>8. Total(s) = x - y /\ x = y + (x - y)
  BY <1>2, <1>4, <1>5, <1>7
<1> QED BY <1>h, <1>6, <1>7, <1>8

-----------------------------------------------------------------------------
(* Snapshots.                                                              *)

Lines == Seq(Seq(Nat))

\* The bytes of each line, with its newline.
Widths(l) == [i \in 1..Len(l) |-> utf8Length(l[i]) + 1]

LEMMA WidthsType ==
  ASSUME NEW l \in Lines
  PROVE  /\ Len(l) \in Nat /\ DOMAIN l = 1..Len(l)
         /\ \A i \in 1..Len(l) : l[i] \in Seq(Nat) /\ utf8Length(l[i]) \in Nat
         /\ Widths(l) \in Seq(Nat) /\ Len(Widths(l)) = Len(l)
         /\ \A i \in 1..Len(l) : Widths(l)[i] = utf8Length(l[i]) + 1
<1>1. Len(l) \in Nat /\ DOMAIN l = 1..Len(l) /\ \A i \in 1..Len(l) : l[i] \in Seq(Nat)
  BY DEF Lines
<1>2. \A i \in 1..Len(l) : utf8Length(l[i]) \in Nat
  BY <1>1, TotalNat DEF utf8Length
<1>3. \A i \in 1..Len(l) : utf8Length(l[i]) + 1 \in Nat
  BY <1>2
<1>4. Widths(l) \in [1..Len(l) -> Nat]
  BY <1>3 DEF Widths
<1>5. Widths(l) \in Seq(Nat) /\ Len(Widths(l)) = Len(l)
  BY <1>1, <1>4
<1> QED BY <1>1, <1>2, <1>5 DEF Widths

LEMMA BytesBeforeIs ==
  ASSUME NEW l \in Lines, NEW f, Sums(f, Widths(l)), NEW n \in 0..Len(l)
  PROVE  BytesBefore(l, n) = f[n]
<1>0. /\ Len(l) \in Nat /\ n \in Nat /\ Widths(l) \in Seq(Nat) /\ Len(Widths(l)) = Len(l)
      /\ f[0] = 0 /\ f[n] \in Nat
  BY WidthsType, SumsType
<1>1. PICK t : t = [i \in 1..n |-> utf8Length(l[i]) + 1]
  OBVIOUS
<1>2. \A i \in 1..n : i \in 1..Len(l)
  BY <1>0
<1>3. \A i \in 1..n : utf8Length(l[i]) + 1 = Widths(l)[i] /\ Widths(l)[i] \in Nat
  BY <1>2, WidthsType
<1>4. t \in [1..n -> Nat] /\ \A i \in 1..n : t[i] = Widths(l)[i]
  BY <1>1, <1>3
<1>5. t \in Seq(Nat) /\ Len(t) = n
  BY <1>0, <1>4
<1>6. Total(t) = f[n] - f[0]
  <2>1. \A i \in 1..Len(t) : 0 + i = i
    BY <1>0, <1>5
  <2>2. \A i \in 1..Len(t) : t[i] = Widths(l)[0 + i]
    BY <1>4, <1>5, <2>1
  <2>3. 0 \in Nat /\ 0 + Len(t) = n /\ 0 + Len(t) <= Len(Widths(l))
    BY <1>0, <1>5
  <2>4. Total(t) = f[0 + Len(t)] - f[0]
    <3>1. IsStretch(t, Widths(l), 0)
      BY <2>2, <2>3 DEF IsStretch
    <3> QED BY <1>0, <1>5, <2>3, <3>1, TotalWindow
  <2> QED BY <2>3, <2>4
<1> QED BY <1>0, <1>1, <1>6 DEF BytesBefore

LEMMA Reversed ==
  ASSUME NEW l \in Lines
  PROVE  /\ Reverse(l) \in Lines /\ Len(Reverse(l)) = Len(l)
         /\ \A i \in 1..Len(l) : Reverse(l)[i] = l[Len(l) + 1 - i]
<1>1. Len(l) \in Nat /\ \A i \in 1..Len(l) : (Len(l) - i) + 1 = Len(l) + 1 - i /\ (Len(l) - i) + 1 \in 1..Len(l)
  BY WidthsType
<1>2. \A i \in 1..Len(l) : l[(Len(l) - i) + 1] \in Seq(Nat)
  BY <1>1, WidthsType
<1>3. Reverse(l) \in [1..Len(l) -> Seq(Nat)]
  BY <1>2 DEF Reverse
<1>4. Reverse(l) \in Seq(Seq(Nat)) /\ Len(Reverse(l)) = Len(l)
  BY <1>1, <1>3
<1> QED BY <1>1, <1>4 DEF Reverse, Lines

LEMMA BytesBehindIs ==
  ASSUME NEW l \in Lines, NEW f, Sums(f, Widths(l)), NEW n \in 0..Len(l)
  PROVE  BytesBefore(Reverse(l), n) = f[Len(l)] - f[Len(l) - n]
<1>1. PICK t : t = [i \in 1..n |-> utf8Length(Reverse(l)[i]) + 1]
  OBVIOUS
<1>0. Len(l) \in Nat /\ n \in Nat /\ Widths(l) \in Seq(Nat) /\ Len(Widths(l)) = Len(l)
  BY WidthsType
<1>2. \A i \in 1..n : i \in 1..Len(l) /\ Len(l) + 1 - i \in 1..Len(l)
  BY <1>0
<1>3. \A i \in 1..n : utf8Length(Reverse(l)[i]) + 1 = Widths(l)[Len(l) + 1 - i]
  BY <1>2, Reversed, WidthsType
<1>4. \A i \in 1..n : Widths(l)[Len(l) + 1 - i] \in Nat
  BY <1>0, <1>2
<1>5. t \in [1..n -> Nat] /\ \A i \in 1..n : t[i] = Widths(l)[Len(l) + 1 - i]
  BY <1>1, <1>3, <1>4
<1>6. t \in Seq(Nat) /\ Len(t) = n
  BY <1>0, <1>5
<1>7. Total(t) = f[Len(l)] - f[Len(l) - n]
  <2>1. Len(t) <= Len(Widths(l)) /\ \A i \in 1..Len(t) : t[i] = Widths(l)[Len(Widths(l)) + 1 - i]
    BY <1>0, <1>5, <1>6
  <2>2. Total(t) = f[Len(Widths(l))] - f[Len(Widths(l)) - Len(t)]
    <3>1. IsEnd(t, Widths(l))
      BY <2>1 DEF IsEnd
    <3> QED BY <1>0, <1>6, <3>1, TotalBack
  <2> QED BY <1>0, <1>6, <2>2
<1> QED BY <1>1, <1>7 DEF BytesBefore

\* What fits, of whole lines and of the line after them.
LEMMA Took ==
  ASSUME NEW l \in Lines, NEW budget \in Nat, NEW t, t = takeBefore(l, budget)
  PROVE  /\ t.consumed \in 0..Len(l) /\ t.partial \in Nat
         /\ BytesBefore(l, t.consumed) <= budget
         /\ t.partial # 0 =>
              /\ t.consumed < Len(l) /\ BytesBefore(l, t.consumed) < budget
              /\ t.partial \in 1..Len(l[t.consumed + 1])
              /\ utf8Length(SubSeq(l[t.consumed + 1], 1, t.partial)) <= budget - BytesBefore(l, t.consumed)
<1>0. PICK f : Sums(f, Widths(l))
  BY WidthsType, SumsExist
<1> DEFINE N == {n \in 0..Len(l) : BytesBefore(l, n) <= budget}
           consumed == Max(N)
<1>1. N \in SUBSET (0..Len(l)) /\ N # {} /\ Len(l) \in Nat
  <2>1. 0 \in 0..Len(l) /\ f[0] = 0
    BY <1>0, WidthsType, SumsType
  <2>2. BytesBefore(l, 0) = 0
    BY <1>0, <2>1, BytesBeforeIs
  <2> QED BY <2>1, <2>2, WidthsType
<1>2. consumed \in N
  BY <1>1, GreatestIs
<1> HIDE DEF consumed
<1>3. BytesBefore(l, consumed) \in Nat
  <2>1. consumed \in 0..Len(l) /\ BytesBefore(l, consumed) = f[consumed]
    BY <1>0, <1>2, BytesBeforeIs
  <2>2. f[consumed] \in Nat
    BY <1>0, <2>1, WidthsType, SumsType
  <2> QED BY <2>1, <2>2
<1>4. t = Taken(l, budget, consumed, BytesBefore(l, consumed))
  BY DEF takeBefore, consumed
<1>5. t.consumed = consumed
  BY <1>4 DEF Taken
<1>6. CASE consumed = Len(l) \/ BytesBefore(l, consumed) >= budget
  BY <1>1, <1>2, <1>4, <1>5, <1>6 DEF Taken
<1>7. CASE consumed < Len(l) /\ BytesBefore(l, consumed) < budget
  <2>1. PICK line \in Seq(Nat) : line = l[consumed + 1]
    <3>1. consumed + 1 \in 1..Len(l)
      BY <1>1, <1>2, <1>7
    <3> QED BY <3>1, WidthsType
  <2>2. t.partial = sliceByBytes(line, budget - BytesBefore(l, consumed))
    BY <1>1, <1>3, <1>4, <1>7, <2>1 DEF Taken
  <2> DEFINE M == {0} \cup {n \in DOMAIN line : utf8Length(SubSeq(line, 1, n)) <= budget - BytesBefore(l, consumed)}
  <2>3. M \in SUBSET (0..Len(line)) /\ M # {} /\ Len(line) \in Nat /\ DOMAIN line = 1..Len(line)
    OBVIOUS
  <2>4. t.partial \in M
    BY <2>2, <2>3, GreatestIs DEF sliceByBytes
  <2> QED BY <1>2, <1>5, <1>7, <2>1, <2>3, <2>4
<1> QED BY <1>1, <1>2, <1>3, <1>6, <1>7

\* A piece of a line.
Piece(l) == [line : 1..Len(l), from : Nat, to : Nat]

LEMMA WholeIs ==
  ASSUME NEW l \in Lines, NEW i \in 1..Len(l)
  PROVE  /\ Whole(l, i) \in Piece(l)
         /\ utf8Length(SubSeq(l[Whole(l, i).line], Whole(l, i).from, Whole(l, i).to)) + 1 = Widths(l)[i]
<1>1. l[i] \in Seq(Nat) /\ Widths(l)[i] = utf8Length(l[i]) + 1
  BY WidthsType
<1>2. SubSeq(l[i], 1, Len(l[i])) = l[i] /\ Len(l[i]) \in Nat
  BY <1>1
<1> QED BY <1>1, <1>2 DEF Whole, Piece

\* The widths of the c lines after the first a, and their sum.
Stretch(l, f, a, c) ==
  \E t \in Seq(Nat) : /\ Len(t) = c /\ Total(t) = f[a + c] - f[a]
                      /\ \A i \in 1..c : t[i] = Widths(l)[a + i]

\* A stretch of whole lines.
LEMMA WholesTotal ==
  ASSUME NEW l \in Lines, NEW f, Sums(f, Widths(l)), NEW a \in Nat, NEW c \in Nat, a + c <= Len(l)
  PROVE  Stretch(l, f, a, c)
<1>0. Len(l) \in Nat /\ Widths(l) \in Seq(Nat) /\ Len(Widths(l)) = Len(l)
  BY WidthsType
<1>1. \A i \in 1..c : a + i \in 1..Len(l)
  BY <1>0
<1>2. \A i \in 1..c : Widths(l)[a + i] \in Nat
  BY <1>0, <1>1
<1>6. PICK t : t = [i \in 1..c |-> Widths(l)[a + i]]
  OBVIOUS
<1>3. t \in [1..c -> Nat] /\ \A i \in 1..c : t[i] = Widths(l)[a + i]
  BY <1>2, <1>6
<1>4. t \in Seq(Nat) /\ Len(t) = c
  BY <1>3
<1>5. Total(t) = f[a + Len(t)] - f[a]
  <2>1. IsStretch(t, Widths(l), a)
    BY <1>0, <1>3, <1>4 DEF IsStretch
  <2> QED BY <1>0, <1>4, <2>1, TotalWindow
<1> QED BY <1>3, <1>4, <1>5 DEF Stretch

\* The sequence of what f gives for 1..c, alone and with one element more.
LEMMA Listed ==
  ASSUME NEW c \in Nat, NEW T, NEW f \in [1..c -> T]
  PROVE  f \in Seq(T) /\ Len(f) = c /\ DOMAIN f = 1..c /\ ((f = <<>>) <=> (c = 0))
<1>2. f \in Seq(T)
  OBVIOUS
<1>3. Len(f) = c /\ DOMAIN f = 1..c
  OBVIOUS
<1> QED BY <1>2, <1>3

LEMMA ListedThen ==
  ASSUME NEW S, NEW s \in Seq(S), NEW e
  PROVE  /\ DOMAIN (s \o <<e>>) = 1..(Len(s) + 1) /\ (s \o <<e>>)[Len(s) + 1] = e
         /\ \A i \in 1..Len(s) : (s \o <<e>>)[i] = s[i]
         /\ s \o <<e>> # <<>>
<1>1. s \in Seq(S \cup {e}) /\ <<e>> \in Seq(S \cup {e}) /\ Len(<<e>>) = 1
  OBVIOUS
<1>2. PICK t : t = s \o <<e>>
  OBVIOUS
<1>3. t \in Seq(S \cup {e}) /\ Len(t) = Len(s) + 1 /\ Len(s) \in Nat
  BY <1>1, <1>2
<1>4. t[Len(s) + 1] = e /\ \A i \in 1..Len(s) : t[i] = s[i]
  BY <1>1, <1>2, <1>3
<1>5. t # <<>>
  BY <1>3
<1> QED BY <1>2, <1>3, <1>4, <1>5

LEMMA ThenListed ==
  ASSUME NEW S, NEW s \in Seq(S), NEW e
  PROVE  /\ DOMAIN (<<e>> \o s) = 1..(Len(s) + 1) /\ (<<e>> \o s)[1] = e
         /\ \A i \in 1..Len(s) : (<<e>> \o s)[1 + i] = s[i]
         /\ <<e>> \o s # <<>>
<1>1. s \in Seq(S \cup {e}) /\ <<e>> \in Seq(S \cup {e}) /\ Len(<<e>>) = 1
  OBVIOUS
<1>2. PICK t : t = <<e>> \o s
  OBVIOUS
<1>3. t \in Seq(S \cup {e}) /\ Len(t) = Len(s) + 1 /\ Len(s) \in Nat
  BY <1>1, <1>2
<1>4. t[1] = e
  BY <1>1, <1>2, <1>3
<1>6. \A i \in 1..Len(s) : t[1 + i] = s[i]
  BY <1>1, <1>2, <1>3
<1>5. t # <<>>
  BY <1>3
<1> QED BY <1>2, <1>3, <1>4, <1>5, <1>6

\* What a piece costs beyond whole lines, and what both are together.
PieceWidth(l, piece) == utf8Length(SubSeq(l[piece.line], piece.from, piece.to)) + 1

\* w lists the widths of the n pieces.
AreWidths(w, l, pieces, n) ==
  /\ DOMAIN pieces = 1..n /\ ((pieces = <<>>) <=> (n = 0))
  /\ Len(w) = n /\ \A i \in 1..n : w[i] = PieceWidth(l, pieces[i])

LEMMA PiecesAre ==
  ASSUME NEW l \in Lines, NEW pieces, NEW n \in Nat,
         NEW w \in Seq(Nat), AreWidths(w, l, pieces, n)
  PROVE  Rendered(l, pieces) = Total(w) - (IF n = 0 THEN 0 ELSE 1)
<1>0. /\ DOMAIN pieces = 1..n /\ ((pieces = <<>>) <=> (n = 0))
      /\ Len(w) = n /\ \A i \in 1..n : w[i] = PieceWidth(l, pieces[i])
  BY DEF AreWidths
<1>1. DOMAIN w = 1..n
  BY <1>0
<1>2. w = [i \in 1..n |-> w[i]]
  BY <1>1
<1>3. w = [i \in DOMAIN pieces |->
             utf8Length(SubSeq(l[pieces[i].line], pieces[i].from, pieces[i].to)) + 1]
  BY <1>0, <1>2 DEF PieceWidth
<1> QED BY <1>0, <1>3 DEF Rendered

LEMMA PartialWidth ==
  ASSUME NEW l \in Lines, NEW i \in 1..Len(l), NEW p \in 1..Len(l[i])
  PROVE  PieceWidth(l, [line |-> i, from |-> 1, to |-> p]) = utf8Length(SubSeq(l[i], 1, p)) + 1
         /\ utf8Length(SubSeq(l[i], 1, p)) \in Nat
<1>1. l[i] \in Seq(Nat)
  BY WidthsType
<1>2. SubSeq(l[i], 1, p) \in Seq(Nat)
  BY <1>1
<1> QED BY <1>2, TotalNat DEF PieceWidth, utf8Length

LEMMA WholeWidth ==
  ASSUME NEW l \in Lines, NEW i \in 1..Len(l)
  PROVE  PieceWidth(l, Whole(l, i)) = Widths(l)[i]
BY WholeIs DEF PieceWidth

HeadPieces(l, consumed, partial) ==
  [i \in 1..consumed |-> Whole(l, i)] \o Partial(consumed + 1, partial)

TailPieces(l, consumed, partial) ==
  Partial(Len(l) - consumed, partial) \o [i \in 1..consumed |-> Whole(l, Len(l) - consumed + i)]

LEMMA HeadSum ==
  ASSUME NEW k \in Nat, NEW u \in Nat, NEW d \in Nat, NEW x, x = (k + (u + 1)) - 1, u <= d - k
  PROVE  x \in Int /\ x <= d
OBVIOUS

LEMMA TailSum ==
  ASSUME NEW k \in Int, NEW u \in Nat, NEW d \in Nat, NEW x, x = ((u + 1) + k) - 1, u <= d - k
  PROVE  x \in Int /\ x <= d
OBVIOUS

\* The head of a snapshot keeps to its share.
LEMMA HeadFits ==
  ASSUME NEW l \in Lines, NEW budget \in Nat, NEW t, t = takeBefore(l, budget),
         NEW pieces, pieces = HeadPieces(l, t.consumed, t.partial)
  PROVE  Rendered(l, pieces) \in Int /\ Rendered(l, pieces) <= budget
<1>1. PICK f : Sums(f, Widths(l))
  BY WidthsType, SumsExist
<1>2. PICK c \in 0..Len(l), p \in Nat : c = t.consumed /\ p = t.partial
  BY Took
<1>0. /\ Len(l) \in Nat /\ c \in Nat /\ Widths(l) \in Seq(Nat) /\ Len(Widths(l)) = Len(l)
      /\ f[0] = 0 /\ f[c] \in Nat /\ BytesBefore(l, c) = f[c]
  BY <1>1, WidthsType, SumsType, BytesBeforeIs
<1>3. PICK w \in Seq(Nat) : /\ Len(w) = c /\ Total(w) = f[0 + c] - f[0]
                          /\ \A i \in 1..c : w[i] = Widths(l)[0 + i]
  <2>1. 0 \in Nat /\ 0 + c <= Len(l)
    BY <1>0
  <2> QED BY <1>0, <1>1, <2>1, WholesTotal DEF Stretch
<1>4. Len(w) = c /\ Total(w) = f[c]
  BY <1>0, <1>3
<1>5. f[c] <= budget
  BY <1>0, <1>2, Took
<1>6. \A i \in 1..c : w[i] = PieceWidth(l, Whole(l, i))
  <2>1. \A i \in 1..c : 0 + i = i /\ i \in 1..Len(l)
    BY <1>0
  <2> QED BY <1>3, <2>1, WholeWidth
<1>10. PICK q : q = [i \in 1..c |-> Whole(l, i)]
  OBVIOUS
<1> DEFINE T == {Whole(l, i) : i \in 1..c}
<1>9. /\ q \in Seq(T) /\ Len(q) = c /\ DOMAIN q = 1..c /\ ((q = <<>>) <=> (c = 0))
      /\ \A i \in 1..c : q[i] = Whole(l, i)
  <2>1. \A i \in 1..c : Whole(l, i) \in T
    OBVIOUS
  <2> HIDE DEF T
  <2>2. q \in [1..c -> T] /\ \A i \in 1..c : q[i] = Whole(l, i)
    BY <1>10, <2>1
  <2>3. c \in Nat
    BY <1>0
  <2> QED BY <2>2, <2>3, Listed
<1> HIDE DEF T
<1>11. c \in Nat /\ 1 \in 1..(c + 1) /\ c + 1 \in Nat /\ c + 1 # 0
  BY <1>0
<1>7. CASE p = 0
  <2>1. pieces = q
    BY <1>2, <1>7, <1>9, <1>10 DEF Partial, HeadPieces, TailPieces
  <2>2. DOMAIN pieces = 1..c /\ ((pieces = <<>>) <=> (c = 0))
    BY <1>9, <2>1
  <2>4. \A i \in 1..c : w[i] = PieceWidth(l, pieces[i])
    BY <1>6, <1>9, <2>1
  <2>7. AreWidths(w, l, pieces, c)
    BY <1>4, <2>2, <2>4 DEF AreWidths
  <2>3. Rendered(l, pieces) = Total(w) - (IF c = 0 THEN 0 ELSE 1)
    BY <1>11, <2>7, PiecesAre
  <2>5. PICK k \in Nat : k = f[c]
    BY <1>0
  <2>6. Rendered(l, pieces) = k - (IF c = 0 THEN 0 ELSE 1) /\ k <= budget
    BY <1>4, <1>5, <2>3, <2>5
  <2> QED BY <2>5, <2>6
<1>8. CASE p # 0
  <2>0. /\ c + 1 \in 1..Len(l) /\ p \in 1..Len(l[c + 1])
        /\ utf8Length(SubSeq(l[c + 1], 1, p)) <= budget - f[c]
    <3>1. /\ c < Len(l) /\ p \in 1..Len(l[c + 1])
          /\ utf8Length(SubSeq(l[c + 1], 1, p)) <= budget - BytesBefore(l, c)
      BY <1>2, <1>8, Took
    <3> QED BY <1>0, <3>1
  <2>1. PICK u \in Nat : u = utf8Length(SubSeq(l[c + 1], 1, p))
    BY <2>0, PartialWidth
  <2>2. PICK x : x = Append(w, u + 1)
    OBVIOUS
  <2>3. x \in Seq(Nat) /\ Len(x) = c + 1 /\ x[c + 1] = u + 1 /\ \A i \in 1..c : x[i] = w[i]
    <3>1. u + 1 \in Nat /\ x \in Seq(Nat) /\ Len(x) = Len(w) + 1
      BY <2>1, <2>2
    <3>2. x[Len(w) + 1] = u + 1 /\ \A i \in 1..Len(w) : x[i] = w[i]
      BY <2>1, <2>2
    <3> QED BY <1>4, <3>1, <3>2
  <2>4. Total(x) = f[c] + (u + 1)
    <3>1. Extends(x, w, u + 1)
      BY <1>4, <2>3 DEF Extends
    <3> QED BY <1>4, <2>3, <3>1, TotalAppend
  <2>5. /\ DOMAIN pieces = 1..(c + 1) /\ pieces[c + 1] = [line |-> c + 1, from |-> 1, to |-> p]
        /\ \A i \in 1..c : pieces[i] = Whole(l, i)
        /\ pieces # <<>>
    <3>1. PICK e : e = [line |-> c + 1, from |-> 1, to |-> p]
      OBVIOUS
    <3>2. pieces = q \o <<e>>
      BY <1>2, <1>8, <1>10, <3>1 DEF Partial, HeadPieces
    <3>3. /\ DOMAIN (q \o <<e>>) = 1..(c + 1) /\ (q \o <<e>>)[c + 1] = e
          /\ \A i \in 1..c : (q \o <<e>>)[i] = q[i]
          /\ q \o <<e>> # <<>>
      BY <1>9, ListedThen
    <3> QED BY <1>9, <3>1, <3>2, <3>3
  <2>6. \A i \in 1..(c + 1) : x[i] = PieceWidth(l, pieces[i])
    <3>1. \A i \in 1..(c + 1) : i = c + 1 \/ i \in 1..c
      BY <1>0
    <3>2. x[c + 1] = PieceWidth(l, pieces[c + 1])
      BY <2>0, <2>1, <2>3, <2>5, PartialWidth
    <3>3. \A i \in 1..c : x[i] = PieceWidth(l, pieces[i])
      BY <1>6, <1>9, <2>3, <2>5
    <3> QED BY <3>1, <3>2, <3>3
  <2>7. c + 1 \in Nat /\ c + 1 # 0 /\ pieces # <<>>
    BY <1>11, <2>5
  <2>8. Rendered(l, pieces) = Total(x) - 1
    <3>1. AreWidths(x, l, pieces, c + 1)
      BY <2>3, <2>5, <2>6, <2>7 DEF AreWidths
    <3>2. Rendered(l, pieces) = Total(x) - (IF c + 1 = 0 THEN 0 ELSE 1)
      BY <2>3, <2>7, <3>1, PiecesAre
    <3> QED BY <2>7, <3>2
  <2>9. PICK k \in Nat : k = f[c]
    BY <1>0
  <2>10. Rendered(l, pieces) = (k + (u + 1)) - 1 /\ u <= budget - k
    BY <2>0, <2>1, <2>4, <2>8, <2>9
  <2> QED BY <2>10, HeadSum
<1> QED BY <1>7, <1>8

\* The tail of a snapshot keeps to its share: it is taken from the reversed
\* conversation and shown in the order of the conversation.
LEMMA TailFits ==
  ASSUME NEW l \in Lines, NEW budget \in Nat, NEW t, t = takeBefore(Reverse(l), budget),
         NEW n, n = Len(l), NEW pieces, pieces = TailPieces(l, t.consumed, t.partial)
  PROVE  Rendered(l, pieces) \in Int /\ Rendered(l, pieces) <= budget
<1>1. PICK f : Sums(f, Widths(l))
  BY WidthsType, SumsExist
<1>2. PICK c \in 0..n, p \in Nat : c = t.consumed /\ p = t.partial
  BY Reversed, Took
<1>0. /\ n \in Nat /\ c \in Nat /\ n - c \in Nat /\ (n - c) + c = n /\ Widths(l) \in Seq(Nat)
      /\ Len(Widths(l)) = n /\ f[n - c] \in Nat /\ f[n] \in Nat
      /\ BytesBefore(Reverse(l), c) = f[n] - f[n - c]
  <2>1. n \in Nat /\ c \in Nat /\ n - c \in 0..n /\ n \in 0..n /\ n - c \in Nat /\ (n - c) + c = n
    BY WidthsType
  <2>2. Widths(l) \in Seq(Nat) /\ Len(Widths(l)) = n
    BY WidthsType
  <2> QED BY <1>1, <2>1, <2>2, SumsType, BytesBehindIs
<1>3. PICK w \in Seq(Nat) : /\ Len(w) = c /\ Total(w) = f[(n - c) + c] - f[n - c]
                          /\ \A i \in 1..c : w[i] = Widths(l)[(n - c) + i]
  <2>1. PICK a \in Nat : a = n - c
    BY <1>0
  <2>2. a + c <= Len(l) /\ c \in Nat
    BY <1>0, <2>1
  <2>3. Stretch(l, f, a, c)
    BY <1>1, <2>1, <2>2, WholesTotal
  <2> QED BY <2>1, <2>3 DEF Stretch
<1>4. Len(w) = c /\ Total(w) = f[n] - f[n - c]
  BY <1>0, <1>3
<1>5. f[n] - f[n - c] <= budget
  BY <1>0, <1>2, Reversed, Took
<1>6. \A i \in 1..c : w[i] = PieceWidth(l, Whole(l, n - c + i))
  <2>1. \A i \in 1..c : (n - c) + i \in 1..Len(l)
    BY <1>0
  <2> QED BY <1>3, <2>1, WholeWidth
<1>10. PICK q : q = [i \in 1..c |-> Whole(l, n - c + i)]
  OBVIOUS
<1> DEFINE T == {Whole(l, n - c + i) : i \in 1..c}
<1>9. /\ q \in Seq(T) /\ Len(q) = c /\ DOMAIN q = 1..c /\ ((q = <<>>) <=> (c = 0))
      /\ \A i \in 1..c : q[i] = Whole(l, n - c + i)
  <2>1. \A i \in 1..c : Whole(l, n - c + i) \in T
    OBVIOUS
  <2> HIDE DEF T
  <2>2. q \in [1..c -> T] /\ \A i \in 1..c : q[i] = Whole(l, n - c + i)
    BY <1>10, <2>1
  <2>3. c \in Nat
    BY <1>0
  <2> QED BY <2>2, <2>3, Listed
<1> HIDE DEF T
<1>11. c \in Nat /\ 1 \in 1..(c + 1) /\ c + 1 \in Nat /\ c + 1 # 0
  BY <1>0
<1>7. CASE p = 0
  <2>1. pieces = q
    BY <1>2, <1>7, <1>9, <1>10 DEF Partial, HeadPieces, TailPieces
  <2>2. DOMAIN pieces = 1..c /\ ((pieces = <<>>) <=> (c = 0))
    BY <1>9, <2>1
  <2>3. \A i \in 1..c : w[i] = PieceWidth(l, pieces[i])
    BY <1>6, <1>9, <2>1
  <2>7. AreWidths(w, l, pieces, c)
    BY <1>4, <2>2, <2>3 DEF AreWidths
  <2>4. Rendered(l, pieces) = Total(w) - (IF c = 0 THEN 0 ELSE 1)
    BY <1>11, <2>7, PiecesAre
  <2>5. PICK k \in Int : k = f[n] - f[n - c]
    BY <1>0
  <2>6. Rendered(l, pieces) = k - (IF c = 0 THEN 0 ELSE 1) /\ k <= budget
    BY <1>4, <1>5, <2>4, <2>5
  <2> QED BY <2>5, <2>6
<1>8. CASE p # 0
  <2>9. PICK z : z = n - c
    OBVIOUS
  <2>0. /\ z \in 1..Len(l) /\ p \in 1..Len(l[z])
        /\ utf8Length(SubSeq(l[z], 1, p)) <= budget - (f[n] - f[n - c])
    <3>1. PICK r : r = Reverse(l)
      OBVIOUS
    <3>2. r \in Lines /\ Len(r) = n
      BY <3>1, Reversed
    <3>3. /\ c < Len(r) /\ p \in 1..Len(r[c + 1])
          /\ utf8Length(SubSeq(r[c + 1], 1, p)) <= budget - (f[n] - f[n - c])
      BY <1>0, <1>2, <1>8, <3>1, <3>2, Took
    <3>6. c < n /\ n = Len(l) /\ n \in Nat /\ c \in Nat
      BY <1>0, <3>2, <3>3
    <3>4. c + 1 \in 1..Len(l) /\ Len(l) + 1 - (c + 1) = z /\ z \in 1..Len(l)
      BY <2>9, <3>6
    <3>5. r[c + 1] = l[z]
      BY <3>1, <3>4, Reversed
    <3> QED BY <3>3, <3>4, <3>5
  <2>1. PICK u \in Nat : u = utf8Length(SubSeq(l[z], 1, p))
    BY <2>0, PartialWidth
  <2>2. PICK x : x = <<u + 1>> \o w
    OBVIOUS
  <2>3. x \in Seq(Nat) /\ Len(x) = c + 1 /\ x[1] = u + 1 /\ \A i \in 1..c : w[i] = x[1 + i]
    <3>1. u + 1 \in Nat
      BY <2>1
    <3>2. <<u + 1>> \in Seq(Nat) /\ Len(<<u + 1>>) = 1 /\ <<u + 1>>[1] = u + 1
      BY <3>1
    <3>3. x \in Seq(Nat) /\ Len(x) = 1 + Len(w) /\ x[1] = u + 1
      BY <2>2, <3>2
    <3>4. \A i \in 1..Len(w) : w[i] = x[1 + i]
      BY <2>2, <3>2
    <3>5. Len(w) = c /\ c \in Nat
      BY <1>0, <1>4
    <3> QED BY <3>3, <3>4, <3>5
  <2>4. Total(x) = (u + 1) + Total(w)
    <3>1. Precedes(x, w, u + 1)
      BY <1>4, <2>3 DEF Precedes
    <3> QED BY <1>4, <2>3, <3>1, TotalCons
  <2>5. /\ DOMAIN pieces = 1..(c + 1) /\ pieces[1] = [line |-> z, from |-> 1, to |-> p]
        /\ \A i \in 1..c : pieces[1 + i] = q[i]
        /\ pieces # <<>>
    <3>1. PICK e : e = [line |-> z, from |-> 1, to |-> p]
      OBVIOUS
    <3>2. pieces = <<e>> \o q
      BY <1>2, <1>8, <1>10, <2>9, <3>1 DEF Partial, TailPieces
    <3>3. /\ DOMAIN (<<e>> \o q) = 1..(c + 1) /\ (<<e>> \o q)[1] = e
          /\ \A i \in 1..c : (<<e>> \o q)[1 + i] = q[i]
          /\ <<e>> \o q # <<>>
      <4>1. q \in Seq(T) /\ Len(q) = c
        BY <1>9
      <4> QED BY <4>1, ThenListed
    <3> QED BY <3>1, <3>2, <3>3
  <2>6. \A i \in 1..(c + 1) : x[i] = PieceWidth(l, pieces[i])
    <3>1. x[1] = PieceWidth(l, pieces[1])
      BY <2>0, <2>1, <2>3, <2>5, PartialWidth
    <3>2. ASSUME NEW i \in 1..c PROVE x[1 + i] = PieceWidth(l, pieces[1 + i])
      <4>1. x[1 + i] = w[i] /\ pieces[1 + i] = q[i] /\ q[i] = Whole(l, n - c + i)
        BY <1>9, <2>3, <2>5
      <4> QED BY <1>6, <4>1
    <3>3. \A i \in 1..(c + 1) : i = 1 \/ (i - 1 \in 1..c /\ 1 + (i - 1) = i)
      BY <1>0
    <3> QED BY <3>1, <3>2, <3>3
  <2>7. c + 1 \in Nat /\ c + 1 # 0 /\ pieces # <<>>
    BY <1>11, <2>5
  <2>8. Rendered(l, pieces) = Total(x) - 1
    <3>1. AreWidths(x, l, pieces, c + 1)
      BY <2>3, <2>5, <2>6, <2>7 DEF AreWidths
    <3>2. Rendered(l, pieces) = Total(x) - (IF c + 1 = 0 THEN 0 ELSE 1)
      BY <2>3, <2>7, <3>1, PiecesAre
    <3> QED BY <2>7, <3>2
  <2>10. PICK k \in Int : k = f[n] - f[n - c]
    BY <1>0
  <2>11. Rendered(l, pieces) = ((u + 1) + k) - 1 /\ u <= budget - k
    BY <1>4, <2>0, <2>1, <2>4, <2>8, <2>10
  <2> QED BY <2>11, TailSum
<1> QED BY <1>7, <1>8

LEMMA Closer ==
  ASSUME NEW k \in Nat, NEW m \in Nat, NEW d \in Nat, NEW y \in Nat, k - m <= d, m <= y
  PROVE  k - y <= d /\ k - y <= d + 1
OBVIOUS

LEMMA TooMany ==
  ASSUME NEW k \in Nat, NEW h \in Nat, NEW t \in Nat, NEW x \in Nat,
         k > h + t + 1, x <= h + 1, k - x <= t
  PROVE  FALSE
OBVIOUS

LEMMA TooManyBehind ==
  ASSUME NEW k \in Nat, NEW h \in Nat, NEW t \in Nat, NEW x \in Nat,
         k > h + t + 1, x <= h, k - x <= t + 1
  PROVE  FALSE
OBVIOUS

LEMMA OneLineMore ==
  ASSUME NEW k \in Nat, NEW m \in Nat, NEW d \in Nat, NEW y \in Nat, NEW u \in Nat,
         m = y + (u + 1), u <= d - (k - m)
  PROVE  k - y <= d + 1
OBVIOUS

LEMMA HeadPiece ==
  ASSUME NEW l \in Lines, NEW f, Sums(f, Widths(l)), NEW budget \in Nat, NEW t, t = takeBefore(l, budget),
         NEW e \in ToSet(HeadPieces(l, t.consumed, t.partial))
  PROVE  /\ e.line \in 1..Len(l) /\ f[e.line - 1] <= budget
         /\ e = Whole(l, e.line) => f[e.line] <= budget + 1
<1>1. PICK c \in 0..Len(l), p \in Nat : c = t.consumed /\ p = t.partial
  BY Took
<1>2. Len(l) \in Nat /\ c \in Nat /\ Len(Widths(l)) = Len(l) /\ Widths(l) \in Seq(Nat)
  BY WidthsType
<1>3. BytesBefore(l, c) = f[c] /\ f[c] <= budget /\ f[c] \in Nat
  <2>1. BytesBefore(l, c) = f[c] /\ f[c] \in Nat
    BY <1>2, BytesBeforeIs, SumsType
  <2> QED BY <1>1, <2>1, Took
<1>4. \/ \E i \in 1..c : e = Whole(l, i)
      \/ p # 0 /\ e = [line |-> c + 1, from |-> 1, to |-> p]
  <2>1. PICK s : s = [i \in 1..c |-> Whole(l, i)]
    OBVIOUS
  <2> DEFINE T == {Whole(l, i) : i \in 1..c}
  <2>2. \A i \in 1..c : Whole(l, i) \in T
    OBVIOUS
  <2>3. s \in [1..c -> T]
    <3> HIDE DEF T
    <3> QED BY <2>1, <2>2
  <2>4. s \in Seq(T) /\ Len(s) = c /\ DOMAIN s = 1..c /\ \A i \in 1..c : s[i] \in T
    <3> HIDE DEF T
    <3>1. s \in Seq(T) /\ Len(s) = c /\ DOMAIN s = 1..c
      BY <1>2, <2>3, Listed
    <3> QED BY <2>3, <3>1
  <2>5. CASE p = 0
    <3>1. HeadPieces(l, c, p) = s
      BY <2>1, <2>4, <2>5 DEF HeadPieces, Partial
    <3>2. e \in T
      <4> HIDE DEF T
      <4> QED BY <1>1, <2>4, <3>1 DEF ToSet
    <3> QED BY <3>2
  <2>6. CASE p # 0
    <3>1. PICK d : d = [line |-> c + 1, from |-> 1, to |-> p]
      OBVIOUS
    <3>2. HeadPieces(l, c, p) = s \o <<d>>
      BY <2>1, <2>6, <3>1 DEF HeadPieces, Partial
    <3>3. /\ DOMAIN (s \o <<d>>) = 1..(c + 1) /\ (s \o <<d>>)[c + 1] = d
          /\ \A i \in 1..c : (s \o <<d>>)[i] = s[i]
      <4> HIDE DEF T
      <4> QED BY <2>4, ListedThen
    <3>4. PICK j \in 1..(c + 1) : e = (s \o <<d>>)[j]
      BY <1>1, <3>2, <3>3 DEF ToSet
    <3>5. j = c + 1 \/ j \in 1..c
      BY <1>2
    <3>6. e = d \/ e \in T
      <4> HIDE DEF T
      <4> QED BY <2>4, <3>3, <3>4, <3>5
    <3> QED BY <2>6, <3>1, <3>6
  <2> QED BY <2>5, <2>6
<1>5. CASE \E i \in 1..c : e = Whole(l, i)
  <2>1. PICK i \in 1..c : e = Whole(l, i)
    BY <1>5
  <2>2. i \in 1..Len(l) /\ i \in 0..Len(l) /\ i - 1 \in 0..Len(l) /\ i <= c /\ i - 1 <= c
    BY <1>2
  <2>3. f[i] <= f[c] /\ f[i - 1] <= f[c] /\ f[i] \in Nat /\ f[i - 1] \in Nat
    BY <1>2, <2>2, SumsRise, SumsType
  <2>4. e.line = i
    BY <2>1 DEF Whole
  <2> QED BY <1>3, <2>2, <2>3, <2>4
<1>6. CASE p # 0 /\ e = [line |-> c + 1, from |-> 1, to |-> p]
  <2>1. /\ c < Len(l) /\ p \in 1..Len(l[c + 1])
        /\ utf8Length(SubSeq(l[c + 1], 1, p)) <= budget - f[c]
    BY <1>1, <1>3, <1>6, Took
  <2>2. e.line = c + 1 /\ c + 1 \in 1..Len(l) /\ (c + 1) - 1 = c
    BY <1>2, <1>6, <2>1
  <2>3. ASSUME e = Whole(l, c + 1) PROVE f[c + 1] <= budget + 1
    <3>1. p = Len(l[c + 1]) /\ l[c + 1] \in Seq(Nat)
      BY <1>6, <2>2, <2>3, WidthsType DEF Whole
    <3>2. SubSeq(l[c + 1], 1, p) = l[c + 1]
      BY <3>1
    <3>3. PICK u \in Nat : u = utf8Length(l[c + 1])
      BY <2>2, WidthsType
    <3>4. Widths(l)[c + 1] = u + 1 /\ u <= budget - f[c]
      BY <2>1, <2>2, <3>2, <3>3, WidthsType
    <3>5. f[c + 1] = f[(c + 1) - 1] + Widths(l)[c + 1]
      BY <1>2, <2>2 DEF Sums
    <3>6. PICK k \in Nat : k = f[c]
      BY <1>3
    <3>7. f[c + 1] = k + (u + 1) /\ u <= budget - k
      BY <2>2, <3>4, <3>5, <3>6
    <3> QED BY <3>3, <3>6, <3>7
  <2> QED BY <1>3, <2>2, <2>3
<1> QED BY <1>4, <1>5, <1>6

LEMMA TailPiece ==
  ASSUME NEW l \in Lines, NEW f, Sums(f, Widths(l)), NEW budget \in Nat,
         NEW t, t = takeBefore(Reverse(l), budget), NEW n, n = Len(l),
         NEW e \in ToSet(TailPieces(l, t.consumed, t.partial))
  PROVE  /\ e.line \in 1..n /\ f[n] - f[e.line] <= budget
         /\ e = Whole(l, e.line) => f[n] - f[e.line - 1] <= budget + 1
<1>1. PICK c \in 0..n, p \in Nat : c = t.consumed /\ p = t.partial
  BY Reversed, Took
<1>2. /\ n \in Nat /\ c \in Nat /\ n - c \in 0..n /\ n \in 0..n
      /\ Len(Widths(l)) = n /\ Widths(l) \in Seq(Nat)
  BY WidthsType
<1>3. PICK k \in Nat, m \in Nat : k = f[n] /\ m = f[n - c]
  BY <1>2, SumsType
<1>4. BytesBefore(Reverse(l), c) = k - m /\ k - m <= budget
  <2>1. BytesBefore(Reverse(l), c) = k - m
    BY <1>2, <1>3, BytesBehindIs
  <2> QED BY <1>1, <2>1, Reversed, Took
<1>5. \/ \E i \in 1..c : e = Whole(l, (n - c) + i)
      \/ p # 0 /\ e = [line |-> n - c, from |-> 1, to |-> p]
  <2>1. PICK s : s = [i \in 1..c |-> Whole(l, (n - c) + i)]
    OBVIOUS
  <2> DEFINE T == {Whole(l, (n - c) + i) : i \in 1..c}
  <2>2. \A i \in 1..c : Whole(l, (n - c) + i) \in T
    OBVIOUS
  <2>3. s \in [1..c -> T]
    <3> HIDE DEF T
    <3> QED BY <2>1, <2>2
  <2>4. s \in Seq(T) /\ Len(s) = c /\ DOMAIN s = 1..c /\ \A i \in 1..c : s[i] \in T
    <3> HIDE DEF T
    <3>1. s \in Seq(T) /\ Len(s) = c /\ DOMAIN s = 1..c
      BY <1>2, <2>3, Listed
    <3> QED BY <2>3, <3>1
  <2>5. CASE p = 0
    <3>1. TailPieces(l, c, p) = s
      BY <2>1, <2>4, <2>5 DEF TailPieces, Partial
    <3>2. e \in T
      <4> HIDE DEF T
      <4> QED BY <1>1, <2>4, <3>1 DEF ToSet
    <3> QED BY <3>2
  <2>6. CASE p # 0
    <3>1. PICK d : d = [line |-> n - c, from |-> 1, to |-> p]
      OBVIOUS
    <3>2. TailPieces(l, c, p) = <<d>> \o s
      BY <2>1, <2>6, <3>1 DEF TailPieces, Partial
    <3>3. /\ DOMAIN (<<d>> \o s) = 1..(c + 1) /\ (<<d>> \o s)[1] = d
          /\ \A i \in 1..c : (<<d>> \o s)[1 + i] = s[i]
      <4> HIDE DEF T
      <4> QED BY <2>4, ThenListed
    <3>4. PICK j \in 1..(c + 1) : e = (<<d>> \o s)[j]
      BY <1>1, <3>2, <3>3 DEF ToSet
    <3>5. j = 1 \/ (j - 1 \in 1..c /\ 1 + (j - 1) = j)
      BY <1>2
    <3>6. e = d \/ e \in T
      <4> HIDE DEF T
      <4> QED BY <2>4, <3>3, <3>4, <3>5
    <3> QED BY <2>6, <3>1, <3>6
  <2> QED BY <2>5, <2>6
<1>6. CASE \E i \in 1..c : e = Whole(l, (n - c) + i)
  <2>1. PICK i, x : i \in 1..c /\ e = Whole(l, x) /\ x = (n - c) + i
    BY <1>6
  <2>2. x \in 1..n /\ x \in 0..n /\ x - 1 \in 0..n /\ n - c <= x /\ n - c <= x - 1
    BY <1>2, <2>1
  <2>3. f[n - c] <= f[x] /\ f[n - c] <= f[x - 1]
    BY <1>2, <2>2, SumsRise
  <2>4. PICK y \in Nat, z \in Nat : y = f[x] /\ z = f[x - 1]
    BY <1>2, <2>2, SumsType
  <2>5. e.line = x
    BY <2>1 DEF Whole
  <2>7. m <= y /\ m <= z
    BY <1>3, <2>3, <2>4
  <2>6. k - y <= budget /\ k - z <= budget + 1
    BY <1>4, <2>7, Closer
  <2> QED BY <1>3, <2>2, <2>4, <2>5, <2>6
<1>7. CASE p # 0 /\ e = [line |-> n - c, from |-> 1, to |-> p]
  <2>1. PICK z : z = n - c
    OBVIOUS
  <2>2. /\ z \in 1..n /\ p \in 1..Len(l[z])
        /\ utf8Length(SubSeq(l[z], 1, p)) <= budget - (k - m)
    <3>1. PICK r : r = Reverse(l)
      OBVIOUS
    <3>2. r \in Lines /\ Len(r) = n
      BY <3>1, Reversed
    <3>3. /\ c < Len(r) /\ p \in 1..Len(r[c + 1])
          /\ utf8Length(SubSeq(r[c + 1], 1, p)) <= budget - (k - m)
      BY <1>1, <1>4, <1>7, <3>1, <3>2, Took
    <3>4. c < n
      BY <3>2, <3>3
    <3>5. c + 1 \in 1..n /\ n + 1 - (c + 1) = z /\ z \in 1..n
      BY <1>2, <2>1, <3>4
    <3>6. r[c + 1] = l[z]
      BY <3>1, <3>5, Reversed
    <3> QED BY <3>3, <3>5, <3>6
  <2>3. e.line = z /\ e.to = p
    BY <1>7, <2>1
  <2>4. ASSUME e = Whole(l, z) PROVE k - f[z - 1] <= budget + 1
    <3>1. p = Len(l[z]) /\ l[z] \in Seq(Nat)
      BY <2>2, <2>3, <2>4, WidthsType DEF Whole
    <3>2. SubSeq(l[z], 1, p) = l[z]
      BY <3>1
    <3>3. PICK u \in Nat : u = utf8Length(l[z])
      BY <2>2, WidthsType
    <3>4. Widths(l)[z] = u + 1 /\ u <= budget - (k - m)
      BY <2>2, <3>2, <3>3, WidthsType
    <3>5. f[z] = f[z - 1] + Widths(l)[z]
      BY <1>2, <2>2 DEF Sums
    <3>6. PICK y \in Nat : y = f[z - 1]
      BY <1>2, <2>2, SumsType
    <3>7. m = y + (u + 1) /\ u <= budget - (k - m)
      BY <1>3, <2>1, <3>4, <3>5, <3>6
    <3>8. k - y <= budget + 1
      BY <3>7, OneLineMore
    <3> QED BY <3>6, <3>8
  <2>5. f[n] - f[z] <= budget
    <3>1. f[z] = m
      BY <1>3, <2>1
    <3> QED BY <1>3, <1>4, <3>1
  <2> QED BY <1>3, <2>2, <2>3, <2>4, <2>5
<1> QED BY <1>5, <1>6, <1>7

LEMMA EverythingIs ==
  ASSUME NEW l \in Lines, NEW f, Sums(f, Widths(l))
  PROVE  /\ f[Len(l)] \in Nat
         /\ Rendered(l, Everything(l)) = f[Len(l)] - (IF Len(l) = 0 THEN 0 ELSE 1)
<1> DEFINE n == Len(l)
<1>1. n \in Nat /\ Widths(l) \in Seq(Nat) /\ Len(Widths(l)) = n /\ DOMAIN l = 1..n
  BY WidthsType
<1>2. f[n] \in Nat /\ Total(Widths(l)) = f[n]
  BY <1>1, SumsType, TotalIsLast
<1> HIDE DEF n
<1>3. PICK q : q = Everything(l)
  OBVIOUS
<1>4. q = [i \in 1..n |-> Whole(l, i)]
  BY <1>1, <1>3 DEF Everything
<1> DEFINE T == {Whole(l, i) : i \in 1..n}
<1>5. \A i \in 1..n : Whole(l, i) \in T
  OBVIOUS
<1> HIDE DEF T
<1>6. q \in [1..n -> T] /\ \A i \in 1..n : q[i] = Whole(l, i)
  BY <1>4, <1>5
<1>7. DOMAIN q = 1..n /\ ((q = <<>>) <=> (n = 0))
  BY <1>1, <1>6, Listed
<1>8. \A i \in 1..n : Widths(l)[i] = PieceWidth(l, q[i])
  <2>1. \A i \in 1..n : i \in 1..Len(l)
    BY DEF n
  <2> QED BY <1>6, <2>1, WholeWidth
<1>9. Rendered(l, q) = Total(Widths(l)) - (IF n = 0 THEN 0 ELSE 1)
  <2>1. AreWidths(Widths(l), l, q, n)
    BY <1>1, <1>7, <1>8 DEF AreWidths
  <2> QED BY <1>1, <2>1, PiecesAre
<1> QED BY <1>2, <1>3, <1>9 DEF n

LEMMA Halves ==
  ASSUME NEW b \in Nat
  PROVE  (b + 1) \div 2 \in Nat /\ b \div 2 \in Nat /\ (b + 1) \div 2 + b \div 2 = b
OBVIOUS

\* What selectSnapshotSegments keeps of l, in each of its two cases.
LEMMA Selected ==
  ASSUME NEW l \in Lines, NEW b \in Nat, NEW s, s = selectSnapshotSegments(l, b),
         NEW total, total = Rendered(l, Everything(l))
  PROVE  /\ total <= b => s.bytes = total /\ s.omittedBytes = total - total /\ s.tail = <<>>
         /\ ~(total <= b) =>
              \E head, tail : 
                /\ head = takeBefore(l, (b + 1) \div 2) /\ tail = takeBefore(Reverse(l), b \div 2)
                /\ s.head = HeadPieces(l, head.consumed, head.partial)
                /\ s.tail = TailPieces(l, tail.consumed, tail.partial)
                /\ s.bytes = Rendered(l, s.head) + Rendered(l, s.tail)
                /\ s.omittedBytes = total - s.bytes
<1>1. CASE total <= b
  <2>1. s = Counted([head |-> Everything(l), tail |-> <<>>, omitted |-> 0], total, total)
    BY <1>1 DEF selectSnapshotSegments
  <2> QED BY <1>1, <2>1 DEF Counted
<1>2. CASE ~(total <= b)
  <2>1. s = Truncated(l, BothEnds(l, b))
    BY <1>2 DEF selectSnapshotSegments
  <2>2. PICK head : head = takeBefore(l, (b + 1) \div 2)
    OBVIOUS
  <2>3. PICK tail : tail = takeBefore(Reverse(l), b \div 2)
    OBVIOUS
  <2>4. PICK ends : ends = Segments(l, head, tail)
    OBVIOUS
  <2>5. s = Truncated(l, ends)
    BY <2>1, <2>2, <2>3, <2>4 DEF BothEnds
  <2>6. /\ ends.head = HeadPieces(l, head.consumed, head.partial)
        /\ ends.tail = TailPieces(l, tail.consumed, tail.partial)
    BY <2>4 DEF Segments, HeadPieces, TailPieces
  <2>7. /\ s.head = ends.head /\ s.tail = ends.tail
        /\ s.bytes = Rendered(l, ends.head) + Rendered(l, ends.tail)
        /\ s.omittedBytes = total - s.bytes
    BY <2>5 DEF Truncated, Counted
  <2> QED BY <1>2, <2>2, <2>3, <2>6, <2>7
<1> QED BY <1>1, <1>2

LEMMA SnapshotOf ==
  ASSUME NEW l \in Lines, NEW b \in Nat, NEW s, s = selectSnapshotSegments(l, b),
         NEW total, total = Rendered(l, Everything(l))
  PROVE  /\ s.bytes <= b /\ s.omittedBytes = total - s.bytes /\ s.omittedBytes >= 0
         /\ \A p \in ToSet(s.head), q \in ToSet(s.tail) :
              p.line = q.line => Whole(l, p.line) \notin {p, q}
<1>1. PICK f : Sums(f, Widths(l))
  BY WidthsType, SumsExist
<1>2. PICK n \in Nat, k \in Nat : n = Len(l) /\ k = f[n]
  BY <1>1, EverythingIs, WidthsType
<1>3. total = k - (IF n = 0 THEN 0 ELSE 1)
  BY <1>1, <1>2, EverythingIs
<1>4. total \in Int
  BY <1>3
<1>5. CASE total <= b
  <2>1. s.bytes = total /\ s.omittedBytes = total - total /\ s.tail = <<>>
    BY <1>5, Selected
  <2>2. ToSet(s.tail) = {}
    BY <2>1 DEF ToSet
  <2> QED BY <1>4, <1>5, <2>1, <2>2
<1>6. CASE ~(total <= b)
  <2>1. PICK head, tail :
          /\ head = takeBefore(l, (b + 1) \div 2) /\ tail = takeBefore(Reverse(l), b \div 2)
          /\ s.head = HeadPieces(l, head.consumed, head.partial)
          /\ s.tail = TailPieces(l, tail.consumed, tail.partial)
          /\ s.bytes = Rendered(l, s.head) + Rendered(l, s.tail)
          /\ s.omittedBytes = total - s.bytes
    BY <1>6, Selected
  <2>2. PICK h \in Nat, t \in Nat : h = (b + 1) \div 2 /\ t = b \div 2 /\ h + t = b
    BY Halves
  <2>3. PICK x \in Int : x = Rendered(l, s.head) /\ x <= h
    BY <2>1, <2>2, HeadFits
  <2>4. PICK y \in Int : y = Rendered(l, s.tail) /\ y <= t
    BY <2>1, <2>2, TailFits
  <2>5. s.bytes = x + y /\ s.omittedBytes = total - (x + y)
    BY <2>1, <2>3, <2>4
  <2>6. s.bytes <= b /\ s.omittedBytes = total - s.bytes /\ s.omittedBytes >= 0
    <3>1. x + y <= b
      BY <2>2, <2>3, <2>4
    <3>2. total - (x + y) >= 0
      BY <1>4, <1>6, <2>3, <2>4, <3>1
    <3> QED BY <2>5, <3>1, <3>2
  <2>7. ASSUME NEW p \in ToSet(s.head), NEW q \in ToSet(s.tail), p.line = q.line,
               Whole(l, p.line) \in {p, q}
        PROVE  FALSE
    <3>1. PICK i : i = p.line
      OBVIOUS
    <3>2. i \in 1..n /\ f[i - 1] <= h /\ (p = Whole(l, i) => f[i] <= h + 1)
      BY <1>1, <1>2, <2>1, <2>2, <3>1, HeadPiece
    <3>3. f[n] - f[i] <= t /\ (q = Whole(l, i) => f[n] - f[i - 1] <= t + 1)
      BY <1>1, <1>2, <2>1, <2>2, <2>7, <3>1, TailPiece
    <3>4. PICK u \in Nat, v \in Nat : u = f[i] /\ v = f[i - 1]
      BY <1>1, <1>2, <3>2, SumsType, WidthsType
    <3>5. k > h + t + 1
      <4>1. k > b + 1
        BY <1>2, <1>3, <1>6, <3>2
      <4> QED BY <2>2, <4>1
    <3>6. (u <= h + 1 /\ k - u <= t) \/ (v <= h /\ k - v <= t + 1)
      BY <1>2, <2>7, <3>1, <3>2, <3>3, <3>4
    <3>7. CASE u <= h + 1 /\ k - u <= t
      BY <3>5, <3>7, TooMany
    <3>8. CASE v <= h /\ k - v <= t + 1
      BY <3>5, <3>8, TooManyBehind
    <3> QED BY <3>6, <3>7, <3>8
  <2> QED BY <2>6, <2>7
<1> QED BY <1>5, <1>6

\* One for a piece that is there.
Past(chars) == IF chars = 0 THEN 0 ELSE 1

\* Pieces of the lines behind the a-th, one each.
AreOf(pieces, a, m) ==
  /\ DOMAIN pieces = 1..m /\ \A j \in 1..m : pieces[j].line = a + j

\* What is shown then are these lines.
LEMMA AreShown ==
  ASSUME NEW pieces, NEW a \in Nat, NEW m \in Nat, AreOf(pieces, a, m), NEW i \in Int
  PROVE  (\E e \in ToSet(pieces) : e.line = i) <=> (a < i /\ i <= a + m)
<1>1. ASSUME NEW e \in ToSet(pieces), e.line = i PROVE a < i /\ i <= a + m
  <2>1. PICK j \in 1..m : e = pieces[j]
    BY <1>1 DEF ToSet, AreOf
  <2>2. i = a + j
    BY <1>1, <2>1 DEF AreOf
  <2> QED BY <2>2
<1>2. ASSUME a < i, i <= a + m PROVE \E e \in ToSet(pieces) : e.line = i
  <2>1. PICK j \in 1..m : i = a + j
    <3>1. i - a \in 1..m /\ i = a + (i - a)
      BY <1>2
    <3> QED BY <3>1
  <2>2. pieces[j] \in ToSet(pieces) /\ pieces[j].line = i
    BY <2>1 DEF ToSet, AreOf
  <2> QED BY <2>2
<1> QED BY <1>1, <1>2

\* The c whole lines behind the a-th.
WholesBehind(l, a, c) == [i \in 1..c |-> Whole(l, a + i)]

IsListed(s) == \E T : s \in Seq(T)

LEMMA WholesListed ==
  ASSUME NEW l, NEW a \in Nat, NEW c \in Nat, NEW s, s = WholesBehind(l, a, c)
  PROVE  /\ IsListed(s) /\ Len(s) = c /\ AreOf(s, a, c)
         /\ \A j \in 1..c : s[j] = Whole(l, a + j)
<1>0. PICK T : T = {Whole(l, a + i) : i \in 1..c}
  OBVIOUS
<1>1. \A i \in 1..c : Whole(l, a + i) \in T /\ Whole(l, a + i).line = a + i
  BY <1>0 DEF Whole
<1>2. s \in [1..c -> T] /\ \A j \in 1..c : s[j] = Whole(l, a + j)
  BY <1>1 DEF WholesBehind
<1>3. s \in Seq(T) /\ Len(s) = c /\ DOMAIN s = 1..c
  BY <1>2, Listed
<1> QED BY <1>1, <1>2, <1>3 DEF AreOf, IsListed

\* A head shows the lines from the first on, a whole one last if none is in part.
LEMMA HeadShows ==
  ASSUME NEW l \in Lines, NEW c \in Nat, NEW p \in Nat, NEW h, h = HeadPieces(l, c, p)
  PROVE  /\ AreOf(h, 0, c + Past(p))
         /\ p = 0 /\ h # <<>> => h[Len(h)] = Whole(l, h[Len(h)].line)
<1>1. PICK s : s = WholesBehind(l, 0, c)
  OBVIOUS
<1>2. IsListed(s) /\ Len(s) = c /\ AreOf(s, 0, c) /\ \A j \in 1..c : s[j] = Whole(l, 0 + j)
  <2>1. 0 \in Nat
    OBVIOUS
  <2> QED BY <1>1, <2>1, WholesListed
<1>3. s = [i \in 1..c |-> Whole(l, i)]
  <2>1. \A i \in 1..c : 0 + i = i
    OBVIOUS
  <2> QED BY <1>1, <2>1 DEF WholesBehind
<1>4. CASE p = 0
  <2>1. h = s /\ Past(p) = 0 /\ c + 0 = c
    BY <1>2, <1>3, <1>4 DEF HeadPieces, Partial, Past
  <2>2. ASSUME h # <<>> PROVE h[Len(h)] = Whole(l, h[Len(h)].line)
    <3>1. c \in 1..c /\ 0 + c = c
      BY <1>2, <2>1, <2>2
    <3>2. h[Len(h)] = Whole(l, c)
      BY <1>2, <2>1, <3>1
    <3>3. Whole(l, c).line = c
      BY DEF Whole
    <3> QED BY <3>2, <3>3
  <2> QED BY <1>2, <2>1, <2>2
<1>5. CASE p # 0
  <2>1. PICK d : d = [line |-> c + 1, from |-> 1, to |-> p]
    OBVIOUS
  <2>2. h = s \o <<d>> /\ Past(p) = 1
    BY <1>3, <1>5, <2>1 DEF HeadPieces, Partial, Past
  <2>3. DOMAIN h = 1..(c + 1) /\ h[c + 1] = d /\ \A i \in 1..c : h[i] = s[i]
    BY <1>2, <2>2, ListedThen DEF IsListed
  <2>4. \A j \in 1..(c + 1) : j = c + 1 \/ j \in 1..c
    OBVIOUS
  <2>5. d.line = 0 + (c + 1)
    BY <2>1
  <2>6. \A j \in 1..(c + 1) : h[j].line = 0 + j
    BY <1>2, <2>3, <2>4, <2>5 DEF AreOf
  <2> QED BY <1>5, <2>2, <2>3, <2>6 DEF AreOf
<1> QED BY <1>4, <1>5

\* A tail shows the lines up to the last.
LEMMA TailShows ==
  ASSUME NEW l \in Lines, NEW c \in 0..Len(l), NEW p \in Nat, p # 0 => c < Len(l),
         NEW t, t = TailPieces(l, c, p), NEW a, a = Len(l) - c - Past(p)
  PROVE  a \in Nat /\ AreOf(t, a, c + Past(p))
<1>0. PICK n \in Nat : n = Len(l)
  BY WidthsType
<1>6. c \in Nat /\ n - c \in Nat
  BY <1>0
<1>7. PICK m \in Nat : m = n - c
  BY <1>6
<1>1. PICK s : s = WholesBehind(l, m, c)
  OBVIOUS
<1>2. IsListed(s) /\ Len(s) = c /\ AreOf(s, m, c)
  BY <1>1, <1>6, <1>7, WholesListed
<1>4. CASE p = 0
  <2>1. t = s /\ Past(p) = 0 /\ a = m /\ c + Past(p) = c
    BY <1>0, <1>1, <1>2, <1>4, <1>6, <1>7 DEF TailPieces, Partial, Past, WholesBehind
  <2> QED BY <1>2, <1>6, <1>7, <2>1
<1>5. CASE p # 0
  <2>1. PICK d : d = [line |-> m, from |-> 1, to |-> p]
    OBVIOUS
  <2>2. t = <<d>> \o s /\ Past(p) = 1
    BY <1>0, <1>1, <1>5, <1>7, <2>1 DEF TailPieces, Partial, Past, WholesBehind
  <2>3. DOMAIN t = 1..(c + 1) /\ t[1] = d /\ \A i \in 1..c : t[1 + i] = s[i]
    BY <1>2, <2>2, ThenListed DEF IsListed
  <2>4. a \in Nat /\ m = a + 1
    BY <1>0, <1>5, <1>6, <1>7, <2>2
  <2>5. ASSUME NEW j \in 1..(c + 1) PROVE t[j].line = a + j
    <3>1. CASE j = 1
      BY <2>1, <2>3, <2>4, <3>1
    <3>2. CASE j # 1
      <4>1. PICK i \in 1..c : j = 1 + i
        <5>1. j - 1 \in 1..c /\ j = 1 + (j - 1)
          BY <1>6, <3>2
        <5> QED BY <5>1
      <4>2. t[j].line = m + i
        BY <1>2, <2>3, <4>1 DEF AreOf
      <4> QED BY <2>4, <4>1, <4>2
    <3> QED BY <3>1, <3>2
  <2> QED BY <2>2, <2>3, <2>4, <2>5 DEF AreOf
<1> QED BY <1>4, <1>5

\* How many of the n messages are not shown: those between, if any.
Gap(x, a) == IF x < a THEN a - x ELSE 0

\* The lines of 1..n that neither the first x nor the m behind the a-th are.
AreApart(S, n, x, a, m) ==
  \A i : i \in S <=> (i \in 1..n /\ ~(0 < i /\ i <= 0 + x) /\ ~(a < i /\ i <= a + m))

LEMMA BetweenEnds ==
  ASSUME NEW n \in Nat, NEW x \in Nat, NEW a \in Nat, NEW m \in Nat, a + m = n,
         NEW S, AreApart(S, n, x, a, m)
  PROVE  Cardinality(S) = Gap(x, a)
<1>1. \A i : i \in S <=> i \in (x + 1)..a
  BY DEF AreApart
<1>2. S = (x + 1)..a
  BY <1>1
<1>3. Cardinality((x + 1)..a) = Gap(x, a)
  <2>1. x + 1 \in Int /\ a \in Int
    OBVIOUS
  <2>2. Cardinality((x + 1)..a) = IF x + 1 > a THEN 0 ELSE a - (x + 1) + 1
    BY <2>1, FS_Interval
  <2> QED BY <2>2 DEF Gap
<1> QED BY <1>2, <1>3

\* The count of the code, from what its two calls of takeBefore took.
AtLeastNone(o) == IF o > 0 THEN o ELSE 0

LEMMA Uncounted ==
  ASSUME NEW c \in Nat, NEW p \in Nat, NEW a \in Nat
  PROVE  \/ AtLeastNone(a - (c + 1)) = Gap(c + Past(p), a)
         \/ AtLeastNone(a - (c + 1)) = Gap(c + Past(p), a) - 1 /\ p = 0
BY DEF Past, Gap, AtLeastNone

\* What a snapshot omits.
Uncounts(l, s) ==
  LET unshown == {i \in 1..Len(l) : \A piece \in ToSet(s.head) \cup ToSet(s.tail) : piece.line # i}
  IN  \/ s.omittedMessages = Cardinality(unshown)
      \/ /\ s.omittedMessages = Cardinality(unshown) - 1
         /\ s.head # <<>> => s.head[Len(s.head)] = Whole(l, s.head[Len(s.head)].line)

LEMMA OmittedOf ==
  ASSUME NEW l \in Lines, NEW b \in Nat, NEW s, s = selectSnapshotSegments(l, b)
  PROVE  Uncounts(l, s)
<1>1. PICK f : Sums(f, Widths(l))
  BY WidthsType, SumsExist
<1>2. PICK n \in Nat, k \in Nat : n = Len(l) /\ k = f[n] /\ DOMAIN l = 1..n
  BY <1>1, EverythingIs, WidthsType
<1>3. PICK total : total = Rendered(l, Everything(l))
  OBVIOUS
<1>4. total = k - (IF n = 0 THEN 0 ELSE 1)
  BY <1>1, <1>2, <1>3, EverythingIs
<1> DEFINE Hidden == {i \in 1..n : \A piece \in ToSet(s.head) \cup ToSet(s.tail) : piece.line # i}
<1>5. CASE total <= b
  <2>1. s.head = Everything(l) /\ s.tail = <<>> /\ s.omittedMessages = 0
    BY <1>3, <1>5 DEF selectSnapshotSegments, Counted
  <2>2. Everything(l) = [i \in 1..n |-> Whole(l, i)]
    BY <1>2 DEF Everything
  <2>3. \A i \in 1..n : \E piece \in ToSet(s.head) : piece.line = i
    <3>1. \A i \in 1..n : s.head[i] = Whole(l, i) /\ s.head[i] \in ToSet(s.head)
      BY <2>1, <2>2 DEF ToSet
    <3>2. \A i \in 1..n : Whole(l, i).line = i
      BY DEF Whole
    <3> QED BY <3>1, <3>2
  <2>4. Hidden = {}
    BY <2>3
  <2>5. Cardinality(Hidden) = 0
    BY <2>4, FS_EmptySet
  <2> QED BY <1>2, <2>1, <2>5 DEF Uncounts
<1>6. CASE ~(total <= b)
  <2>1. PICK head, tail, ends :
          /\ head = takeBefore(l, (b + 1) \div 2) /\ tail = takeBefore(Reverse(l), b \div 2)
          /\ ends = Segments(l, head, tail)
    OBVIOUS
  <2>2. s = Truncated(l, ends)
    BY <1>3, <1>6, <2>1 DEF BothEnds, selectSnapshotSegments
  <2>3. PICK c \in 0..n, p \in Nat : /\ c = head.consumed /\ p = head.partial
                                     /\ BytesBefore(l, c) <= (b + 1) \div 2
    BY <1>2, <2>1, Halves, Took
  <2>4. PICK d \in 0..n, q \in Nat : /\ d = tail.consumed /\ q = tail.partial /\ (q # 0 => d < n)
    <3>1. PICK r : r = Reverse(l)
      OBVIOUS
    <3>2. r \in Lines /\ Len(r) = n
      BY <1>2, <3>1, Reversed
    <3> QED BY <2>1, <3>1, <3>2, Halves, Took
  <2>5. c < n
    <3>1. BytesBefore(l, c) = f[c]
      BY <1>1, <1>2, <2>3, BytesBeforeIs
    <3>2. ASSUME c = n PROVE FALSE
      <4>1. k <= (b + 1) \div 2 /\ (b + 1) \div 2 \in Nat /\ b \div 2 \in Nat
            /\ (b + 1) \div 2 + b \div 2 = b
        BY <1>2, <2>3, <3>1, <3>2, Halves
      <4>2. k <= b
        BY <4>1
      <4> QED BY <1>4, <1>6, <4>2
    <3> QED BY <2>3, <3>2
  <2>6. PICK a : a = n - d - Past(q)
    OBVIOUS
  <2>7. PICK o : o = a - (c + 1)
    OBVIOUS
  <2>8. s.omittedMessages = AtLeastNone(o)
    <3>1. ends.omitted = (n - d - (IF q = 0 THEN 0 ELSE 1)) - (c + (IF p = 0 /\ c = n THEN 0 ELSE 1))
      BY <1>2, <2>1, <2>3, <2>4 DEF Segments
    <3>2. ends.omitted = o
      BY <2>5, <2>6, <2>7, <3>1 DEF Past
    <3> QED BY <2>2, <3>2 DEF Truncated, Counted, AtLeastNone
  <2>9. s.head = HeadPieces(l, c, p) /\ s.tail = TailPieces(l, d, q)
    <3>1. s.head = ends.head /\ s.tail = ends.tail
      BY <2>2 DEF Truncated, Counted
    <3> QED BY <2>1, <2>3, <2>4, <3>1 DEF Segments, HeadPieces, TailPieces
  <2>10. PICK x \in Nat, m \in Nat : x = c + Past(p) /\ m = d + Past(q)
    BY DEF Past
  <2>11. AreOf(s.head, 0, x) /\ (p = 0 /\ s.head # <<>> => s.head[Len(s.head)] = Whole(l, s.head[Len(s.head)].line))
    <3>1. c \in Nat
      OBVIOUS
    <3> QED BY <2>9, <2>10, <3>1, HeadShows
  <2>12. a \in Nat /\ AreOf(s.tail, a, m) /\ a + m = n
    <3>1. a \in Nat /\ AreOf(s.tail, a, m)
      BY <1>2, <2>4, <2>6, <2>9, <2>10, TailShows
    <3>2. Past(q) \in Nat
      BY DEF Past
    <3> QED BY <2>6, <2>10, <3>1, <3>2
  <2>13. AreApart(Hidden, n, x, a, m)
    <3>1. 0 \in Nat
      OBVIOUS
    <3>2. \A i \in Int : (\E e \in ToSet(s.head) : e.line = i) <=> (0 < i /\ i <= 0 + x)
      BY <2>11, <3>1, AreShown
    <3>3. \A i \in Int : (\E e \in ToSet(s.tail) : e.line = i) <=> (a < i /\ i <= a + m)
      BY <2>12, AreShown
    <3>4. \A i : i \in Hidden <=> /\ i \in 1..n /\ ~(\E e \in ToSet(s.head) : e.line = i)
                                  /\ ~(\E e \in ToSet(s.tail) : e.line = i)
      OBVIOUS
    <3>5. 1..n \subseteq Int
      OBVIOUS
    <3> HIDE DEF Hidden
    <3> QED BY <3>2, <3>3, <3>4, <3>5 DEF AreApart
  <2>14. PICK u : u = Gap(x, a)
    OBVIOUS
  <2>15. Cardinality(Hidden) = u
    <3> HIDE DEF Hidden
    <3> QED BY <2>12, <2>13, <2>14, BetweenEnds
  <2>16. s.omittedMessages = u \/ (s.omittedMessages = u - 1 /\ p = 0)
    <3>1. c \in Nat /\ a \in Nat
      BY <2>12
    <3> QED BY <2>7, <2>8, <2>10, <2>14, <3>1, Uncounted
  <2> QED BY <1>2, <2>11, <2>15, <2>16 DEF Uncounts
<1> QED BY <1>5, <1>6

-----------------------------------------------------------------------------
(* The settings form.                                                      *)

Row == [path: Stored, repository: Stored, branch: Stored, refresh: STRING,
        description: Stored, autoInclude: {"absent", "true", "false"}, hidden: BOOLEAN]

Draft == [alias: STRING, kind: {"local", "git"}, path: Written, repository: Written,
          branch: Written, description: Written, autoInclude: BOOLEAN, alwaysRefresh: BOOLEAN]

\* Trimming leaves a form and no blanks; what is written is not absent.
LEMMA Trimmed ==
  ASSUME NEW text \in Written
  PROVE  /\ Entry!trim(text) = [blank |-> "none", form |-> text.form]
         /\ Entry!trim(text) # Entry!Absent /\ text.form # "absent"
         /\ Entry!trim(Entry!trim(text)) = Entry!trim(text)
<1>1. PICK word \in STRING, blank \in STRING : text = [blank |-> blank, form |-> word] /\ word # "absent"
  BY DEF Written, Entry!Text
<1>2. Entry!trim(text) = [blank |-> "none", form |-> word] /\ text.form = word
  BY <1>1 DEF Entry!trim
<1>3. Entry!trim([blank |-> "none", form |-> word]) = [blank |-> "none", form |-> word]
  BY DEF Entry!trim
<1>4. [blank |-> "none", form |-> word] # Entry!Absent
  BY <1>1 DEF Entry!Absent
<1> QED BY <1>1, <1>2, <1>3, <1>4

LEMMA StoredIs ==
  ASSUME NEW text \in Stored
  PROVE  Entry!trim(text) = text /\ text.blank = "none" /\ text = [blank |-> "none", form |-> text.form]
BY DEF Stored, Entry!Text, Entry!trim

\* Absent and empty are each other's image where an empty field is filled in.
LEMMA EmptyOrAbsent ==
  ASSUME NEW text
  PROVE  /\ Entry!OrEmpty(Entry!NotEmpty(text)) = (IF text = Entry!Absent THEN Entry!Empty ELSE text)
         /\ text # Entry!Absent => Entry!OrEmpty(text) = text
         /\ Entry!NotEmpty(Entry!OrEmpty(text)) = Entry!NotEmpty(text)
         /\ Entry!NotEmpty(Entry!NotEmpty(text)) = Entry!NotEmpty(text)
         /\ Entry!Absent # Entry!Empty
BY DEF Entry!OrEmpty, Entry!NotEmpty, Entry!IsEmpty, Entry!Absent, Entry!Empty

\* What the form shows of a stored field, and what it stores of that.
LEMMA FilledIn ==
  ASSUME NEW text \in Stored
  PROVE  Entry!NotEmpty(Entry!trim(Entry!OrEmpty(Entry!NotEmpty(text)))) = Entry!NotEmpty(text)
<1>1. Entry!trim(Entry!Empty) = Entry!Empty
  BY DEF Entry!trim, Entry!Empty
<1>2. CASE text = Entry!Absent
  <2>1. Entry!OrEmpty(Entry!NotEmpty(text)) = Entry!Empty
    BY <1>2, EmptyOrAbsent
  <2>2. Entry!NotEmpty(Entry!Empty) = Entry!Absent /\ Entry!NotEmpty(Entry!Absent) = Entry!Absent
    BY DEF Entry!NotEmpty, Entry!IsEmpty
  <2> QED BY <1>1, <1>2, <2>1, <2>2
<1>3. CASE text # Entry!Absent
  BY <1>3, StoredIs, EmptyOrAbsent
<1> QED BY <1>2, <1>3

LEMMA DraftOf ==
  ASSUME NEW d \in Draft, NEW e, e = Entry!entryOf(d), ~Entry!draftErrors(d, FALSE)
  PROVE  LET again == Entry!openEdit(d.alias, Entry!normalizeTable(e)) IN
           /\ ~Entry!Rejected(d.alias, e) /\ Entry!normalizeTable(e) # Entry!Dropped
           /\ Entry!entryOf(again) = e
           /\ again.kind = d.kind /\ again.description = Entry!trim(d.description)
<1>0. /\ d.path \in Written /\ d.repository \in Written /\ d.branch \in Written
      /\ d.description \in Written /\ d.autoInclude \in BOOLEAN /\ d.alwaysRefresh \in BOOLEAN
      /\ d.kind = "git" \/ d.kind = "local"
  BY DEF Draft
<1>1. ~Entry!aliasValidationError(d.alias)
  BY DEF Entry!draftErrors
<1>2. PICK path, repository, branch, description :
        /\ path = Entry!trim(d.path) /\ repository = Entry!trim(d.repository)
        /\ branch = Entry!trim(d.branch) /\ description = Entry!trim(d.description)
  OBVIOUS
<1>3. /\ path # Entry!Absent /\ path.blank = "none" /\ path.form = d.path.form
      /\ repository # Entry!Absent /\ repository.blank = "none"
      /\ branch # Entry!Absent /\ description # Entry!Absent
      /\ Entry!trim(path) = path /\ Entry!trim(repository) = repository
      /\ Entry!trim(branch) = branch /\ Entry!trim(description) = description
  BY <1>0, <1>2, Trimmed
<1>4. Entry!trim(Entry!Empty) = Entry!Empty
  BY DEF Entry!trim, Entry!Empty
<1>5. CASE d.kind = "local"
  <2>1. ~Entry!referencePathError(d.path)
    BY <1>5 DEF Entry!draftErrors
  <2>2. e = [path |-> path, repository |-> Entry!Absent, branch |-> Entry!Absent, refresh |-> "absent",
             description |-> Entry!NotEmpty(description),
             autoInclude |-> IF d.autoInclude THEN "true" ELSE "false", hidden |-> FALSE]
    BY <1>2, <1>5 DEF Entry!entryOf
  <2>3. ~Entry!Rejected(d.alias, e)
    BY <1>1, <1>3, <2>1, <2>2 DEF Entry!Rejected, Entry!entryShapeError, Entry!referencePathError
  <2>4. PICK n : n = Entry!normalizeTable(e)
    OBVIOUS
  <2>5. n = [path |-> path, repository |-> Entry!Absent, branch |-> Entry!Absent, refresh |-> "absent",
             description |-> Entry!NotEmpty(description), autoInclude |-> d.autoInclude]
    <3>1. e.autoInclude # "absent" /\ (e.autoInclude = "true") = d.autoInclude
      BY <1>0, <2>2
    <3> QED BY <1>3, <2>2, <2>4, <3>1, EmptyOrAbsent DEF Entry!normalizeTable
  <2>6. n # Entry!Dropped
    BY <2>5 DEF Entry!Dropped
  <2>7. PICK again : again = Entry!openEdit(d.alias, n)
    OBVIOUS
  <2>8. /\ again.kind = "local" /\ again.path = path /\ again.description = description
        /\ again.autoInclude = d.autoInclude
    BY <1>3, <2>5, <2>7, EmptyOrAbsent DEF Entry!openEdit
  <2>9. Entry!entryOf(again) = e
    BY <1>3, <2>2, <2>8 DEF Entry!entryOf
  <2> QED BY <1>2, <1>5, <2>3, <2>4, <2>6, <2>7, <2>8, <2>9
<1>6. CASE d.kind = "git"
  <2>1. ~Entry!entryShapeError(Entry!DraftShape(d))
    BY <1>6 DEF Entry!draftErrors
  <2>2. PICK refresh : refresh = IF d.alwaysRefresh THEN "always" ELSE "absent"
    OBVIOUS
  <2>3. e = [path |-> Entry!Absent, repository |-> repository, branch |-> Entry!NotEmpty(branch),
             refresh |-> refresh, description |-> Entry!NotEmpty(description),
             autoInclude |-> IF d.autoInclude THEN "true" ELSE "false", hidden |-> FALSE]
    BY <1>2, <1>6, <2>2 DEF Entry!entryOf
  <2>4. ~Entry!entryShapeError(e) /\ ~Entry!IsEmpty(repository) /\ ~Entry!isFileRepository(repository)
    <3>1. Entry!DraftShape(d) = [path |-> Entry!Absent, repository |-> repository,
                                 branch |-> Entry!NotEmpty(branch)]
      BY <1>2 DEF Entry!DraftShape
    <3> QED BY <1>3, <2>1, <2>3, <3>1 DEF Entry!entryShapeError
  <2>5. ~Entry!Rejected(d.alias, e)
    BY <1>1, <2>3, <2>4 DEF Entry!Rejected
  <2>6. PICK n : n = Entry!normalizeTable(e)
    OBVIOUS
  <2>7. n = [path |-> Entry!Absent, repository |-> repository, branch |-> Entry!NotEmpty(branch),
             refresh |-> refresh, description |-> Entry!NotEmpty(description),
             autoInclude |-> d.autoInclude]
    <3>1. e.autoInclude # "absent" /\ (e.autoInclude = "true") = d.autoInclude
      BY <1>0, <2>3
    <3>2. (IF refresh = "always" THEN "always" ELSE "absent") = refresh
      BY <2>2
    <3> QED BY <1>3, <2>3, <2>4, <2>6, <3>1, <3>2, EmptyOrAbsent DEF Entry!normalizeTable
  <2>8. n # Entry!Dropped
    BY <2>7 DEF Entry!Dropped
  <2>9. PICK again : again = Entry!openEdit(d.alias, n)
    OBVIOUS
  <2>10. /\ again.kind = "git" /\ again.repository = repository
         /\ again.branch = branch /\ again.description = description
         /\ again.autoInclude = d.autoInclude /\ (again.alwaysRefresh <=> refresh = "always")
    BY <1>3, <2>7, <2>9, EmptyOrAbsent DEF Entry!openEdit
  <2>11. Entry!entryOf(again) = e
    <3>1. (IF again.alwaysRefresh THEN "always" ELSE "absent") = refresh
      BY <2>2, <2>10
    <3> QED BY <1>3, <2>3, <2>10, <3>1 DEF Entry!entryOf
  <2> QED BY <1>2, <1>6, <2>5, <2>6, <2>8, <2>9, <2>10, <2>11
<1> QED BY <1>0, <1>5, <1>6

LEMMA RowOf ==
  ASSUME NEW r \in Row, ~Entry!Rejected("good", r), NEW n, n = Entry!normalizeTable(r)
  PROVE  LET draft == Entry!openEdit("good", n) IN
           /\ ~Entry!draftErrors(draft, FALSE)
           /\ Entry!normalizeTable(Entry!entryOf(draft)) = n
           /\ r.autoInclude # "absent" => n.autoInclude = (r.autoInclude = "true")
<1>0. /\ r.path \in Stored /\ r.repository \in Stored /\ r.branch \in Stored
      /\ r.description \in Stored /\ r.autoInclude \in {"absent", "true", "false"} /\ r.hidden \in BOOLEAN
  BY DEF Row
<1>1. ~Entry!aliasValidationError("good")
  BY DEF Entry!aliasValidationError
<1>2. PICK auto \in BOOLEAN : auto = IF r.autoInclude # "absent" THEN r.autoInclude = "true" ELSE ~r.hidden
  BY <1>0
<1>3. PICK draft : draft = Entry!openEdit("good", n)
  OBVIOUS
<1>5. PICK description : description = Entry!OrEmpty(Entry!NotEmpty(r.description))
  OBVIOUS
<1>6. Entry!NotEmpty(Entry!trim(description)) = Entry!NotEmpty(r.description)
  BY <1>0, <1>5, FilledIn
<1>7. CASE r.path # Entry!Absent
  <2>1. n = [path |-> r.path, repository |-> Entry!Absent, branch |-> Entry!Absent, refresh |-> "absent",
             description |-> Entry!NotEmpty(r.description), autoInclude |-> auto]
    BY <1>2, <1>7 DEF Entry!normalizeTable
  <2>2. /\ draft.alias = "good" /\ draft.kind = "local" /\ draft.path = r.path
        /\ draft.description = description /\ draft.autoInclude = auto
    BY <1>3, <1>5, <1>7, <2>1, EmptyOrAbsent DEF Entry!openEdit
  <2>3. ~Entry!draftErrors(draft, FALSE)
    BY <1>1, <1>7, <2>2 DEF Entry!draftErrors, Entry!Rejected
  <2>4. PICK e : e = Entry!entryOf(draft)
    OBVIOUS
  <2>5. e = [path |-> r.path, repository |-> Entry!Absent, branch |-> Entry!Absent, refresh |-> "absent",
             description |-> Entry!NotEmpty(r.description),
             autoInclude |-> IF auto THEN "true" ELSE "false", hidden |-> FALSE]
    BY <1>0, <1>6, <2>2, <2>4, StoredIs DEF Entry!entryOf
  <2>6. e.autoInclude # "absent" /\ (e.autoInclude = "true") = auto
    BY <2>5
  <2>7. Entry!normalizeTable(e) = n
    BY <1>7, <2>1, <2>5, <2>6, EmptyOrAbsent DEF Entry!normalizeTable
  <2>8. r.autoInclude # "absent" => n.autoInclude = (r.autoInclude = "true")
    BY <1>2, <2>1
  <2> QED BY <1>3, <2>3, <2>4, <2>7, <2>8
<1>8. CASE r.path = Entry!Absent
  <2>1. /\ r.repository # Entry!Absent /\ ~Entry!IsEmpty(r.repository)
        /\ ~Entry!isFileRepository(r.repository)
        /\ r.branch \in {Entry!Absent, Entry!Empty} \/ ~Entry!branchValidationError(r.branch)
    BY <1>8 DEF Entry!Rejected, Entry!entryShapeError
  <2>2. PICK refresh : refresh = IF r.refresh = "always" THEN "always" ELSE "absent"
    OBVIOUS
  <2>3. n = [path |-> Entry!Absent, repository |-> r.repository, branch |-> Entry!NotEmpty(r.branch),
             refresh |-> refresh, description |-> Entry!NotEmpty(r.description), autoInclude |-> auto]
    BY <1>2, <1>8, <2>1, <2>2 DEF Entry!normalizeTable
  <2>4. PICK branch : branch = Entry!OrEmpty(Entry!NotEmpty(r.branch))
    OBVIOUS
  <2>5. /\ draft.alias = "good" /\ draft.kind = "git" /\ draft.repository = r.repository
        /\ draft.branch = branch /\ draft.description = description /\ draft.autoInclude = auto
        /\ (draft.alwaysRefresh <=> refresh = "always")
    <3>1. /\ n.repository = r.repository /\ n.branch = Entry!NotEmpty(r.branch) /\ n.refresh = refresh
          /\ n.description = Entry!NotEmpty(r.description) /\ n.autoInclude = auto
      BY <2>3
    <3>2. Entry!OrEmpty(n.repository) = r.repository
      BY <2>1, <3>1, EmptyOrAbsent
    <3>3. Entry!OrEmpty(n.branch) = branch /\ Entry!OrEmpty(n.description) = description
      BY <1>5, <2>4, <3>1
    <3> QED BY <1>3, <2>1, <3>1, <3>2, <3>3 DEF Entry!openEdit
  <2>6. Entry!NotEmpty(Entry!trim(branch)) = Entry!NotEmpty(r.branch)
    BY <1>0, <2>4, FilledIn
  <2>7. ~Entry!draftErrors(draft, FALSE)
    <3>1. Entry!DraftShape(draft) = [path |-> Entry!Absent, repository |-> r.repository,
                                     branch |-> Entry!NotEmpty(r.branch)]
      BY <1>0, <2>5, <2>6, StoredIs DEF Entry!DraftShape
    <3>2. ~Entry!entryShapeError(Entry!DraftShape(draft))
      BY <2>1, <3>1 DEF Entry!entryShapeError, Entry!NotEmpty, Entry!IsEmpty
    <3> QED BY <1>1, <2>5, <3>2 DEF Entry!draftErrors
  <2>8. PICK e : e = Entry!entryOf(draft)
    OBVIOUS
  <2>9. e = [path |-> Entry!Absent, repository |-> r.repository, branch |-> Entry!NotEmpty(r.branch),
             refresh |-> refresh, description |-> Entry!NotEmpty(r.description),
             autoInclude |-> IF auto THEN "true" ELSE "false", hidden |-> FALSE]
    <3>1. (IF draft.alwaysRefresh THEN "always" ELSE "absent") = refresh
      BY <2>2, <2>5
    <3> QED BY <1>0, <1>6, <2>5, <2>6, <2>8, <3>1, StoredIs DEF Entry!entryOf
  <2>10. e.autoInclude # "absent" /\ (e.autoInclude = "true") = auto
    BY <2>9
  <2>11. Entry!normalizeTable(e) = n
    <3>1. (IF refresh = "always" THEN "always" ELSE "absent") = refresh
      BY <2>2
    <3> QED BY <2>1, <2>3, <2>9, <2>10, <3>1, EmptyOrAbsent DEF Entry!normalizeTable
  <2>12. r.autoInclude # "absent" => n.autoInclude = (r.autoInclude = "true")
    BY <1>2, <2>3
  <2> QED BY <1>3, <2>7, <2>8, <2>11, <2>12
<1> QED BY <1>7, <1>8

-----------------------------------------------------------------------------
(* Selections.                                                             *)

\* The fold of a function over 1..n exists: what makes a fold of the community
\* modules, which chooses it, the fold it is named for.
IsFold(f, n, Typ, base, F) ==
  /\ f \in [SUBSET (1..n) -> Typ]
  /\ \A s \in SUBSET (1..n) :
       f[s] = IF s = {} THEN base ELSE F[<<f[s \ {Max(s)}], Max(s)>>]

LEMMA FoldExists ==
  ASSUME NEW n \in Nat, NEW Typ, NEW base \in Typ, NEW F \in [Typ \X (1..n) -> Typ]
  PROVE  \E f : IsFold(f, n, Typ, base, F)
<1> DEFINE Good(f, k) ==
             /\ f \in [SUBSET (1..k) -> Typ]
             /\ \A s \in SUBSET (1..k) :
                  f[s] = IF s = {} THEN base ELSE F[<<f[s \ {Max(s)}], Max(s)>>]
           P == {k \in 0..n : \E f : Good(f, k)}
<1>1. 0 \in P
  <2>1. PICK f : f = [s \in SUBSET (1..0) |-> base]
    OBVIOUS
  <2>2. \A s \in SUBSET (1..0) : s = {}
    OBVIOUS
  <2>3. f \in [SUBSET (1..0) -> Typ]
    BY <2>1
  <2>4. Good(f, 0)
    BY <2>1, <2>2, <2>3
  <2>5. 0 \in 0..n
    OBVIOUS
  <2> HIDE DEF Good
  <2> QED BY <2>4, <2>5
<1>2. ASSUME NEW k \in 1..n, k - 1 \in P PROVE k \in P
  <2>1. PICK f : Good(f, k - 1)
    BY <1>2
  <2>2. k \in Nat /\ k - 1 \in Nat /\ k \in 0..n
    OBVIOUS
  <2> DEFINE g == [s \in SUBSET (1..k) |-> IF k \in s THEN F[<<f[s \ {k}], k>>] ELSE f[s]]
  <2>3. \A s \in SUBSET (1..k) : s \ {k} \in SUBSET (1..(k - 1)) /\ (k \notin s => s \in SUBSET (1..(k - 1)))
    <3>1. \A i \in 1..k : i # k => i \in 1..(k - 1)
      BY <2>2
    <3> QED BY <3>1
  <2>4. g \in [SUBSET (1..k) -> Typ]
    <3>1. ASSUME NEW s \in SUBSET (1..k) PROVE g[s] \in Typ
      <4>1. f[s \ {k}] \in Typ /\ (k \notin s => f[s] \in Typ)
        BY <2>1, <2>3
      <4> QED BY <4>1
    <3> QED BY <3>1
  <2>5. ASSUME NEW s \in SUBSET (1..k)
        PROVE  g[s] = IF s = {} THEN base ELSE F[<<g[s \ {Max(s)}], Max(s)>>]
    <3>1. CASE k \in s
      <4>1. Max(s) = k
        <5>1. s \in SUBSET (0..k) /\ s # {}
          BY <2>2, <3>1
        <5>2. Max(s) \in s /\ \A j \in s : j <= Max(s)
          BY <2>2, <5>1, GreatestIs
        <5>3. Max(s) \in 1..k /\ k <= Max(s)
          BY <3>1, <5>2
        <5> QED BY <2>2, <5>3
      <4>2. g[s \ {k}] = f[s \ {k}]
        <5>1. s \ {k} \in SUBSET (1..k) /\ k \notin s \ {k}
          OBVIOUS
        <5> QED BY <5>1
      <4> QED BY <3>1, <4>1, <4>2
    <3>2. CASE k \notin s
      <4>1. s \in SUBSET (1..(k - 1)) /\ g[s] = f[s]
        BY <2>3, <3>2
      <4>2. g[s \ {Max(s)}] = f[s \ {Max(s)}]
        <5>1. s \ {Max(s)} \in SUBSET (1..k) /\ k \notin s \ {Max(s)}
          BY <3>2
        <5> QED BY <5>1
      <4> QED BY <2>1, <4>1, <4>2
    <3> QED BY <3>1, <3>2
  <2> HIDE DEF g
  <2>6. Good(g, k)
    BY <2>4, <2>5
  <2> HIDE DEF Good
  <2> QED BY <2>2, <2>6
<1> HIDE DEF P
<1>3. n \in P
  <2>1. 0..n \subseteq P
    BY <1>1, <1>2, UpToAll
  <2> QED BY <2>1
<1> QED BY <1>3 DEF P, IsFold

\* The sequence g of what is picked of the prefixes of s.
Picks(g, s, S) ==
  /\ g[0] = <<>>
  /\ \A k \in 1..Len(s) : g[k] = IF k \in S THEN Append(g[k - 1], s[k]) ELSE g[k - 1]

LEMMA PicksUnique ==
  ASSUME NEW s, Len(s) \in Nat, NEW S, NEW f, NEW g, Picks(f, s, S), Picks(g, s, S)
  PROVE  \A k \in 0..Len(s) : f[k] = g[k]
<1> DEFINE P == {k \in 0..Len(s) : f[k] = g[k]}
<1>1. 0 \in P
  BY DEF Picks
<1>2. ASSUME NEW k \in 1..Len(s), k - 1 \in P PROVE k \in P
  BY <1>2 DEF Picks
<1> HIDE DEF P
<1>3. 0..Len(s) \subseteq P
  BY <1>1, <1>2, UpToAll
<1> QED BY <1>3 DEF P

LEMMA PickedExists ==
  ASSUME NEW L, NEW s \in Seq(L), NEW S
  PROVE  \E g : Picks(g, s, S) /\ Picked(s, S) = g[Len(s)]
<1> DEFINE n == Len(s)
           id == [i \in DOMAIN s |-> i]
           D(u) == [t \in SUBSET DOMAIN id |->
                      IF t = {} THEN <<>>
                      ELSE IF id[Max(t)] \in S
                           THEN Append(u[t \ {Max(t)}], s[id[Max(t)]]) ELSE u[t \ {Max(t)}]]
<1>0. n \in Nat /\ DOMAIN s = 1..n /\ DOMAIN id = 1..n /\ \A i \in 1..n : id[i] = i /\ s[i] \in L
  OBVIOUS
<1>1. Picked(s, S) = (CHOOSE u : u = D(u))[DOMAIN id]
  BY DEF Picked, FoldLeftDomain, FoldLeft, MapThenFoldSet
<1> HIDE DEF id
<1> DEFINE F == [z \in Seq(L) \X (1..n) |-> IF z[2] \in S THEN Append(z[1], s[z[2]]) ELSE z[1]]
<1>2. F \in [Seq(L) \X (1..n) -> Seq(L)]
  <2>1. ASSUME NEW z \in Seq(L) \X (1..n)
        PROVE  (IF z[2] \in S THEN Append(z[1], s[z[2]]) ELSE z[1]) \in Seq(L)
    <3>1. z[1] \in Seq(L) /\ s[z[2]] \in L
      BY <1>0
    <3> QED BY <3>1
  <2> QED BY <2>1
<1>3. \A o \in Seq(L), i \in 1..n : F[<<o, i>>] = IF i \in S THEN Append(o, s[i]) ELSE o
  OBVIOUS
<1> HIDE DEF F
<1>4. PICK f \in [SUBSET (1..n) -> Seq(L)] :
        \A t \in SUBSET (1..n) : f[t] = IF t = {} THEN <<>> ELSE F[<<f[t \ {Max(t)}], Max(t)>>]
  <2>1. <<>> \in Seq(L) /\ n \in Nat
    BY <1>0
  <2> HIDE DEF n
  <2>2. \E f \in [SUBSET (1..n) -> Seq(L)] :
          \A t \in SUBSET (1..n) : f[t] = IF t = {} THEN <<>> ELSE F[<<f[t \ {Max(t)}], Max(t)>>]
    <3> DEFINE T == Seq(L)
               b == <<>>
    <3>1. b \in T /\ F \in [T \X (1..n) -> T]
      BY <1>2, <2>1
    <3> HIDE DEF T, b
    <3>2. n \in Nat /\ b \in T /\ F \in [T \X (1..n) -> T]
      BY <2>1, <3>1
    <3>3. \E f : IsFold(f, n, T, b, F)
      BY <3>2, FoldExists
    <3> QED BY <3>3 DEF T, b, IsFold
  <2> QED BY <2>2
<1>5. ASSUME NEW t \in SUBSET (1..n), t # {} PROVE Max(t) \in 1..n /\ id[Max(t)] = Max(t) /\ t \ {Max(t)} \in SUBSET (1..n)
  <2>1. t \in SUBSET (0..n)
    BY <1>0
  <2>2. Max(t) \in t
    BY <1>0, <1>5, <2>1, GreatestIs
  <2> QED BY <1>0, <2>2
<1> HIDE DEF n
<1>6. f = D(f)
  <2>1. ASSUME NEW t \in SUBSET (1..n)
        PROVE  f[t] = IF t = {} THEN <<>>
                      ELSE IF id[Max(t)] \in S
                           THEN Append(f[t \ {Max(t)}], s[id[Max(t)]]) ELSE f[t \ {Max(t)}]
    <3>1. CASE t = {}
      BY <1>4, <3>1
    <3>2. CASE t # {}
      <4>1. Max(t) \in 1..n /\ id[Max(t)] = Max(t) /\ f[t \ {Max(t)}] \in Seq(L)
        BY <1>4, <1>5, <3>2
      <4>2. f[t] = F[<<f[t \ {Max(t)}], Max(t)>>]
        BY <1>4, <3>2
      <4> QED BY <1>3, <3>2, <4>1, <4>2
    <3> QED BY <3>1, <3>2
  <2>2. f = [t \in SUBSET (1..n) |-> f[t]]
    BY <1>4
  <2> QED BY <1>0, <2>1, <2>2
<1>7. PICK u : u = CHOOSE v : v = D(v)
  BY Zenon
<1>8. u = D(u)
  BY <1>6, <1>7, Zenon
<1>9. \A t \in SUBSET (1..n) :
        u[t] = IF t = {} THEN <<>>
               ELSE IF id[Max(t)] \in S
                    THEN Append(u[t \ {Max(t)}], s[id[Max(t)]]) ELSE u[t \ {Max(t)}]
  BY <1>0, <1>8
<1> DEFINE g == [k \in 0..n |-> u[1..k]]
<1>10. g[0] = <<>>
  <2>1. 1..0 = {} /\ 0 \in 0..n
    BY <1>0
  <2> QED BY <1>9, <2>1
<1>11. ASSUME NEW k \in 1..n PROVE g[k] = IF k \in S THEN Append(g[k - 1], s[k]) ELSE g[k - 1]
  <2>a. k \in Nat /\ k <= n /\ 1 <= k /\ k - 1 \in Nat
    BY <1>0
  <2>b. \A i \in 1..k : i \in 1..n /\ i \in 0..n /\ (i # k => i \in 1..(k - 1))
    BY <1>0, <2>a
  <2>c. \A i \in 1..(k - 1) : i \in 1..k /\ i # k
    BY <2>a
  <2>d. (1..k) \ {k} = 1..(k - 1)
    BY <2>b, <2>c
  <2>1. /\ 1..k \in SUBSET (1..n) /\ 1..k # {} /\ (1..k) \ {k} = 1..(k - 1) /\ k \in 1..k
        /\ 1..k \in SUBSET (0..n) /\ k \in 0..n /\ k - 1 \in 0..n
    <3>1. 1..k \subseteq 1..n /\ 1..k \subseteq 0..n
      BY <2>b
    <3>2. k \in 1..k /\ k \in 0..n /\ k - 1 \in 0..n
      BY <1>0, <2>a
    <3> QED BY <2>d, <3>1, <3>2
  <2>2. Max(1..k) \in 1..k /\ \A j \in 1..k : j <= Max(1..k)
    BY <1>0, <2>1, GreatestIs
  <2>3. Max(1..k) = k
    BY <1>0, <2>1, <2>2
  <2>4. u[1..k] = IF id[k] \in S THEN Append(u[1..(k - 1)], s[id[k]]) ELSE u[1..(k - 1)]
    BY <1>9, <2>1, <2>3
  <2>5. id[k] = k /\ g[k] = u[1..k] /\ g[k - 1] = u[1..(k - 1)]
    BY <1>0, <2>1
  <2> QED BY <2>4, <2>5
<1>12. g[n] = u[1..n]
  BY <1>0
<1> HIDE DEF g
<1>13. Picks(g, s, S)
  BY <1>10, <1>11 DEF Picks, n
<1> QED BY <1>0, <1>1, <1>7, <1>12, <1>13 DEF n

\* Whatever picks step by step is Picked.
LEMMA PickedIs ==
  ASSUME NEW L, NEW s \in Seq(L), NEW S, NEW g, Picks(g, s, S)
  PROVE  Picked(s, S) = g[Len(s)]
<1>1. Len(s) \in Nat /\ Len(s) \in 0..Len(s)
  OBVIOUS
<1>2. PICK f : Picks(f, s, S) /\ Picked(s, S) = f[Len(s)]
  BY PickedExists
<1> QED BY <1>1, <1>2, PicksUnique

LEMMA PickedNone ==
  ASSUME NEW S
  PROVE  Picked(<<>>, S) = <<>>
<1>1. <<>> \in Seq({}) /\ Len(<<>>) = 0
  OBVIOUS
<1>2. PICK f : Picks(f, <<>>, S) /\ Picked(<<>>, S) = f[Len(<<>>)]
  BY <1>1, PickedExists
<1> QED BY <1>1, <1>2 DEF Picks

\* One element more.
LEMMA PickedAppend ==
  ASSUME NEW L, NEW s \in Seq(L), NEW t \in Seq(L), Len(t) = Len(s) + 1,
         \A i \in 1..Len(s) : t[i] = s[i],
         NEW S, NEW T, \A i \in 1..Len(s) : i \in S <=> i \in T
  PROVE  Picked(t, T) = IF Len(t) \in T THEN Append(Picked(s, S), t[Len(t)]) ELSE Picked(s, S)
<1>1. PICK f : Picks(f, t, T) /\ Picked(t, T) = f[Len(t)]
  BY PickedExists
<1>2. Len(s) \in Nat /\ Len(t) \in 1..Len(t) /\ Len(t) - 1 = Len(s) /\ \A i \in 1..Len(s) : i \in 1..Len(t)
  OBVIOUS
<1>3. Picks(f, s, S)
  BY <1>1, <1>2 DEF Picks
<1>4. Picked(s, S) = f[Len(s)]
  BY <1>3, PickedIs
<1> QED BY <1>1, <1>2, <1>4 DEF Picks

\* Everything.
LEMMA PickedAll ==
  ASSUME NEW L, NEW s \in Seq(L), NEW S, \A i \in 1..Len(s) : i \in S
  PROVE  Picked(s, S) = s
<1>0. Len(s) \in Nat
  OBVIOUS
<1> DEFINE g == [k \in 0..Len(s) |-> SubSeq(s, 1, k)]
<1>1. g[0] = <<>> /\ g[Len(s)] = s
  BY <1>0
<1>2. ASSUME NEW k \in 1..Len(s) PROVE g[k] = Append(g[k - 1], s[k])
  <2>1. k \in 0..Len(s) /\ k - 1 \in 0..Len(s) /\ (k - 1) + 1 = k
    BY <1>0
  <2>2. g[k] = SubSeq(s, 1, k) /\ g[k - 1] = SubSeq(s, 1, k - 1)
    BY <2>1
  <2>3. SubSeq(s, 1, k) = Append(SubSeq(s, 1, k - 1), s[k])
    BY <2>1
  <2> QED BY <2>2, <2>3
<1> HIDE DEF g
<1>3. Picks(g, s, S)
  BY <1>1, <1>2 DEF Picks
<1> QED BY <1>1, <1>3, PickedIs

\* Only what was there.
LEMMA PickedType ==
  ASSUME NEW L, NEW s \in Seq(L), NEW S
  PROVE  Picked(s, S) \in Seq(L)
<1>1. PICK f : Picks(f, s, S) /\ Picked(s, S) = f[Len(s)]
  BY PickedExists
<1>2. Len(s) \in Nat /\ \A k \in 1..Len(s) : s[k] \in L
  OBVIOUS
<1> DEFINE P == {k \in 0..Len(s) : f[k] \in Seq(L)}
<1>3. 0 \in P
  <2>1. f[0] = <<>> /\ <<>> \in Seq(L)
    BY <1>1 DEF Picks
  <2>2. 0 \in 0..Len(s)
    BY <1>2
  <2> QED BY <2>1, <2>2
<1>4. ASSUME NEW k \in 1..Len(s), k - 1 \in P PROVE k \in P
  <2>1. f[k] = IF k \in S THEN Append(f[k - 1], s[k]) ELSE f[k - 1]
    BY <1>1 DEF Picks
  <2>2. f[k - 1] \in Seq(L) /\ s[k] \in L /\ k \in 0..Len(s)
    BY <1>2, <1>4
  <2>3. f[k] \in Seq(L)
    BY <2>1, <2>2
  <2> QED BY <2>2, <2>3
<1> HIDE DEF P
<1>5. 0..Len(s) \subseteq P
  BY <1>2, <1>3, <1>4, UpToAll
<1>6. Len(s) \in P
  BY <1>2, <1>5
<1> QED BY <1>1, <1>6 DEF P

-----------------------------------------------------------------------------
(* Fences.                                                                 *)

FencesIn(text, i) == {j \in 1..i : isFence(text[j])}

LEMMA FencesType ==
  ASSUME NEW text, NEW i \in Nat
  PROVE  FencesUpTo(text, i) \in Nat /\ IsFiniteSet(FencesIn(text, i))
<1>1. IsFiniteSet(1..i)
  BY FS_Interval
<1>2. FencesIn(text, i) \subseteq 1..i
  BY DEF FencesIn
<1>3. IsFiniteSet(FencesIn(text, i))
  BY <1>1, <1>2, FS_Subset
<1>4. Cardinality(FencesIn(text, i)) \in Nat
  BY <1>3, FS_CardinalityType
<1>5. FencesUpTo(text, i) = Cardinality(FencesIn(text, i))
  BY DEF FencesUpTo, FencesIn
<1> QED BY <1>3, <1>4, <1>5

LEMMA FencesSame ==
  ASSUME NEW s, NEW t, NEW i, \A j \in 1..i : isFence(s[j]) <=> isFence(t[j])
  PROVE  FencesUpTo(s, i) = FencesUpTo(t, i)
<1>1. FencesIn(s, i) = FencesIn(t, i)
  BY DEF FencesIn
<1> QED BY <1>1 DEF FencesUpTo, FencesIn

LEMMA FencesNone ==
  ASSUME NEW text, NEW i, \A j \in 1..i : ~isFence(text[j])
  PROVE  FencesUpTo(text, i) = 0
<1>1. FencesIn(text, i) = {}
  BY DEF FencesIn
<1>2. Cardinality({}) = 0
  BY FS_EmptySet
<1> QED BY <1>1, <1>2 DEF FencesUpTo, FencesIn

LEMMA FencesOneMore ==
  ASSUME NEW text, NEW i \in Nat
  PROVE  FencesUpTo(text, i + 1) = FencesUpTo(text, i) + (IF isFence(text[i + 1]) THEN 1 ELSE 0)
<1>1. IsFiniteSet(FencesIn(text, i)) /\ FencesUpTo(text, i) \in Nat
  BY FencesType
<1>2. i + 1 \notin FencesIn(text, i)
  BY DEF FencesIn
<1>3. \A j : j \in 1..(i + 1) <=> j \in 1..i \/ j = i + 1
  OBVIOUS
<1>4. FencesIn(text, i + 1) = IF isFence(text[i + 1]) THEN FencesIn(text, i) \cup {i + 1} ELSE FencesIn(text, i)
  BY <1>3 DEF FencesIn
<1>5. Cardinality(FencesIn(text, i) \cup {i + 1}) = Cardinality(FencesIn(text, i)) + 1
  BY <1>1, <1>2, FS_AddElement
<1>6. FencesUpTo(text, i + 1) = Cardinality(FencesIn(text, i + 1))
      /\ FencesUpTo(text, i) = Cardinality(FencesIn(text, i))
  BY DEF FencesUpTo, FencesIn
<1> QED BY <1>1, <1>4, <1>5, <1>6

-----------------------------------------------------------------------------
(* Normalizing a block.                                                    *)

\* The line i of text stays.
Stays(text, i) == ~(isBlank(text[i]) /\ ~FencedAt(text, i) /\ i > 1 /\ isBlank(text[i - 1]))

LEMMA FencesAppend ==
  ASSUME NEW L, NEW s \in Seq(L), NEW x \in L
  PROVE  /\ \A i \in 0..Len(s) : FencesUpTo(Append(s, x), i) = FencesUpTo(s, i)
         /\ FencesUpTo(Append(s, x), Len(s) + 1) = FencesUpTo(s, Len(s)) + (IF isFence(x) THEN 1 ELSE 0)
         /\ \A i \in 1..Len(s) : FencedAt(Append(s, x), i) <=> FencedAt(s, i)
         /\ FencedAt(Append(s, x), Len(s) + 1) <=> FencesUpTo(s, Len(s)) % 2 = 1
<1>1. Len(s) \in Nat /\ Append(s, x)[Len(s) + 1] = x /\ \A j \in 1..Len(s) : Append(s, x)[j] = s[j]
  OBVIOUS
<1>2. ASSUME NEW i \in 0..Len(s) PROVE FencesUpTo(Append(s, x), i) = FencesUpTo(s, i)
  <2>1. \A j \in 1..i : j \in 1..Len(s)
    BY <1>1
  <2> QED BY <1>1, <2>1, FencesSame
<1>3. Len(s) \in 0..Len(s) /\ (Len(s) + 1) - 1 = Len(s) /\ \A i \in 1..Len(s) : i - 1 \in 0..Len(s)
  BY <1>1
<1>4. FencesUpTo(Append(s, x), Len(s) + 1)
        = FencesUpTo(Append(s, x), Len(s)) + (IF isFence(Append(s, x)[Len(s) + 1]) THEN 1 ELSE 0)
  BY <1>1, FencesOneMore
<1>5. FencesUpTo(Append(s, x), Len(s) + 1) = FencesUpTo(s, Len(s)) + (IF isFence(x) THEN 1 ELSE 0)
  BY <1>1, <1>2, <1>3, <1>4
<1>6. \A i \in 1..Len(s) : FencedAt(Append(s, x), i) <=> FencedAt(s, i)
  BY <1>2, <1>3 DEF FencedAt
<1>7. FencedAt(Append(s, x), Len(s) + 1) <=> FencesUpTo(s, Len(s)) % 2 = 1
  BY <1>2, <1>3 DEF FencedAt
<1> QED BY <1>2, <1>5, <1>6, <1>7

\* What a line becomes once, it is.
LEMMA StrippedTwice ==
  ASSUME NEW x
  PROVE  /\ stripped(stripped(x)) = stripped(x)
         /\ stripped(x) = x \/ stripped(x) \in {Blank, Fence, "more"}
         /\ isFence(stripped(x)) <=> isFence(x)
         /\ isBlank(stripped(x)) <=> isBlank(x)
         /\ isBlank(x) => ~isFence(x)
<1>1. stripped(stripped(x)) = stripped(x)
  BY DEF stripped, Blank, Fence
<1>2. stripped(x) = x \/ stripped(x) \in {Blank, Fence, "more"}
  BY DEF stripped, Blank, Fence
<1> QED BY <1>1, <1>2 DEF isFence, isBlank, Blank, Fence

\* One line more, and what it adds.
Mark(x, fences) == IF fences % 2 = 1 THEN <<"fenced", x>> ELSE <<"prose", stripped(x)>>
More(content, x, fences) ==
  IF fences % 2 # 1 /\ isBlank(x) THEN content ELSE Append(content, Mark(x, fences))

\* The line i of text with its place.
PlaceOf(text, i) ==
  IF FencedAt(text, i) THEN <<"fenced", text[i]>> ELSE <<"prose", stripped(text[i])>>
Placed(text) == [i \in DOMAIN text |-> PlaceOf(text, i)]
Counts(text) == {i \in DOMAIN text : FencedAt(text, i) \/ ~isBlank(text[i])}
WithPlaces(L) == {"fenced", "prose"} \X (L \cup {Blank, Fence, "more"})

LEMMA PlacedType ==
  ASSUME NEW L, NEW s \in Seq(L)
  PROVE  Placed(s) \in Seq(WithPlaces(L)) /\ Len(Placed(s)) = Len(s)
         /\ \A i \in 1..Len(s) : Placed(s)[i] = PlaceOf(s, i)
<1>1. Len(s) \in Nat /\ DOMAIN s = 1..Len(s) /\ \A i \in 1..Len(s) : s[i] \in L
  OBVIOUS
<1>2. ASSUME NEW i \in 1..Len(s) PROVE PlaceOf(s, i) \in WithPlaces(L)
  <2>1. s[i] \in L /\ stripped(s[i]) \in L \cup {Blank, Fence, "more"}
    BY <1>1, StrippedTwice
  <2> QED BY <2>1 DEF PlaceOf, WithPlaces
<1>3. PICK a : a = Placed(s)
  OBVIOUS
<1>4. DOMAIN a = 1..Len(s) /\ \A i \in 1..Len(s) : a[i] = PlaceOf(s, i)
  BY <1>1, <1>3 DEF Placed
<1>5. a \in [1..Len(s) -> WithPlaces(L)]
  BY <1>1, <1>2, <1>3 DEF Placed
<1>6. a \in Seq(WithPlaces(L)) /\ Len(a) = Len(s)
  BY <1>1, <1>5
<1> QED BY <1>3, <1>4, <1>6

LEMMA ContentIs ==
  ASSUME NEW text
  PROVE  Content(text) = Picked(Placed(text), Counts(text))
<1> DEFINE place(i) == IF FencedAt(text, i) THEN "fenced" ELSE "prose"
<1>1. ASSUME NEW i \in DOMAIN text PROVE <<place(i), Unpadded(text)[i]>> = PlaceOf(text, i)
  <2>1. Unpadded(text)[i] = IF FencedAt(text, i) THEN text[i] ELSE stripped(text[i])
    BY <1>1 DEF Unpadded
  <2> QED BY <2>1 DEF PlaceOf
<1>2. [i \in DOMAIN text |-> <<place(i), Unpadded(text)[i]>>] = Placed(text)
  BY <1>1 DEF Placed
<1> QED BY <1>2 DEF Content, Counts

LEMMA ContentAppend ==
  ASSUME NEW L, NEW s \in Seq(L), NEW x \in L
  PROVE  Content(Append(s, x)) = More(Content(s), x, FencesUpTo(s, Len(s)))
<1>0. PICK t : t = Append(s, x)
  OBVIOUS
<1>1. /\ t \in Seq(L) /\ Len(t) = Len(s) + 1 /\ Len(s) \in Nat /\ t[Len(t)] = x
      /\ DOMAIN s = 1..Len(s) /\ DOMAIN t = 1..(Len(s) + 1)
      /\ \A i \in 1..Len(s) : t[i] = s[i]
  BY <1>0
<1>2. /\ \A i \in 1..Len(s) : FencedAt(t, i) <=> FencedAt(s, i)
      /\ FencedAt(t, Len(s) + 1) <=> FencesUpTo(s, Len(s)) % 2 = 1
  BY <1>0, FencesAppend
<1>3. PICK a \in Seq(WithPlaces(L)) : a = Placed(s) /\ Len(a) = Len(s) /\ \A i \in 1..Len(s) : a[i] = PlaceOf(s, i)
  BY PlacedType
<1>4. PICK b \in Seq(WithPlaces(L)) : b = Placed(t) /\ Len(b) = Len(t) /\ \A i \in 1..Len(t) : b[i] = PlaceOf(t, i)
  BY <1>1, PlacedType
<1>5. ASSUME NEW i \in 1..Len(s) PROVE i \in 1..Len(t) /\ PlaceOf(t, i) = PlaceOf(s, i)
  <2>1. t[i] = s[i] /\ (FencedAt(t, i) <=> FencedAt(s, i)) /\ i \in 1..Len(t)
    BY <1>1, <1>2
  <2> QED BY <2>1 DEF PlaceOf
<1>6. Len(b) = Len(a) + 1 /\ \A i \in 1..Len(a) : b[i] = a[i]
  BY <1>1, <1>3, <1>4, <1>5
<1>7. \A i \in 1..Len(a) : i \in Counts(s) <=> i \in Counts(t)
  BY <1>1, <1>2, <1>3, <1>5 DEF Counts
<1>8. Picked(b, Counts(t)) = IF Len(b) \in Counts(t) THEN Append(Picked(a, Counts(s)), b[Len(b)]) ELSE Picked(a, Counts(s))
  BY <1>6, <1>7, PickedAppend
<1>9. Len(b) \in 1..Len(t) /\ Len(b) = Len(s) + 1
  BY <1>1, <1>4
<1>10. b[Len(b)] = Mark(x, FencesUpTo(s, Len(s)))
  BY <1>1, <1>2, <1>4, <1>9 DEF PlaceOf, Mark
<1>11. Len(b) \in Counts(t) <=> ~(FencesUpTo(s, Len(s)) % 2 # 1 /\ isBlank(x))
  BY <1>1, <1>2, <1>9 DEF Counts
<1>12. Content(s) = Picked(a, Counts(s)) /\ Content(t) = Picked(b, Counts(t))
  BY <1>3, <1>4, ContentIs
<1> QED BY <1>0, <1>8, <1>10, <1>11, <1>12 DEF More

\* The line i of text has no blanks behind it, or they count.
Tidy(text, i) == FencedAt(text, i) \/ stripped(text[i]) = text[i]

\* What collapsing keeps of the first k lines.
LEMMA Collapses ==
  ASSUME NEW L, NEW s \in Seq(L), \A i \in 1..Len(s) : Tidy(s, i)
  PROVE  /\ Collapsed(s) \in Seq(L)
         /\ Content(Collapsed(s)) = Content(s)
         /\ \A i \in 1..Len(Collapsed(s)) : Stays(Collapsed(s), i) /\ Tidy(Collapsed(s), i)
<1> DEFINE n == Len(s)
           K == {i \in DOMAIN s : ~(isBlank(s[i]) /\ ~FencedAt(s, i) /\ i > 1 /\ isBlank(s[i - 1]))}
<1>1. n \in Nat /\ DOMAIN s = 1..n /\ \A i \in 1..n : s[i] \in L
  OBVIOUS
<1>2. Collapsed(s) = Picked(s, K)
  BY DEF Collapsed
<1>3. \A i \in 1..n : i \in K <=> Stays(s, i)
  BY <1>1 DEF Stays
<1> HIDE DEF K
<1>4. PICK g : Picks(g, s, K) /\ Picked(s, K) = g[Len(s)]
  BY PickedExists
<1>5. g[0] = <<>> /\ \A k \in 1..n : g[k] = IF Stays(s, k) THEN Append(g[k - 1], s[k]) ELSE g[k - 1]
  BY <1>3, <1>4 DEF Picks
<1> HIDE DEF n
<1> DEFINE Same(k) == /\ FencesUpTo(g[k], Len(g[k])) = FencesUpTo(s, k)
                      /\ Content(g[k]) = Content(SubSeq(s, 1, k))
           Ends(k) == IF k = 0 THEN Len(g[k]) = 0
                      ELSE Len(g[k]) > 0 /\ (isBlank(g[k][Len(g[k])]) <=> isBlank(s[k]))
           P == {k \in 0..n : /\ g[k] \in Seq(L) /\ Same(k) /\ Ends(k)
                              /\ \A i \in 1..Len(g[k]) : Stays(g[k], i) /\ Tidy(g[k], i)}
<1>6. 0 \in P
  <2>1. 0 \in 0..n /\ g[0] = <<>> /\ Len(g[0]) = 0 /\ SubSeq(s, 1, 0) = <<>> /\ <<>> \in Seq(L)
    BY <1>1, <1>5
  <2>2. FencesUpTo(g[0], 0) = FencesUpTo(s, 0)
    <3>1. \A j \in 1..0 : isFence(g[0][j]) <=> isFence(s[j])
      OBVIOUS
    <3> QED BY <3>1, FencesSame
  <2>3. \A i \in 1..Len(g[0]) : Stays(g[0], i) /\ Tidy(g[0], i)
    BY <2>1
  <2> QED BY <2>1, <2>2, <2>3
<1>7. ASSUME NEW k \in 1..n, k - 1 \in P PROVE k \in P
  <2>1. PICK p : p = g[k - 1]
    OBVIOUS
  <2>2. k \in 0..n /\ k - 1 \in 0..n /\ (k - 1) + 1 = k /\ s[k] \in L /\ k - 1 \in Nat /\ k \in Nat /\ 1 <= k /\ k <= n
    BY <1>1
  <2>3. p \in Seq(L) /\ Len(p) \in Nat /\ FencesUpTo(p, Len(p)) = FencesUpTo(s, k - 1)
        /\ Content(p) = Content(SubSeq(s, 1, k - 1)) /\ \A i \in 1..Len(p) : Stays(p, i) /\ Tidy(p, i)
    BY <1>7, <2>1
  <2>4. IF k = 1 THEN Len(p) = 0 ELSE Len(p) > 0 /\ (isBlank(p[Len(p)]) <=> isBlank(s[k - 1]))
    BY <1>7, <2>1, <2>2
  <2> HIDE DEF P
  <2>5. FencesUpTo(s, k) = FencesUpTo(s, k - 1) + (IF isFence(s[k]) THEN 1 ELSE 0)
    BY <2>2, FencesOneMore
  <2>6. PICK r : r = SubSeq(s, 1, k - 1)
    OBVIOUS
  <2>7. r \in Seq(L) /\ Len(r) = k - 1 /\ SubSeq(s, 1, k) = Append(r, s[k]) /\ \A j \in 1..(k - 1) : r[j] = s[j]
    <3>1. r \in Seq(L) /\ Len(r) = k - 1
      BY <1>1, <2>2, <2>6 DEF n
    <3>2. SubSeq(s, 1, k) = Append(r, s[k])
      BY <1>1, <2>2, <2>6 DEF n
    <3>3. \A j \in 1..(k - 1) : r[j] = s[j]
      BY <1>1, <2>2, <2>6 DEF n
    <3> QED BY <3>1, <3>2, <3>3
  <2>8. FencesUpTo(r, Len(r)) = FencesUpTo(s, k - 1)
    BY <2>7, FencesSame
  <2>10. Content(SubSeq(s, 1, k)) = More(Content(r), s[k], FencesUpTo(s, k - 1))
    <3>1. Content(Append(r, s[k])) = More(Content(r), s[k], FencesUpTo(r, Len(r)))
      BY <2>2, <2>7, ContentAppend
    <3> QED BY <2>7, <2>8, <3>1
  <2>11. CASE Stays(s, k)
    <3>1. g[k] = Append(p, s[k])
      BY <1>5, <2>1, <2>11
    <3>2. PICK q : q = Append(p, s[k])
      OBVIOUS
    <3>3. q \in Seq(L) /\ Len(q) = Len(p) + 1 /\ q[Len(q)] = s[k] /\ \A i \in 1..Len(p) : q[i] = p[i]
      BY <2>2, <2>3, <3>2
    <3>4. /\ FencesUpTo(q, Len(p) + 1) = FencesUpTo(p, Len(p)) + (IF isFence(s[k]) THEN 1 ELSE 0)
          /\ \A i \in 1..Len(p) : FencedAt(q, i) <=> FencedAt(p, i)
          /\ FencedAt(q, Len(p) + 1) <=> FencesUpTo(p, Len(p)) % 2 = 1
      BY <2>2, <2>3, <3>2, FencesAppend
    <3>5. FencesUpTo(q, Len(q)) = FencesUpTo(s, k)
      BY <2>3, <2>5, <3>3, <3>4
    <3>6. Content(q) = Content(SubSeq(s, 1, k))
      <4>1. Content(q) = More(Content(p), s[k], FencesUpTo(p, Len(p)))
        BY <2>2, <2>3, <3>2, ContentAppend
      <4> QED BY <2>3, <2>6, <2>10, <4>1
    <3>7. ASSUME NEW i \in 1..Len(q) PROVE Stays(q, i) /\ Tidy(q, i)
      <4>1. CASE i \in 1..Len(p)
        <5>1. Stays(p, i) /\ Tidy(p, i) /\ q[i] = p[i] /\ (FencedAt(q, i) <=> FencedAt(p, i))
          BY <2>3, <3>3, <3>4, <4>1
        <5>2. i > 1 => q[i - 1] = p[i - 1]
          <6>1. i > 1 => i - 1 \in 1..Len(p)
            BY <2>3, <4>1
          <6> QED BY <3>3, <6>1
        <5> QED BY <5>1, <5>2 DEF Stays, Tidy
      <4>2. CASE i = Len(p) + 1
        <5>1. q[i] = s[k] /\ (FencedAt(q, i) <=> FencedAt(s, k))
          BY <2>3, <3>3, <3>4, <4>2 DEF FencedAt
        <5>2. i > 1 => k > 1 /\ (isBlank(q[i - 1]) <=> isBlank(s[k - 1]))
          <6>1. i > 1 => Len(p) > 0 /\ i - 1 = Len(p) /\ Len(p) \in 1..Len(p)
            BY <2>3, <4>2
          <6>2. i > 1 => k # 1 /\ q[i - 1] = p[Len(p)]
            BY <2>4, <3>3, <6>1
          <6> QED BY <2>2, <2>4, <6>2
        <5>3. Tidy(s, k)
          BY <1>1
        <5> QED BY <2>11, <5>1, <5>2, <5>3 DEF Stays, Tidy
      <4>3. i \in 1..Len(p) \/ i = Len(p) + 1
        BY <2>3, <3>3
      <4> QED BY <4>1, <4>2, <4>3
    <3>8. Len(q) > 0 /\ k # 0
      BY <2>2, <2>3, <3>3
    <3>9. g[k] = q
      BY <3>1, <3>2
    <3> QED BY <2>2, <3>3, <3>5, <3>6, <3>7, <3>8, <3>9 DEF P
  <2>12. CASE ~Stays(s, k)
    <3>1. g[k] = p
      BY <1>5, <2>1, <2>12
    <3>2. isBlank(s[k]) /\ ~FencedAt(s, k) /\ k > 1 /\ isBlank(s[k - 1])
      BY <2>12 DEF Stays
    <3>3. ~isFence(s[k])
      BY <3>2, StrippedTwice
    <3>4. FencesUpTo(p, Len(p)) = FencesUpTo(s, k)
      <4>1. FencesUpTo(s, k - 1) \in Nat
        BY <2>2, FencesType
      <4> QED BY <2>3, <2>5, <3>3, <4>1
    <3>6. Content(p) = Content(SubSeq(s, 1, k))
      BY <2>3, <2>6, <2>10, <3>2 DEF More, FencedAt
    <3>7. Len(p) > 0 /\ (isBlank(p[Len(p)]) <=> isBlank(s[k])) /\ k # 0
      BY <2>2, <2>4, <3>2, <3>3
    <3> QED BY <2>2, <2>3, <3>1, <3>4, <3>6, <3>7 DEF P
  <2> QED BY <2>11, <2>12
<1> HIDE DEF P
<1>8. 0..n \subseteq P
  BY <1>1, <1>6, <1>7, UpToAll
<1>9. n \in P
  BY <1>1, <1>8
<1>10. g[n] \in Seq(L) /\ Content(g[n]) = Content(SubSeq(s, 1, n))
       /\ \A i \in 1..Len(g[n]) : Stays(g[n], i) /\ Tidy(g[n], i)
  BY <1>9 DEF P
<1>11. Collapsed(s) = g[n] /\ SubSeq(s, 1, n) = s
  BY <1>1, <1>2, <1>4 DEF n
<1> QED BY <1>10, <1>11

LEMMA CollapsedIsFixed ==
  ASSUME NEW L, NEW s \in Seq(L), \A i \in 1..Len(s) : Stays(s, i)
  PROVE  Collapsed(s) = s
<1> DEFINE K == {i \in DOMAIN s : ~(isBlank(s[i]) /\ ~FencedAt(s, i) /\ i > 1 /\ isBlank(s[i - 1]))}
<1>1. \A i \in 1..Len(s) : i \in K
  BY DEF Stays
<1>2. Collapsed(s) = Picked(s, K)
  BY DEF Collapsed
<1> HIDE DEF K
<1> QED BY <1>1, <1>2, PickedAll

LEMMA TidyIsUnpadded ==
  ASSUME NEW L, NEW s \in Seq(L), \A i \in 1..Len(s) : Tidy(s, i)
  PROVE  Unpadded(s) = s
<1>1. \A i \in DOMAIN s : (IF FencedAt(s, i) THEN s[i] ELSE stripped(s[i])) = s[i]
  BY DEF Tidy
<1>2. s = [i \in DOMAIN s |-> s[i]]
  OBVIOUS
<1>3. PICK t : t = Unpadded(s)
  OBVIOUS
<1>4. t = [i \in DOMAIN s |-> s[i]]
  BY <1>1, <1>3 DEF Unpadded
<1> QED BY <1>2, <1>3, <1>4

\* What taking the blanks behind lines away changes: nothing that counts.
LEMMA UnpaddedIs ==
  ASSUME NEW L, NEW s \in Seq(L)
  PROVE  /\ Unpadded(s) \in Seq(L \cup {Blank, Fence, "more"})
         /\ \A i \in 1..Len(Unpadded(s)) : Tidy(Unpadded(s), i)
         /\ Content(Unpadded(s)) = Content(s)
<1> DEFINE M == L \cup {Blank, Fence, "more"}
<1>1. Len(s) \in Nat /\ DOMAIN s = 1..Len(s) /\ \A i \in 1..Len(s) : s[i] \in L
  OBVIOUS
<1>2. PICK t : t = Unpadded(s)
  OBVIOUS
<1>3. DOMAIN t = 1..Len(s) /\ \A i \in 1..Len(s) : t[i] = IF FencedAt(s, i) THEN s[i] ELSE stripped(s[i])
  BY <1>1, <1>2 DEF Unpadded
<1>4. \A i \in 1..Len(s) : t[i] \in M /\ (isFence(t[i]) <=> isFence(s[i])) /\ (isBlank(t[i]) <=> isBlank(s[i]))
  BY <1>1, <1>3, StrippedTwice
<1>5. t \in Seq(M) /\ Len(t) = Len(s)
  <2>1. t \in [1..Len(s) -> M]
    BY <1>1, <1>2, <1>3, <1>4 DEF Unpadded
  <2> QED BY <1>1, <2>1
<1>6. ASSUME NEW i \in 1..Len(s) PROVE FencedAt(t, i) <=> FencedAt(s, i)
  <2>1. \A j \in 1..(i - 1) : j \in 1..Len(s)
    BY <1>1
  <2>2. FencesUpTo(t, i - 1) = FencesUpTo(s, i - 1)
    BY <1>4, <2>1, FencesSame
  <2> QED BY <2>2 DEF FencedAt
<1>7. ASSUME NEW i \in 1..Len(t) PROVE Tidy(t, i)
  BY <1>3, <1>5, <1>6, StrippedTwice DEF Tidy
<1>8. Content(t) = Content(s)
  <2>1. ASSUME NEW i \in 1..Len(s) PROVE PlaceOf(t, i) = PlaceOf(s, i)
    BY <1>3, <1>6, StrippedTwice DEF PlaceOf
  <2>2. Placed(t) = Placed(s)
    BY <1>1, <1>3, <2>1 DEF Placed
  <2>3. Counts(t) = Counts(s)
    BY <1>1, <1>3, <1>4, <1>6 DEF Counts
  <2> QED BY <2>2, <2>3, ContentIs
<1> QED BY <1>2, <1>5, <1>7, <1>8

LEMMA BlocksAreNormal ==
  ASSUME NEW L, lines \in Seq(L)
  PROVE  BlockNormal
<1> DEFINE M == L \cup {Blank, Fence, "more"}
<1>1. PICK bare : bare = Unpadded(lines)
  OBVIOUS
<1>2. bare \in Seq(M) /\ (\A i \in 1..Len(bare) : Tidy(bare, i)) /\ Content(bare) = Content(lines)
  BY <1>1, UnpaddedIs
<1>3. PICK text : text = Collapsed(bare)
  OBVIOUS
<1> HIDE DEF M
<1>4. text \in Seq(M) /\ Content(text) = Content(bare) /\ \A i \in 1..Len(text) : Stays(text, i) /\ Tidy(text, i)
  BY <1>2, <1>3, Collapses
<1>5. Unpadded(text) = text /\ Collapsed(text) = text
  BY <1>4, TidyIsUnpadded, CollapsedIsFixed
<1>6. normalizeBlockWhitespace(lines) = text /\ normalizeBlockWhitespace(text) = text
  BY <1>1, <1>3, <1>5 DEF normalizeBlockWhitespace
<1> QED BY <1>2, <1>4, <1>6 DEF BlockNormal

-----------------------------------------------------------------------------
(* Echoes.                                                                 *)

\* The forms of the lines a block and its quotes are made of.
LEMMA FormsAre ==
  /\ isFence(Fence) /\ \A l \in {Echo, Guidance, Open, Close, "more"} : ~isFence(l)
  /\ \A l \in {Echo, Guidance, Open, Close, "more"} : ~isBlank(l) /\ stripped(l) = l
BY DEF isFence, isBlank, stripped, Fence, Blank, Echo, Guidance, Open, Close

LEMMA MinIs ==
  ASSUME NEW S \in SUBSET Int, NEW k \in S, \A j \in S : k <= j
  PROVE  Min(S) = k
<1>1. Min(S) \in S /\ \A y \in S : Min(S) <= y
  BY DEF Min
<1>2. Min(S) \in Int /\ k \in Int /\ Min(S) <= k /\ k <= Min(S)
  BY <1>1
<1> QED BY <1>2

LEMMA MaxIs ==
  ASSUME NEW S \in SUBSET Int, NEW k \in S, \A j \in S : j <= k
  PROVE  Max(S) = k
<1>1. Max(S) \in S /\ \A y \in S : Max(S) >= y
  <2>1. \A j \in S : k >= j
    OBVIOUS
  <2> QED BY <2>1 DEF Max
<1>2. Max(S) \in Int /\ k \in Int /\ Max(S) <= k /\ k <= Max(S)
  BY <1>1
<1> QED BY <1>2

LEMMA OnlyOne ==
  ASSUME NEW z \in Int
  PROVE  Min({z}) = z /\ Max({z}) = z
<1>1. \A j \in {z} : z <= j /\ j <= z
  <2>1. \A j \in {z} : j = z
    OBVIOUS
  <2>2. z <= z
    OBVIOUS
  <2> QED BY <2>1, <2>2
<1>2. {z} \in SUBSET Int /\ z \in {z}
  OBVIOUS
<1> QED BY <1>1, <1>2, MinIs, MaxIs

\* The heading i is the first of an echo, from a to c.
LEMMA StripFirst ==
  ASSUME NEW t, Len(t) \in Nat, DOMAIN t = 1..Len(t), NEW i \in 1..Len(t),
         \A j \in 1..Len(t) : j < i => t[j] # Echo,
         NEW a \in Nat, NEW c \in Nat, a <= c, EchoSpan(t, i) = a..c
  PROVE  stripFirstEcho(t) = SubSeq(t, 1, a - 1) \o SubSeq(t, c + 1, Len(t))
<1> DEFINE H == {j \in DOMAIN t : EchoSpan(t, j) # {}}
<1>1. ASSUME NEW j \in 1..Len(t), t[j] # Echo PROVE EchoSpan(t, j) = {}
  BY <1>1 DEF EchoSpan
<1>2. i \in H
  <2>1. a \in a..c
    OBVIOUS
  <2>2. EchoSpan(t, i) # {}
    BY <2>1
  <2> QED BY <2>2
<1>3. H \in SUBSET Int /\ \A j \in H : i <= j
  <2>1. \A j \in H : j \in 1..Len(t) /\ t[j] = Echo
    BY <1>1
  <2> QED BY <2>1
<1>4. Min(H) = i
  BY <1>2, <1>3, MinIs
<1>5. Min(a..c) = a
  <2>1. a..c \in SUBSET Int /\ a \in a..c /\ \A j \in a..c : a <= j
    OBVIOUS
  <2> QED BY <2>1, MinIs
<1>6. Max(a..c) = c
  <2>1. a..c \in SUBSET Int /\ c \in a..c /\ \A j \in a..c : j <= c
    OBVIOUS
  <2> QED BY <2>1, MaxIs
<1>7. H # {}
  BY <1>2
<1>8. stripFirstEcho(t) = IF H = {} THEN t
        ELSE SubSeq(t, 1, Min(EchoSpan(t, Min(H))) - 1) \o SubSeq(t, Max(EchoSpan(t, Min(H))) + 1, Len(t))
  BY DEF stripFirstEcho
<1> HIDE DEF H
<1> QED BY <1>4, <1>5, <1>6, <1>7, <1>8

LEMMA StripNothing ==
  ASSUME NEW t, \A j \in DOMAIN t : t[j] # Echo
  PROVE  stripFirstEcho(t) = t
<1>1. \A j \in DOMAIN t : EchoSpan(t, j) = {}
  BY DEF EchoSpan
<1> QED BY <1>1 DEF stripFirstEcho

\* An echo that fills a fence goes with it.
LEMMA EchoFenced ==
  ASSUME NEW t, Len(t) \in Nat, DOMAIN t = 1..Len(t), NEW o \in {1, 2}, NEW c \in (o + 3)..Len(t),
         t[o] = Fence, t[o + 1] = Echo, t[o + 2] = Guidance, t[c] = Fence,
         \A k \in 1..Len(t) : isFence(t[k]) => k = o \/ k = c,
         o = 2 => t[1] # Echo
  PROVE  stripFirstEcho(t) = SubSeq(t, 1, o - 1) \o SubSeq(t, c + 1, Len(t))
<1> DEFINE F == Positions(t, isFence)
           i == o + 1
<1>0. o \in Nat /\ c \in Nat /\ i \in 1..Len(t) /\ i < Len(t) /\ o \in 1..Len(t) /\ c \in 1..Len(t) /\ o < i /\ i < c /\ o < c
  OBVIOUS
<1>1. F = {o, c}
  <2>1. \A k \in F : k \in 1..Len(t) /\ isFence(t[k])
    BY DEF Positions
  <2>2. o \in F /\ c \in F
    BY <1>0, FormsAre DEF Positions
  <2> HIDE DEF F
  <2> QED BY <2>1, <2>2
<1>2. FencedAt(t, i)
  <2>1. FencesUpTo(t, o - 1) = 0
    <3>1. \A k \in 1..(o - 1) : k \in 1..Len(t) /\ k # o /\ k # c
      BY <1>0
    <3> QED BY <3>1, FencesNone
  <2>2. FencesUpTo(t, o) = FencesUpTo(t, o - 1) + 1
    <3>1. o - 1 \in Nat /\ (o - 1) + 1 = o
      BY <1>0
    <3>2. FencesUpTo(t, (o - 1) + 1) = FencesUpTo(t, o - 1) + (IF isFence(t[(o - 1) + 1]) THEN 1 ELSE 0)
      BY <3>1, FencesOneMore
    <3>3. isFence(t[o])
      BY FormsAre
    <3> QED BY <3>1, <3>2, <3>3
  <2>3. i - 1 = o
    BY <1>0
  <2> QED BY <2>1, <2>2, <2>3 DEF FencedAt
<1> HIDE DEF F
<1>3. (\E k \in F : k < i) /\ {k \in F : k < i} = {o} /\ {k \in F : k > i} = {c}
  BY <1>0, <1>1
<1>4. Max({o}) = o /\ Min({c}) = c
  <2>1. o \in Int /\ c \in Int
    BY <1>0
  <2> QED BY <2>1, OnlyOne
<1>5. First({c}, Len(t)) = c
  BY <1>4 DEF First
<1>6. \A k \in (o + 1)..(i - 1) : isBlank(t[k])
  BY <1>0
<1>7. t[i] = Echo /\ i < Len(t) /\ t[i + 1] = Guidance /\ o # 0
  <2>1. i + 1 = o + 2
    BY <1>0
  <2> QED BY <1>0, <2>1
<1> HIDE DEF i
<1>8. EchoSpan(t, i) = o..c
  BY <1>2, <1>3, <1>4, <1>5, <1>6, <1>7 DEF EchoSpan, F
<1>9. \A j \in 1..Len(t) : j < i => t[j] # Echo
  <2>1. \A j \in 1..Len(t) : j < i => j = o \/ (o = 2 /\ j = 1)
    BY <1>0 DEF i
  <2>2. Fence # Echo
    BY DEF Fence, Echo
  <2>3. t[o] # Echo
    BY <2>2
  <2>4. ASSUME NEW j \in 1..Len(t), j < i PROVE t[j] # Echo
    <3>1. CASE j = o
      BY <2>3, <3>1
    <3>2. CASE o = 2 /\ j = 1
      BY <3>2
    <3> QED BY <2>1, <2>4, <3>1, <3>2
  <2> QED BY <2>4
<1>10. i \in 1..Len(t) /\ o \in Nat /\ c \in Nat /\ o <= c
  BY <1>0
<1> QED BY <1>8, <1>9, <1>10, StripFirst

\* An echo without a fence, behind o lines of prose, goes up to its closing tag.
LEMMA EchoBare ==
  ASSUME NEW t, Len(t) \in Nat, DOMAIN t = 1..Len(t), NEW o \in {0, 1}, NEW c \in (o + 4)..Len(t),
         o = 1 => t[1] # Echo,
         t[o + 1] = Echo, t[o + 2] = Guidance, t[o + 3] = Open, t[c] = Close,
         \A k \in 1..Len(t) : ~isFence(t[k]),
         \A k \in (o + 4)..Len(t) : t[k] = Close => k = c
  PROVE  stripFirstEcho(t) = SubSeq(t, 1, o) \o SubSeq(t, c + 1, Len(t))
<1> DEFINE open  == {k \in DOMAIN t : k > o + 1 /\ t[k] = Open}
           close == {k \in DOMAIN t : open # {} /\ k > Min(open) /\ t[k] = Close}
<1>0. /\ o \in Nat /\ c \in Nat /\ o + 1 \in 1..Len(t) /\ o + 1 < Len(t) /\ o + 2 \in 1..Len(t)
      /\ o + 3 \in 1..Len(t) /\ o + 3 < c /\ c \in 1..Len(t)
      /\ \A k \in 1..Len(t) : k > o + 1 => k = o + 2 \/ k = o + 3 \/ k \in (o + 4)..Len(t)
  OBVIOUS
<1>1. o + 3 \in open /\ open \in SUBSET Int /\ \A k \in open : o + 3 <= k
  <2>1. Guidance # Open
    BY DEF Guidance, Open
  <2>2. \A k \in open : k \in 1..Len(t) /\ k > o + 1 /\ t[k] = Open
    OBVIOUS
  <2>3. \A k \in open : k # o + 2 /\ o + 3 <= k
    BY <1>0, <2>1, <2>2
  <2>4. o + 3 \in open
    BY <1>0
  <2> HIDE DEF open
  <2> QED BY <2>2, <2>3, <2>4
<1> HIDE DEF open
<1>2. Min(open) = o + 3 /\ open # {}
  BY <1>1, MinIs
<1>3. close = {c}
  <2>1. \A k \in close : k \in 1..Len(t) /\ k > o + 3 /\ t[k] = Close
    BY <1>2
  <2>2. \A k \in close : k = c
    BY <1>0, <2>1
  <2>3. c \in close
    BY <1>0, <1>2
  <2> HIDE DEF close
  <2> QED BY <2>2, <2>3
<1> HIDE DEF close
<1>4. Min({c}) = c
  BY <1>0, OnlyOne
<1>5. ~FencedAt(t, o + 1)
  <2>1. \A k \in 1..o : k \in 1..Len(t)
    BY <1>0
  <2>2. FencesUpTo(t, o) = 0
    BY <2>1, FencesNone
  <2>3. (o + 1) - 1 = o
    BY <1>0
  <2> QED BY <2>2, <2>3 DEF FencedAt
<1>6. t[o + 1] = Echo /\ o + 1 < Len(t) /\ t[(o + 1) + 1] = Guidance
  <2>1. (o + 1) + 1 = o + 2
    BY <1>0
  <2> QED BY <1>0, <2>1
<1>7. EchoSpan(t, o + 1) = (o + 1)..c
  BY <1>3, <1>4, <1>5, <1>6 DEF EchoSpan, open, close
<1>8. \A j \in 1..Len(t) : j < o + 1 => t[j] # Echo
  <2>1. \A j \in 1..Len(t) : j < o + 1 => j = 1 /\ o = 1
    BY <1>0
  <2> QED BY <2>1
<1>9. o + 1 \in Nat /\ o + 1 <= c /\ (o + 1) - 1 = o
  BY <1>0
<1>10. stripFirstEcho(t) = SubSeq(t, 1, (o + 1) - 1) \o SubSeq(t, c + 1, Len(t))
  BY <1>0, <1>7, <1>8, <1>9, StripFirst
<1> QED BY <1>9, <1>10

\* When the first pass leaves no echo, stripping ends there.
LEMMA StripOnce ==
  ASSUME NEW t, Len(t) \in Nat, Len(t) >= 2,
         NEW r, stripFirstEcho(t) = r, stripFirstEcho(r) = r, r # t
  PROVE  stripNestedMemoryEcho(t) = trim(r)
<1> DEFINE n == Len(t)
           D(u) == [k \in 0..n |-> IF k = 0 THEN t ELSE stripFirstEcho(u[k - 1])]
           f == [k \in 0..n |-> IF k = 0 THEN t ELSE r]
<1>1. f = D(f)
  <2>1. ASSUME NEW k \in 0..n
        PROVE  (IF k = 0 THEN t ELSE r) = (IF k = 0 THEN t ELSE stripFirstEcho(f[k - 1]))
    <3>1. CASE k = 0
      BY <3>1
    <3>2. CASE k # 0
      <4>1. k - 1 \in 0..n
        BY <3>2
      <4>2. f[k - 1] = IF k - 1 = 0 THEN t ELSE r
        BY <4>1
      <4> QED BY <3>2, <4>2
    <3> QED BY <3>1, <3>2
  <2> QED BY <2>1
<1>2. PICK u : u = CHOOSE v : v = D(v)
  OBVIOUS
<1> HIDE DEF f
<1>3. u = D(u)
  BY <1>1, <1>2
<1>4. u[0] = t /\ \A k \in 1..n : u[k] = stripFirstEcho(u[k - 1])
  <2>1. 0 \in 0..n /\ \A k \in 1..n : k \in 0..n /\ k # 0
    OBVIOUS
  <2> QED BY <1>3, <2>1
<1> DEFINE P == {k \in 0..n : k = 0 \/ u[k] = r}
<1>5. 0 \in P
  OBVIOUS
<1>6. ASSUME NEW k \in 1..n, k - 1 \in P PROVE k \in P
  <2>1. k \in 0..n
    OBVIOUS
  <2>2. CASE k - 1 = 0
    BY <1>4, <2>1, <2>2
  <2>3. CASE u[k - 1] = r
    BY <1>4, <2>1, <2>3
  <2> QED BY <1>6, <2>2, <2>3
<1> HIDE DEF P
<1>7. 0..n \subseteq P
  BY <1>5, <1>6, UpToAll
<1>8. n \div 2 \in 0..n /\ n \div 2 # 0
  OBVIOUS
<1>9. u[n \div 2] = r
  BY <1>7, <1>8 DEF P
<1>10. stripNestedMemoryEcho(t) = LET result == u[n \div 2] IN IF result = t THEN t ELSE trim(result)
  BY <1>2 DEF stripNestedMemoryEcho
<1> QED BY <1>9, <1>10

\* t is a and then b.
IsJoin(t, a, b) ==
  /\ Len(t) = Len(a) + Len(b)
  /\ \A i \in 1..Len(a) : t[i] = a[i]
  /\ \A i \in 1..Len(b) : t[Len(a) + i] = b[i]

LEMMA Joined ==
  ASSUME NEW L, NEW a \in Seq(L), NEW b \in Seq(L)
  PROVE  a \o b \in Seq(L) /\ IsJoin(a \o b, a, b)
  BY DEF IsJoin

LEMMA OneOf ==
  ASSUME NEW L, NEW t \in Seq(L), NEW k \in 1..Len(t)
  PROVE  SubSeq(t, k, k) = <<t[k]>>
<1>1. PICK s : s = SubSeq(t, k, k)
  OBVIOUS
<1>2. s \in Seq(L) /\ Len(s) = 1
  BY <1>1
<1>3. s[1] = t[k]
  BY <1>1
<1>4. PICK u : u = <<t[k]>>
  OBVIOUS
<1>5. u \in Seq(L) /\ Len(u) = 1 /\ u[1] = t[k]
  BY <1>4
<1>6. \A i \in 1..Len(s) : s[i] = u[i]
  BY <1>2, <1>3, <1>5
<1>7. s = u
  BY <1>2, <1>5, <1>6, SeqEqual
<1> QED BY <1>1, <1>4, <1>7

LEMMA TwoOf ==
  ASSUME NEW x
  PROVE <<x>> \o <<x>> = <<x, x>>
<1>1. PICK s : s = <<x>> \o <<x>>
  OBVIOUS
<1>2. s \in Seq({x}) /\ Len(s) = 2
  BY <1>1
<1>3. s[1] = x /\ s[2] = x
  BY <1>1
<1>4. PICK u : u = <<x,x>>
  OBVIOUS
<1>5. u \in Seq({x}) /\ Len(u) = 2 /\ u[1] = x /\ u[2] = x
  BY <1>4
<1>6. \A i \in 1..Len(s) : s[i] = u[i]
  BY <1>2, <1>3, <1>5
<1>7. s = u
  BY <1>2, <1>5, <1>6, SeqEqual
<1> QED BY <1>1, <1>4, <1>7

\* The lines of a block, one by one.
IsBlock(b, text, n) ==
  /\ Len(b) = n + 4
  /\ b[1] = Echo /\ b[2] = Guidance /\ b[3] = Open /\ b[n + 4] = Close
  /\ \A i \in 1..n : b[3 + i] = text[i]

LEMMA BlockShape ==
  ASSUME NEW L, NEW text \in Seq(L), {Echo, Guidance, Open, Close} \subseteq L
  PROVE  BlockOf(text) \in Seq(L) /\ IsBlock(BlockOf(text), text, Len(text))
<1>0. Len(text) \in Nat
  OBVIOUS
<1>1. PICK h : h = <<Echo, Guidance, Open>>
  OBVIOUS
<1>2. h \in Seq(L) /\ Len(h) = 3 /\ h[1] = Echo /\ h[2] = Guidance /\ h[3] = Open
  BY <1>1
<1>3. PICK e : e = <<Close>>
  OBVIOUS
<1>4. e \in Seq(L) /\ Len(e) = 1 /\ e[1] = Close
  BY <1>3
<1>5. PICK m : m = h \o text
  OBVIOUS
<1>6. /\ m \in Seq(L) /\ Len(m) = Len(h) + Len(text)
      /\ \A i \in 1..Len(h) : m[i] = h[i]
      /\ \A i \in 1..Len(text) : m[Len(h) + i] = text[i]
  <2>1. m \in Seq(L) /\ IsJoin(m, h, text)
    BY <1>2, <1>5, Joined
  <2> QED BY <2>1 DEF IsJoin
<1>7. PICK b : b = m \o e
  OBVIOUS
<1>8. /\ b \in Seq(L) /\ Len(b) = Len(m) + Len(e)
      /\ \A i \in 1..Len(m) : b[i] = m[i]
      /\ \A i \in 1..Len(e) : b[Len(m) + i] = e[i]
  <2>1. b \in Seq(L) /\ IsJoin(b, m, e)
    BY <1>4, <1>6, <1>7, Joined
  <2> QED BY <2>1 DEF IsJoin
<1>9. b = BlockOf(text)
  BY <1>1, <1>3, <1>5, <1>7 DEF BlockOf
<1>10. Len(m) = Len(text) + 3 /\ Len(b) = Len(text) + 4
  BY <1>0, <1>2, <1>4, <1>6, <1>8
<1>11. b[1] = Echo /\ b[2] = Guidance /\ b[3] = Open
  BY <1>0, <1>2, <1>6, <1>8, <1>10
<1>12. b[Len(text) + 4] = Close
  <2>1. Len(text) + 4 = Len(m) + 1 /\ 1 \in 1..Len(e)
    BY <1>0, <1>4, <1>10
  <2> QED BY <1>4, <1>8, <2>1
<1>13. ASSUME NEW i \in 1..Len(text) PROVE b[3 + i] = text[i]
  <2>1. 3 + i \in 1..Len(m)
    BY <1>0, <1>10
  <2>2. m[3 + i] = text[i]
    BY <1>2, <1>6
  <2> QED BY <1>8, <2>1, <2>2
<1> QED BY <1>8, <1>9, <1>10, <1>11, <1>12, <1>13 DEF IsBlock

\* A text a, what a block shows, and a text z.
Quotes(t, a, text, z) ==
  /\ Len(t) = Len(a) + Len(text) + 4 + Len(z)
  /\ \A i \in 1..Len(a) : t[i] = a[i]
  /\ t[Len(a) + 1] = Echo /\ t[Len(a) + 2] = Guidance /\ t[Len(a) + 3] = Open
  /\ \A i \in 1..Len(text) : t[Len(a) + 3 + i] = text[i]
  /\ t[Len(a) + Len(text) + 4] = Close
  /\ \A i \in 1..Len(z) : t[Len(a) + Len(text) + 4 + i] = z[i]

LEMMA Quoted ==
  ASSUME NEW L, NEW text \in Seq(L), {Echo, Guidance, Open, Close} \subseteq L,
         NEW a \in Seq(L), NEW z \in Seq(L), NEW t, t = a \o BlockOf(text) \o z
  PROVE  t \in Seq(L) /\ Quotes(t, a, text, z)
<1>0. Len(text) \in Nat /\ Len(a) \in Nat /\ Len(z) \in Nat
  OBVIOUS
<1>1. PICK b : b = BlockOf(text)
  OBVIOUS
<1>2. b \in Seq(L) /\ IsBlock(b, text, Len(text))
  BY <1>1, BlockShape
<1>3. PICK m : m = a \o b
  OBVIOUS
<1>4. /\ m \in Seq(L) /\ Len(m) = Len(a) + Len(b)
      /\ \A i \in 1..Len(a) : m[i] = a[i]
      /\ \A i \in 1..Len(b) : m[Len(a) + i] = b[i]
  <2>1. m \in Seq(L) /\ IsJoin(m, a, b)
    BY <1>2, <1>3, Joined
  <2> QED BY <2>1 DEF IsJoin
<1>5. /\ t \in Seq(L) /\ Len(t) = Len(m) + Len(z)
      /\ \A i \in 1..Len(m) : t[i] = m[i]
      /\ \A i \in 1..Len(z) : t[Len(m) + i] = z[i]
  <2>1. t = m \o z
    BY <1>1, <1>3
  <2>2. t \in Seq(L) /\ IsJoin(t, m, z)
    BY <1>4, <2>1, Joined
  <2> QED BY <2>2 DEF IsJoin
<1>6. Len(b) = Len(text) + 4 /\ Len(m) = Len(a) + Len(text) + 4
  BY <1>0, <1>2, <1>4 DEF IsBlock
<1>7. \A i \in 1..Len(a) : i \in 1..Len(m)
  BY <1>0, <1>6
<1>8. \A i \in 1..(Len(text) + 4) : t[Len(a) + i] = b[i]
  <2>1. \A i \in 1..(Len(text) + 4) : i \in 1..Len(b) /\ Len(a) + i \in 1..Len(m)
    BY <1>0, <1>6
  <2> QED BY <1>4, <1>5, <2>1
<1>9. t[Len(a) + 1] = Echo /\ t[Len(a) + 2] = Guidance /\ t[Len(a) + 3] = Open
  <2>1. 1 \in 1..(Len(text) + 4) /\ 2 \in 1..(Len(text) + 4) /\ 3 \in 1..(Len(text) + 4)
    BY <1>0
  <2>2. b[1] = Echo /\ b[2] = Guidance /\ b[3] = Open
    BY <1>2 DEF IsBlock
  <2> QED BY <1>8, <2>1, <2>2
<1>10. t[Len(a) + Len(text) + 4] = Close
  <2>1. Len(a) + Len(text) + 4 = Len(a) + (Len(text) + 4) /\ Len(text) + 4 \in 1..(Len(text) + 4)
    BY <1>0
  <2> QED BY <1>2, <1>8, <2>1 DEF IsBlock
<1>11. ASSUME NEW i \in 1..Len(text) PROVE t[Len(a) + 3 + i] = text[i]
  <2>1. Len(a) + 3 + i = Len(a) + (3 + i) /\ 3 + i \in 1..(Len(text) + 4)
    BY <1>0
  <2> QED BY <1>2, <1>8, <2>1 DEF IsBlock
<1>12. \A i \in 1..Len(a) : t[i] = a[i]
  BY <1>4, <1>5, <1>7
<1>13. \A i \in 1..Len(z) : t[Len(a) + Len(text) + 4 + i] = z[i]
  BY <1>5, <1>6
<1>14. Len(t) = Len(a) + Len(text) + 4 + Len(z)
  BY <1>5, <1>6
<1> QED BY <1>5, <1>9, <1>10, <1>11, <1>12, <1>13, <1>14 DEF Quotes

Quotable == SummaryLines \cup BlockLines \cup {"more", Fence, Echo, Guidance, Open, Close}

LEMMA TwoLines ==
  /\ <<"more">> \o <<"more">> = <<"more", "more">>
  /\ trim(<<"more", "more">>) = <<"more", "more">>
  /\ stripFirstEcho(<<"more", "more">>) = <<"more", "more">>
  /\ Len(<<"more", "more">>) = 2
<1> DEFINE r == <<"more", "more">>
<1>1. Len(r) = 2 /\ DOMAIN r = 1..2 /\ r[1] = "more" /\ r[2] = "more" /\ r \in Seq({"more"})
  OBVIOUS
<1>2. <<"more">> \o <<"more">> = r
  BY TwoOf
<1> HIDE DEF r
<1>a. \A i \in DOMAIN r : r[i] = "more"
  BY <1>1
<1>3. {i \in DOMAIN r : ~isBlank(r[i])} = 1..2
  BY <1>1, <1>a, FormsAre
<1>4. Min(1..2) = 1
  <2>1. 1..2 \in SUBSET Int /\ 1 \in 1..2 /\ \A j \in 1..2 : 1 <= j
    OBVIOUS
  <2> QED BY <2>1, MinIs
<1>5. Max(1..2) = 2
  <2>1. 1..2 \in SUBSET Int /\ 2 \in 1..2 /\ \A j \in 1..2 : j <= 2
    OBVIOUS
  <2> QED BY <2>1, MaxIs
<1>6. trimBlock(r) = r
  <2>1. SubSeq(r, 1, 2) = r /\ 1..2 # {}
    BY <1>1
  <2> QED BY <1>3, <1>4, <1>5, <2>1 DEF trimBlock
<1>7. stripFirstEcho(r) = r
  <2>1. \A j \in DOMAIN r : r[j] # Echo
    BY <1>a DEF Echo
  <2> QED BY <2>1, StripNothing
<1>8. trim(r) = r
  <2>1. \A i \in DOMAIN r : (IF i = Len(r) THEN stripped(r[i]) ELSE r[i]) = r[i]
    BY <1>a, FormsAre
  <2>2. r = [i \in DOMAIN r |-> r[i]]
    BY <1>1
  <2> QED BY <1>6, <2>1, <2>2 DEF trim
<1> QED BY <1>1, <1>2, <1>7, <1>8 DEF r

LEMMA TrimNothing == trim(<<>>) = <<>>
<1>1. trimBlock(<<>>) = <<>>
  BY DEF trimBlock
<1>2. PICK e : e = trimBlock(<<>>)
  OBVIOUS
<1>3. trim(<<>>) = [i \in DOMAIN e |-> IF i = Len(e) THEN stripped(e[i]) ELSE e[i]]
  BY <1>2 DEF trim
<1>4. DOMAIN e = {} /\ e = <<>>
  BY <1>1, <1>2
<1>5. PICK t : t = trim(<<>>)
  OBVIOUS
<1>6. t \in [1..0 -> {}]
  <2>1. t = [i \in 1..0 |-> IF i = Len(e) THEN stripped(e[i]) ELSE e[i]]
    <3>1. DOMAIN e = 1..0
      BY <1>4
    <3> QED BY <1>3, <1>5, <3>1
  <2>2. \A i \in 1..0 : (IF i = Len(e) THEN stripped(e[i]) ELSE e[i]) \in {}
    OBVIOUS
  <2> QED BY <2>1, <2>2
<1>7. t \in Seq({}) /\ Len(t) = 0
  BY <1>6
<1> QED BY <1>5, <1>7

LEMMA OverTwo == \A k \in Nat : k > 2 => k # 2
  OBVIOUS

LEMMA EchoesDoVanish ==
  ASSUME lines \in Seq(Quotable)
  PROVE  QuotesVanish
<1> SUFFICES ASSUME \A l \in ToSet(lines) : ~isFence(l)
             PROVE  /\ stripNestedMemoryEcho(<<"more", Fence>> \o BlockOf(lines) \o <<Fence, "more">>) = <<"more", "more">>
                    /\ stripNestedMemoryEcho(<<Fence>> \o BlockOf(lines) \o <<Fence>>) = <<>>
                    /\ Close \notin ToSet(lines) =>
                         stripNestedMemoryEcho(<<"more">> \o BlockOf(lines) \o <<"more">>) = <<"more", "more">>
  BY DEF QuotesVanish
<1> DEFINE n == Len(lines)
<1>0. n \in Nat /\ DOMAIN lines = 1..n
  OBVIOUS
<1>1. \A i \in 1..n : ~isFence(lines[i]) /\ (Close \notin ToSet(lines) => lines[i] # Close)
  BY <1>0 DEF ToSet
<1>2. {Echo, Guidance, Open, Close} \subseteq Quotable /\ "more" \in Quotable /\ Fence \in Quotable
  BY DEF Quotable
<1>3. /\ ~isFence(Echo) /\ ~isFence(Guidance) /\ ~isFence(Open) /\ ~isFence(Close) /\ ~isFence("more")
      /\ "more" # Echo /\ "more" # Close /\ Fence # Echo
  BY FormsAre DEF Fence, Echo, Close
<1> HIDE DEF n
<1>4. stripNestedMemoryEcho(<<"more", Fence>> \o BlockOf(lines) \o <<Fence, "more">>) = <<"more", "more">>
  <2>1. PICK a : a = <<"more", Fence>>
    OBVIOUS
  <2>2. PICK z : z = <<Fence, "more">>
    OBVIOUS
  <2>3. a \in Seq(Quotable) /\ Len(a) = 2 /\ a[1] = "more" /\ a[2] = Fence
    BY <1>2, <2>1
  <2>4. z \in Seq(Quotable) /\ Len(z) = 2 /\ z[1] = Fence /\ z[2] = "more"
    BY <1>2, <2>2
  <2>5. PICK t : t = a \o BlockOf(lines) \o z
    OBVIOUS
  <2>6. /\ t \in Seq(Quotable) /\ Len(t) = Len(a) + Len(lines) + 4 + Len(z)
        /\ \A i \in 1..Len(a) : t[i] = a[i]
        /\ t[Len(a) + 1] = Echo /\ t[Len(a) + 2] = Guidance /\ t[Len(a) + 3] = Open
        /\ \A i \in 1..Len(lines) : t[Len(a) + 3 + i] = lines[i]
        /\ t[Len(a) + Len(lines) + 4] = Close
        /\ \A i \in 1..Len(z) : t[Len(a) + Len(lines) + 4 + i] = z[i]
    <3>1. t \in Seq(Quotable) /\ Quotes(t, a, lines, z)
      BY <1>2, <2>3, <2>4, <2>5, Quoted
    <3> QED BY <3>1 DEF Quotes
  <2>7. /\ Len(t) = n + 8 /\ t[1] = "more" /\ t[2] = Fence /\ t[3] = Echo /\ t[4] = Guidance /\ t[5] = Open
        /\ \A i \in 1..n : t[5 + i] = lines[i]
        /\ t[n + 6] = Close /\ t[n + 7] = Fence /\ t[n + 8] = "more"
    <3>1. Len(t) = n + 8 /\ t[1] = "more" /\ t[2] = Fence /\ t[3] = Echo /\ t[4] = Guidance /\ t[5] = Open
      BY <1>0, <2>3, <2>4, <2>6 DEF n
    <3>2. \A i \in 1..n : t[5 + i] = lines[i]
      BY <1>0, <2>3, <2>6 DEF n
    <3>3. t[n + 6] = Close
      <4>1. n + 6 = Len(a) + Len(lines) + 4
        BY <1>0, <2>3 DEF n
      <4> QED BY <2>6, <4>1
    <3>4. t[n + 7] = Fence /\ t[n + 8] = "more"
      <4>1. n + 7 = Len(a) + Len(lines) + 4 + 1 /\ n + 8 = Len(a) + Len(lines) + 4 + 2
        BY <1>0, <2>3 DEF n
      <4>2. 1 \in 1..Len(z) /\ 2 \in 1..Len(z)
        BY <2>4
      <4> QED BY <2>4, <2>6, <4>1, <4>2
    <3> QED BY <3>1, <3>2, <3>3, <3>4
  <2>8. ASSUME NEW k \in 1..Len(t), isFence(t[k]) PROVE k = 2 \/ k = n + 7
    <3>1. k \in {1, 2, 3, 4, 5} \/ k - 5 \in 1..n \/ k \in {n + 6, n + 7, n + 8}
      BY <1>0, <2>7
    <3>2. k - 5 \in 1..n => t[k] = lines[k - 5]
      <4>1. 5 + (k - 5) = k
        BY <1>0, <2>7
      <4> QED BY <2>7, <4>1
    <3>3. k - 5 \notin 1..n
      BY <1>1, <2>8, <3>2
    <3>4. k # 1 /\ k # 3 /\ k # 4 /\ k # 5 /\ k # n + 6 /\ k # n + 8
      BY <1>3, <2>7, <2>8
    <3> QED BY <3>1, <3>3, <3>4
  <2>9. stripFirstEcho(t) = SubSeq(t, 1, 1) \o SubSeq(t, n + 8, Len(t))
    <3>1. Len(t) \in Nat /\ DOMAIN t = 1..Len(t)
      BY <2>6
    <3>2. n + 7 \in (2 + 3)..Len(t) /\ t[2 + 1] = Echo /\ t[2 + 2] = Guidance /\ t[2] = Fence /\ t[n + 7] = Fence
      BY <1>0, <2>7
    <3>3. t[1] # Echo
      BY <1>3, <2>7
    <3>4. 2 \in {1, 2}
      OBVIOUS
    <3>5. stripFirstEcho(t) = SubSeq(t, 1, 2 - 1) \o SubSeq(t, (n + 7) + 1, Len(t))
      BY <2>8, <3>1, <3>2, <3>3, <3>4, EchoFenced
    <3>6. 2 - 1 = 1 /\ (n + 7) + 1 = n + 8
      BY <1>0
    <3> QED BY <3>5, <3>6
  <2>10. SubSeq(t, 1, 1) = <<"more">> /\ SubSeq(t, n + 8, Len(t)) = <<"more">>
    <3>1. SubSeq(t, 1, 1) = <<t[1]>>
      <4>1. 1 \in 1..Len(t)
        BY <1>0, <2>7
      <4> QED BY <2>6, <4>1, OneOf
    <3>2. SubSeq(t, n + 8, n + 8) = <<t[n + 8]>>
      <4>1. n + 8 \in 1..Len(t)
        BY <1>0, <2>7
      <4> QED BY <2>6, <4>1, OneOf
    <3> QED BY <2>7, <3>1, <3>2
  <2>11. stripFirstEcho(t) = <<"more", "more">>
    BY <2>9, <2>10, TwoLines
  <2>12. Len(t) \in Nat /\ Len(t) >= 2 /\ <<"more", "more">> # t
    <3>1. Len(t) \in Nat /\ Len(t) > 2
      BY <1>0, <2>7
    <3>2. Len(<<"more", "more">>) = 2
      BY TwoLines
    <3>3. <<"more", "more">> # t
      <4>1. PICK r : r = <<"more", "more">>
        OBVIOUS
      <4>2. Len(r) = 2
        BY <3>2, <4>1
      <4>3. Len(t) # 2
        BY <3>1, OverTwo
      <4>4. ASSUME r = t PROVE FALSE
        <5>1. Len(t) = 2
          BY <4>2, <4>4
        <5> QED BY <4>3, <5>1
      <4> QED BY <4>1, <4>4
    <3> QED BY <3>1, <3>3
  <2>13. stripNestedMemoryEcho(t) = trim(<<"more", "more">>)
    BY <2>11, <2>12, TwoLines, StripOnce
  <2> QED BY <2>1, <2>2, <2>5, <2>13, TwoLines
<1>5. stripNestedMemoryEcho(<<Fence>> \o BlockOf(lines) \o <<Fence>>) = <<>>
  <2>1. PICK a : a = <<Fence>>
    OBVIOUS
  <2>2. a \in Seq(Quotable) /\ Len(a) = 1 /\ a[1] = Fence
    BY <1>2, <2>1
  <2>5. PICK t : t = a \o BlockOf(lines) \o a
    OBVIOUS
  <2>6. /\ t \in Seq(Quotable) /\ Len(t) = Len(a) + Len(lines) + 4 + Len(a)
        /\ \A i \in 1..Len(a) : t[i] = a[i]
        /\ t[Len(a) + 1] = Echo /\ t[Len(a) + 2] = Guidance /\ t[Len(a) + 3] = Open
        /\ \A i \in 1..Len(lines) : t[Len(a) + 3 + i] = lines[i]
        /\ t[Len(a) + Len(lines) + 4] = Close
        /\ \A i \in 1..Len(a) : t[Len(a) + Len(lines) + 4 + i] = a[i]
    <3>1. t \in Seq(Quotable) /\ Quotes(t, a, lines, a)
      BY <1>2, <2>2, <2>5, Quoted
    <3> QED BY <3>1 DEF Quotes
  <2>7. /\ Len(t) = n + 6 /\ t[1] = Fence /\ t[2] = Echo /\ t[3] = Guidance /\ t[4] = Open
        /\ \A i \in 1..n : t[4 + i] = lines[i]
        /\ t[n + 5] = Close /\ t[n + 6] = Fence
    <3>1. Len(t) = n + 6 /\ t[1] = Fence /\ t[2] = Echo /\ t[3] = Guidance /\ t[4] = Open
      BY <1>0, <2>2, <2>6 DEF n
    <3>2. \A i \in 1..n : t[4 + i] = lines[i]
      BY <1>0, <2>2, <2>6 DEF n
    <3>3. t[n + 5] = Close
      <4>1. n + 5 = Len(a) + Len(lines) + 4
        BY <1>0, <2>2 DEF n
      <4> QED BY <2>6, <4>1
    <3>4. t[n + 6] = Fence
      <4>1. n + 6 = Len(a) + Len(lines) + 4 + 1 /\ 1 \in 1..Len(a)
        BY <1>0, <2>2 DEF n
      <4> QED BY <2>2, <2>6, <4>1
    <3> QED BY <3>1, <3>2, <3>3, <3>4
  <2>8. ASSUME NEW k \in 1..Len(t), isFence(t[k]) PROVE k = 1 \/ k = n + 6
    <3>1. k \in {1, 2, 3, 4} \/ k - 4 \in 1..n \/ k \in {n + 5, n + 6}
      BY <1>0, <2>7
    <3>2. k - 4 \in 1..n => t[k] = lines[k - 4]
      <4>1. 4 + (k - 4) = k
        BY <1>0, <2>7
      <4> QED BY <2>7, <4>1
    <3>3. k - 4 \notin 1..n
      BY <1>1, <2>8, <3>2
    <3>4. k # 2 /\ k # 3 /\ k # 4 /\ k # n + 5
      BY <1>3, <2>7, <2>8
    <3> QED BY <3>1, <3>3, <3>4
  <2>9. stripFirstEcho(t) = SubSeq(t, 1, 0) \o SubSeq(t, n + 7, Len(t))
    <3>1. Len(t) \in Nat /\ DOMAIN t = 1..Len(t)
      BY <2>6
    <3>2. n + 6 \in (1 + 3)..Len(t) /\ t[1 + 1] = Echo /\ t[1 + 2] = Guidance /\ t[1] = Fence /\ t[n + 6] = Fence
      BY <1>0, <2>7
    <3>4. 1 \in {1, 2} /\ 1 # 2
      OBVIOUS
    <3>5. stripFirstEcho(t) = SubSeq(t, 1, 1 - 1) \o SubSeq(t, (n + 6) + 1, Len(t))
      BY <2>8, <3>1, <3>2, <3>4, EchoFenced
    <3>6. 1 - 1 = 0 /\ (n + 6) + 1 = n + 7
      BY <1>0
    <3> QED BY <3>5, <3>6
  <2>10. SubSeq(t, 1, 0) = <<>> /\ SubSeq(t, n + 7, Len(t)) = <<>>
    BY <1>0, <2>6, <2>7
  <2>11. stripFirstEcho(t) = <<>>
    BY <2>9, <2>10
  <2>12. Len(t) \in Nat /\ Len(t) >= 2 /\ <<>> # t
    BY <1>0, <2>6, <2>7
  <2>13. stripFirstEcho(<<>>) = <<>>
    <3>1. \A j \in DOMAIN <<>> : <<>>[j] # Echo
      OBVIOUS
    <3> QED BY <3>1, StripNothing
  <2>14. stripNestedMemoryEcho(t) = trim(<<>>)
    BY <2>11, <2>12, <2>13, StripOnce
  <2>15. trim(<<>>) = <<>>
    BY TrimNothing
  <2> QED BY <2>1, <2>5, <2>14, <2>15
<1>6. ASSUME Close \notin ToSet(lines)
      PROVE  stripNestedMemoryEcho(<<"more">> \o BlockOf(lines) \o <<"more">>) = <<"more", "more">>
  <2>1. PICK a : a = <<"more">>
    OBVIOUS
  <2>2. a \in Seq(Quotable) /\ Len(a) = 1 /\ a[1] = "more"
    BY <1>2, <2>1
  <2>5. PICK t : t = a \o BlockOf(lines) \o a
    OBVIOUS
  <2>6. /\ t \in Seq(Quotable) /\ Len(t) = Len(a) + Len(lines) + 4 + Len(a)
        /\ \A i \in 1..Len(a) : t[i] = a[i]
        /\ t[Len(a) + 1] = Echo /\ t[Len(a) + 2] = Guidance /\ t[Len(a) + 3] = Open
        /\ \A i \in 1..Len(lines) : t[Len(a) + 3 + i] = lines[i]
        /\ t[Len(a) + Len(lines) + 4] = Close
        /\ \A i \in 1..Len(a) : t[Len(a) + Len(lines) + 4 + i] = a[i]
    <3>1. t \in Seq(Quotable) /\ Quotes(t, a, lines, a)
      BY <1>2, <2>2, <2>5, Quoted
    <3> QED BY <3>1 DEF Quotes
  <2>7. /\ Len(t) = n + 6 /\ t[1] = "more" /\ t[2] = Echo /\ t[3] = Guidance /\ t[4] = Open
        /\ \A i \in 1..n : t[4 + i] = lines[i]
        /\ t[n + 5] = Close /\ t[n + 6] = "more"
    <3>1. Len(t) = n + 6 /\ t[1] = "more" /\ t[2] = Echo /\ t[3] = Guidance /\ t[4] = Open
      BY <1>0, <2>2, <2>6 DEF n
    <3>2. \A i \in 1..n : t[4 + i] = lines[i]
      BY <1>0, <2>2, <2>6 DEF n
    <3>3. t[n + 5] = Close
      <4>1. n + 5 = Len(a) + Len(lines) + 4
        BY <1>0, <2>2 DEF n
      <4> QED BY <2>6, <4>1
    <3>4. t[n + 6] = "more"
      <4>1. n + 6 = Len(a) + Len(lines) + 4 + 1 /\ 1 \in 1..Len(a)
        BY <1>0, <2>2 DEF n
      <4> QED BY <2>2, <2>6, <4>1
    <3> QED BY <3>1, <3>2, <3>3, <3>4
  <2>8. ASSUME NEW k \in 1..Len(t) PROVE ~isFence(t[k]) /\ (k >= 5 /\ t[k] = Close => k = n + 5)
    <3>1. k \in {1, 2, 3, 4} \/ k - 4 \in 1..n \/ k \in {n + 5, n + 6}
      BY <1>0, <2>7
    <3>2. CASE k - 4 \in 1..n
      <4>1. 4 + (k - 4) = k
        BY <1>0, <2>7
      <4>2. t[k] = lines[k - 4]
        BY <2>7, <3>2, <4>1
      <4> QED BY <1>1, <1>6, <3>2, <4>2
    <3>3. CASE k \in {1, 2, 3, 4}
      <4>1. ~(k >= 5)
        BY <3>3
      <4> QED BY <1>3, <2>7, <3>3, <4>1
    <3>4. CASE k \in {n + 5, n + 6}
      BY <1>3, <2>7, <3>4
    <3> QED BY <3>1, <3>2, <3>3, <3>4
  <2>9. stripFirstEcho(t) = SubSeq(t, 1, 1) \o SubSeq(t, n + 6, Len(t))
    <3>1. Len(t) \in Nat /\ DOMAIN t = 1..Len(t)
      BY <2>6
    <3>2. n + 5 \in (1 + 4)..Len(t) /\ t[1] # Echo /\ t[1 + 1] = Echo /\ t[1 + 2] = Guidance /\ t[1 + 3] = Open
          /\ t[n + 5] = Close
      BY <1>0, <1>3, <2>7
    <3>3. \A k \in (1 + 4)..Len(t) : t[k] = Close => k = n + 5
      <4>1. \A k \in (1 + 4)..Len(t) : k \in 1..Len(t) /\ k >= 5
        BY <3>1
      <4> QED BY <2>8, <4>1
    <3>4. 1 \in {0, 1} /\ \A k \in 1..Len(t) : ~isFence(t[k])
      BY <2>8
    <3>5. stripFirstEcho(t) = SubSeq(t, 1, 1) \o SubSeq(t, (n + 5) + 1, Len(t))
      BY <3>1, <3>2, <3>3, <3>4, EchoBare
    <3>6. (n + 5) + 1 = n + 6
      BY <1>0
    <3> QED BY <3>5, <3>6
  <2>10. SubSeq(t, 1, 1) = <<"more">> /\ SubSeq(t, n + 6, Len(t)) = <<"more">>
    <3>1. SubSeq(t, 1, 1) = <<t[1]>>
      <4>1. 1 \in 1..Len(t)
        BY <1>0, <2>7
      <4> QED BY <2>6, <4>1, OneOf
    <3>2. SubSeq(t, n + 6, n + 6) = <<t[n + 6]>>
      <4>1. n + 6 \in 1..Len(t)
        BY <1>0, <2>7
      <4> QED BY <2>6, <4>1, OneOf
    <3> QED BY <2>7, <3>1, <3>2
  <2>11. stripFirstEcho(t) = <<"more", "more">>
    BY <2>9, <2>10, TwoLines
  <2>12. Len(t) \in Nat /\ Len(t) >= 2 /\ <<"more", "more">> # t
    <3>1. Len(t) \in Nat /\ Len(t) > 2
      BY <1>0, <2>7
    <3>2. Len(<<"more", "more">>) = 2
      BY TwoLines
    <3>3. <<"more", "more">> # t
      <4>1. PICK r : r = <<"more", "more">>
        OBVIOUS
      <4>2. Len(r) = 2
        BY <3>2, <4>1
      <4>3. Len(t) # 2
        BY <3>1, OverTwo
      <4>4. ASSUME r = t PROVE FALSE
        <5>1. Len(t) = 2
          BY <4>2, <4>4
        <5> QED BY <4>3, <5>1
      <4> QED BY <4>1, <4>4
    <3> QED BY <3>1, <3>3
  <2>13. stripNestedMemoryEcho(t) = trim(<<"more", "more">>)
    BY <2>11, <2>12, TwoLines, StripOnce
  <2> QED BY <2>1, <2>5, <2>13, TwoLines
<1> QED BY <1>4, <1>5, <1>6

-----------------------------------------------------------------------------
(* Flattening.                                                             *)

\* The prefixes of s, flattened.
Flats(g, s) ==
  /\ g[0] = <<>>
  /\ \A k \in 1..Len(s) : g[k] = g[k - 1] \o s[k]

LEMMA FlatsExist ==
  ASSUME NEW L, NEW s \in Seq(Seq(L))
  PROVE  \E f \in [0..Len(s) -> Seq(L)] : Flats(f, s)
<1>0. Len(s) \in Nat /\ \A i \in 1..Len(s) : s[i] \in Seq(L)
  OBVIOUS
<1> DEFINE Upto(f, k) == /\ f \in [0..k -> Seq(L)] /\ f[0] = <<>>
                         /\ \A i \in 1..k : f[i] = f[i - 1] \o s[i]
           P == {k \in 0..Len(s) : \E f : Upto(f, k)}
<1>1. 0 \in P
  <2>1. PICK f : f = [i \in 0..0 |-> <<>>]
    OBVIOUS
  <2>2. f \in [0..0 -> Seq(L)] /\ f[0] = <<>>
    BY <2>1
  <2>3. Upto(f, 0)
    BY <2>2
  <2>4. 0 \in 0..Len(s)
    BY <1>0
  <2> HIDE DEF Upto
  <2> QED BY <2>3, <2>4
<1>2. ASSUME NEW k \in 1..Len(s), k - 1 \in P PROVE k \in P
  <2>1. PICK f : Upto(f, k - 1)
    BY <1>2
  <2>2. k \in Nat /\ k - 1 \in Nat /\ k \in 0..Len(s) /\ k - 1 \in 0..(k - 1)
    BY <1>0
  <2> DEFINE g == [i \in 0..k |-> IF i = k THEN f[k - 1] \o s[k] ELSE f[i]]
  <2>3. f[k - 1] \o s[k] \in Seq(L)
    <3>1. f[k - 1] \in Seq(L) /\ s[k] \in Seq(L)
      BY <1>0, <2>1, <2>2
    <3> QED BY <3>1
  <2>4. \A i \in 0..k : i = k \/ i \in 0..(k - 1)
    BY <2>2
  <2>5. g \in [0..k -> Seq(L)]
    <3>1. \A i \in 0..(k - 1) : f[i] \in Seq(L)
      BY <2>1
    <3> QED BY <2>3, <2>4, <3>1
  <2>6. g[0] = <<>> /\ g[k] = f[k - 1] \o s[k] /\ \A i \in 0..(k - 1) : g[i] = f[i]
    <3>1. k \in 0..k /\ 0 \in 0..k /\ 0 # k /\ \A i \in 0..(k - 1) : i \in 0..k /\ i # k
      BY <2>2
    <3>2. g[k] = f[k - 1] \o s[k] /\ \A i \in 0..k : i # k => g[i] = f[i]
      BY <3>1
    <3> QED BY <2>1, <3>1, <3>2
  <2> HIDE DEF g
  <2>7. ASSUME NEW i \in 1..k PROVE g[i] = g[i - 1] \o s[i]
    <3>1. i - 1 \in 0..(k - 1) /\ (i = k \/ i \in 1..(k - 1))
      BY <2>2
    <3>2. CASE i = k
      BY <2>6, <3>1, <3>2
    <3>3. CASE i \in 1..(k - 1)
      <4>1. f[i] = f[i - 1] \o s[i] /\ i \in 0..(k - 1)
        <5>1. i \in 0..(k - 1)
          BY <2>2, <3>3
        <5> QED BY <2>1, <3>3, <5>1
      <4> QED BY <2>6, <3>1, <4>1
    <3> QED BY <3>1, <3>2, <3>3
  <2>8. Upto(g, k)
    BY <2>5, <2>6, <2>7
  <2> HIDE DEF Upto
  <2> QED BY <2>2, <2>8
<1> HIDE DEF P
<1>3. 0..Len(s) \subseteq P
  BY <1>0, <1>1, <1>2, UpToAll
<1>4. Len(s) \in P
  BY <1>0, <1>3
<1> QED BY <1>4 DEF P, Flats

\* Flattening is the last of the prefixes flattened.
LEMMA FlatIsLast ==
  ASSUME NEW L, NEW s \in Seq(Seq(L)), NEW f, Flats(f, s)
  PROVE  FlattenSeq(s) = f[Len(s)]
<1> DEFINE n == Len(s)
           D(u) == [i \in 1..n |-> IF i = 1 THEN s[i] ELSE u[i - 1] \o s[i]]
<1>0. n \in Nat /\ \A i \in 1..n : s[i] \in Seq(L)
  OBVIOUS
<1>1. CASE n = 0
  <2>1. FlattenSeq(s) = s /\ s = <<>>
    BY <1>1 DEF FlattenSeq
  <2> QED BY <1>1, <2>1 DEF Flats
<1>2. CASE n # 0
  <2>1. FlattenSeq(s) = (CHOOSE u : u = D(u))[n]
    BY <1>2 DEF FlattenSeq
  <2> HIDE DEF n
  <2> DEFINE g == [i \in 1..n |-> f[i]]
  <2>2. g = D(g)
    <3>1. ASSUME NEW i \in 1..n PROVE f[i] = IF i = 1 THEN s[i] ELSE g[i - 1] \o s[i]
      <4>1. f[i] = f[i - 1] \o s[i] /\ f[0] = <<>>
        BY DEF Flats, n
      <4>2. CASE i = 1
        <5>1. s[i] \in Seq(L) /\ i - 1 = 0
          BY <1>0, <4>2
        <5>2. <<>> \o s[i] = s[i]
          BY <5>1
        <5> QED BY <4>1, <4>2, <5>1, <5>2
      <4>3. CASE i # 1
        <5>1. i - 1 \in 1..n
          BY <1>0, <4>3
        <5>2. g[i - 1] = f[i - 1]
          BY <5>1
        <5> QED BY <4>1, <4>3, <5>2
      <4> QED BY <4>2, <4>3
    <3> QED BY <3>1
  <2>3. PICK u : u = CHOOSE v : v = D(v)
    BY Zenon
  <2> HIDE DEF g
  <2>4. u = D(u)
    BY <2>2, <2>3, Zenon
  <2>5. \A i \in 1..n : u[i] = IF i = 1 THEN s[i] ELSE u[i - 1] \o s[i]
    BY <2>4
  <2> DEFINE P == {k \in 0..n : k = 0 \/ u[k] = f[k]}
  <2>6. 0 \in P
    BY <1>0
  <2>7. ASSUME NEW k \in 1..n, k - 1 \in P PROVE k \in P
    <3>a. k \in 0..n
      BY <1>0
    <3>b. k \in 1..Len(s)
      BY DEF n
    <3>1. k \in 0..n /\ f[k] = f[k - 1] \o s[k] /\ f[0] = <<>>
      BY <3>a, <3>b DEF Flats
    <3>2. CASE k = 1
      <4>1. s[k] \in Seq(L) /\ k - 1 = 0
        BY <1>0, <3>2
      <4>2. <<>> \o s[k] = s[k]
        BY <4>1
      <4>3. u[k] = s[k]
        BY <2>5, <3>2
      <4> QED BY <3>1, <4>1, <4>2, <4>3
    <3>3. CASE k # 1
      <4>1. k - 1 # 0
        BY <1>0, <3>3
      <4>2. u[k - 1] = f[k - 1]
        BY <2>7, <4>1
      <4>3. u[k] = u[k - 1] \o s[k]
        BY <2>5, <3>3
      <4> QED BY <3>1, <4>2, <4>3
    <3> QED BY <3>2, <3>3
  <2> HIDE DEF P
  <2>8. 0..n \subseteq P
    BY <1>0, <2>6, <2>7, UpToAll
  <2>9. n \in P
    BY <1>0, <2>8
  <2>10. u[n] = f[n]
    BY <1>2, <2>9 DEF P
  <2> QED BY <2>1, <2>3, <2>10 DEF n
<1> QED BY <1>1, <1>2

LEMMA FlatType ==
  ASSUME NEW L, NEW s \in Seq(Seq(L))
  PROVE  FlattenSeq(s) \in Seq(L)
<1>1. PICK f \in [0..Len(s) -> Seq(L)] : Flats(f, s)
  BY FlatsExist
<1>2. Len(s) \in 0..Len(s)
  OBVIOUS
<1>3. f[Len(s)] \in Seq(L)
  BY <1>2
<1>4. FlattenSeq(s) = f[Len(s)]
  BY <1>1, FlatIsLast
<1> QED BY <1>3, <1>4

LEMMA FlatNone == FlattenSeq(<<>>) = <<>>
  BY DEF FlattenSeq

LEMMA FlatOne ==
  ASSUME NEW L, NEW x \in Seq(L)
  PROVE  FlattenSeq(<<x>>) = x
<1>1. PICK s : s = <<x>>
  OBVIOUS
<1>2. s \in Seq(Seq(L)) /\ Len(s) = 1 /\ s[1] = x
  BY <1>1
<1>3. PICK f \in [0..Len(s) -> Seq(L)] : Flats(f, s)
  BY <1>2, FlatsExist
<1>4. f[0] = <<>> /\ f[1] = f[1 - 1] \o s[1] /\ 1 - 1 = 0
  BY <1>2, <1>3 DEF Flats
<1>5. <<>> \o x = x
  OBVIOUS
<1>6. FlattenSeq(s) = f[Len(s)]
  BY <1>2, <1>3, FlatIsLast
<1> QED BY <1>1, <1>2, <1>4, <1>5, <1>6

\* Three in a row, as one.
Regroups(x, y, z) == (x \o y) \o z = x \o (y \o z)

LEMMA Associated ==
  ASSUME NEW L, NEW x, NEW y, NEW z, x \in Seq(L), y \in Seq(L), z \in Seq(L)
  PROVE  Regroups(x, y, z)
BY ConcatAssociative DEF Regroups

\* Flattening a concatenation is concatenating what each part flattens to.
LEMMA FlatConcat ==
  ASSUME NEW L, NEW a \in Seq(Seq(L)), NEW b \in Seq(Seq(L))
  PROVE  FlattenSeq(a \o b) = FlattenSeq(a) \o FlattenSeq(b)
<1>1. PICK t : t = a \o b
  OBVIOUS
<1>2. t \in Seq(Seq(L)) /\ IsJoin(t, a, b)
  BY <1>1, Joined
<1>3. Len(a) \in Nat /\ Len(b) \in Nat /\ Len(t) = Len(a) + Len(b)
      /\ (\A i \in 1..Len(a) : t[i] = a[i]) /\ (\A i \in 1..Len(b) : t[Len(a) + i] = b[i])
  BY <1>2 DEF IsJoin
<1>4. PICK f \in [0..Len(t) -> Seq(L)] : Flats(f, t)
  BY <1>2, FlatsExist
<1>5. PICK g \in [0..Len(b) -> Seq(L)] : Flats(g, b)
  BY FlatsExist
<1>6. FlattenSeq(t) = f[Len(t)] /\ FlattenSeq(b) = g[Len(b)]
  BY <1>2, <1>4, <1>5, FlatIsLast
<1>7. Flats(f, a)
  <2>1. \A k \in 1..Len(a) : k \in 1..Len(t)
    BY <1>3
  <2> QED BY <1>3, <1>4, <2>1 DEF Flats
<1>8. FlattenSeq(a) = f[Len(a)]
  BY <1>7, FlatIsLast
<1> DEFINE P == {k \in 0..Len(b) : f[Len(a) + k] = f[Len(a)] \o g[k]}
<1>9. 0 \in P
  <2>3. Len(a) \in 0..Len(t) /\ Len(a) + 0 = Len(a) /\ 0 \in 0..Len(b)
    BY <1>3
  <2>1. f[Len(a)] \in Seq(L) /\ g[0] = <<>> /\ Len(a) + 0 = Len(a) /\ 0 \in 0..Len(b)
    BY <1>4, <1>5, <2>3 DEF Flats
  <2>2. f[Len(a)] \o <<>> = f[Len(a)]
    BY <2>1
  <2> QED BY <2>1, <2>2
<1>10. ASSUME NEW k \in 1..Len(b), k - 1 \in P PROVE k \in P
  <2>1. Len(a) + k \in 1..Len(t) /\ (Len(a) + k) - 1 = Len(a) + (k - 1) /\ k \in 0..Len(b)
        /\ k - 1 \in 0..Len(b) /\ Len(a) \in 0..Len(t)
    BY <1>3
  <2>2. f[Len(a) + k] = f[Len(a) + (k - 1)] \o b[k]
    BY <1>3, <1>4, <2>1 DEF Flats
  <2>3. f[Len(a) + (k - 1)] = f[Len(a)] \o g[k - 1] /\ g[k] = g[k - 1] \o b[k]
    BY <1>5, <1>10 DEF Flats
  <2>4. PICK x \in Seq(L) : x = f[Len(a)]
    BY <1>4, <2>1
  <2>6. PICK y \in Seq(L) : y = g[k - 1]
    BY <1>5, <2>1
  <2>7. PICK z \in Seq(L) : z = b[k]
    OBVIOUS
  <2>8. (x \o y) \o z = x \o (y \o z)
    <3>1. Regroups(x, y, z)
      BY <2>4, <2>6, <2>7, Associated
    <3> QED BY <3>1 DEF Regroups
  <2>5. (f[Len(a)] \o g[k - 1]) \o b[k] = f[Len(a)] \o (g[k - 1] \o b[k])
    BY <2>4, <2>6, <2>7, <2>8
  <2> QED BY <2>1, <2>2, <2>3, <2>5
<1> HIDE DEF P
<1>11. 0..Len(b) \subseteq P
  BY <1>3, <1>9, <1>10, UpToAll
<1>12. Len(b) \in P
  <2>1. Len(b) \in 0..Len(b)
    BY <1>3
  <2> QED BY <1>11, <2>1
<1> QED BY <1>1, <1>3, <1>6, <1>8, <1>12 DEF P

\* A function that turns one concatenation into another can be applied before
\* flattening or after.
IsHom(h, L, M) ==
  /\ h \in [Seq(L) -> Seq(M)] /\ h[<<>>] = <<>>
  /\ \A a \in Seq(L), b \in Seq(L) : h[a \o b] = h[a] \o h[b]

IsImage(w, h, s) == Len(w) = Len(s) /\ \A i \in 1..Len(s) : w[i] = h[s[i]]

\* What turns concatenations into concatenations can be applied to every part, or to the whole.
LEMMA FlatMap ==
  ASSUME NEW L, NEW M, NEW h, IsHom(h, L, M),
         NEW s \in Seq(Seq(L)), NEW w \in Seq(Seq(M)), IsImage(w, h, s)
  PROVE  FlattenSeq(w) = h[FlattenSeq(s)]
<1>h. /\ h \in [Seq(L) -> Seq(M)] /\ h[<<>>] = <<>>
      /\ \A a \in Seq(L), b \in Seq(L) : h[a \o b] = h[a] \o h[b]
  BY DEF IsHom
<1>w. Len(w) = Len(s) /\ \A i \in 1..Len(s) : w[i] = h[s[i]]
  BY DEF IsImage
<1>0. Len(s) \in Nat /\ DOMAIN s = 1..Len(s) /\ \A i \in 1..Len(s) : s[i] \in Seq(L)
  OBVIOUS
<1>1. PICK f \in [0..Len(s) -> Seq(L)] : Flats(f, s)
  BY FlatsExist
<1>2. PICK g \in [0..Len(w) -> Seq(M)] : Flats(g, w)
  BY FlatsExist
<1>3. FlattenSeq(s) = f[Len(s)] /\ FlattenSeq(w) = g[Len(w)]
  BY <1>1, <1>2, FlatIsLast
<1> DEFINE P == {k \in 0..Len(s) : g[k] = h[f[k]]}
<1>4. 0 \in P
  <2>1. f[0] = <<>> /\ g[0] = <<>>
    BY <1>1, <1>2 DEF Flats
  <2>2. 0 \in 0..Len(s)
    BY <1>0
  <2> QED BY <1>h, <2>1, <2>2
<1>5. ASSUME NEW k \in 1..Len(s), k - 1 \in P PROVE k \in P
  <2>1. k \in 0..Len(s) /\ k - 1 \in 0..Len(s)
    BY <1>0
  <2>2. f[k] = f[k - 1] \o s[k] /\ g[k] = g[k - 1] \o w[k]
    BY <1>w, <1>1, <1>2 DEF Flats
  <2>3. f[k - 1] \in Seq(L) /\ s[k] \in Seq(L) /\ w[k] = h[s[k]] /\ g[k - 1] = h[f[k - 1]]
    BY <1>w, <1>0, <1>1, <1>5, <2>1
  <2>4. h[f[k - 1] \o s[k]] = h[f[k - 1]] \o h[s[k]]
    BY <1>h, <2>3
  <2> QED BY <2>1, <2>2, <2>3, <2>4
<1> HIDE DEF P
<1>6. 0..Len(s) \subseteq P
  BY <1>0, <1>4, <1>5, UpToAll
<1>7. Len(s) \in P
  <2>1. Len(s) \in 0..Len(s)
    BY <1>0
  <2> QED BY <1>6, <2>1
<1> QED BY <1>w, <1>3, <1>7 DEF P

-----------------------------------------------------------------------------
(* Blocks of a text.                                                       *)

\* One element more: in a block of its own, or in the last.
Grown(blocks, x, begins) ==
  IF blocks = <<>> \/ begins THEN Append(blocks, <<x>>)
  ELSE [blocks EXCEPT ![Len(blocks)] = Append(@, x)]

LEMMA GrownType ==
  ASSUME NEW L, NEW blocks \in Seq(Seq(L)), NEW x \in L, NEW begins
  PROVE  Grown(blocks, x, begins) \in Seq(Seq(L))
<1>1. <<x>> \in Seq(L)
  OBVIOUS
<1>2. Append(blocks, <<x>>) \in Seq(Seq(L))
  BY <1>1
<1>3. ASSUME blocks # <<>> PROVE [blocks EXCEPT ![Len(blocks)] = Append(@, x)] \in Seq(Seq(L))
  <2>1. PICK n \in Nat : n = Len(blocks)
    OBVIOUS
  <2>2. n \in 1..n /\ DOMAIN blocks = 1..n /\ \A i \in 1..n : blocks[i] \in Seq(L)
    BY <1>3, <2>1
  <2>3. PICK t : t = [blocks EXCEPT ![n] = Append(@, x)]
    OBVIOUS
  <2>4. Append(blocks[n], x) \in Seq(L)
    BY <2>2
  <2>5. t \in [1..n -> Seq(L)]
    BY <2>2, <2>3, <2>4
  <2>6. t \in Seq(Seq(L))
    BY <2>5
  <2> QED BY <2>1, <2>3, <2>6
<1> QED BY <1>2, <1>3 DEF Grown

\* The blocks g of the prefixes of s.
Groups(g, s, S) ==
  /\ g[0] = <<>>
  /\ \A k \in 1..Len(s) : g[k] = Grown(g[k - 1], s[k], k \in S)

\* Blocks is the last of a sequence of groupings, each grown by one element.
LEMMA BlocksExist ==
  ASSUME NEW L, NEW s \in Seq(L), NEW S
  PROVE  \E g : Groups(g, s, S) /\ Blocks(s, S) = g[Len(s)]
<1> DEFINE n == Len(s)
           id == [i \in DOMAIN s |-> i]
           D(u) == [t \in SUBSET DOMAIN id |->
                      IF t = {} THEN <<>>
                      ELSE Grown(u[t \ {Max(t)}], s[id[Max(t)]], id[Max(t)] \in S)]
<1>0. n \in Nat /\ DOMAIN s = 1..n /\ DOMAIN id = 1..n /\ \A i \in 1..n : id[i] = i /\ s[i] \in L
  OBVIOUS
<1>1. Blocks(s, S) = (CHOOSE u : u = D(u))[DOMAIN id]
  BY DEF Blocks, Grown, FoldLeftDomain, FoldLeft, MapThenFoldSet
<1> HIDE DEF id
<1> DEFINE F == [z \in Seq(Seq(L)) \X (1..n) |-> Grown(z[1], s[z[2]], z[2] \in S)]
<1>2. F \in [Seq(Seq(L)) \X (1..n) -> Seq(Seq(L))]
  <2>1. ASSUME NEW z \in Seq(Seq(L)) \X (1..n)
        PROVE  (Grown(z[1], s[z[2]], z[2] \in S)) \in Seq(Seq(L))
    <3>1. z[1] \in Seq(Seq(L)) /\ s[z[2]] \in L
      BY <1>0
    <3> QED BY <3>1, GrownType
  <2> QED BY <2>1
<1>3. \A o \in Seq(Seq(L)), i \in 1..n : F[<<o, i>>] = Grown(o, s[i], i \in S)
  OBVIOUS
<1> HIDE DEF F
<1>4. PICK f \in [SUBSET (1..n) -> Seq(Seq(L))] :
        \A t \in SUBSET (1..n) : f[t] = IF t = {} THEN <<>> ELSE F[<<f[t \ {Max(t)}], Max(t)>>]
  <2>1. <<>> \in Seq(Seq(L)) /\ n \in Nat
    BY <1>0
  <2> HIDE DEF n
  <2>2. \E f \in [SUBSET (1..n) -> Seq(Seq(L))] :
          \A t \in SUBSET (1..n) : f[t] = IF t = {} THEN <<>> ELSE F[<<f[t \ {Max(t)}], Max(t)>>]
    <3> DEFINE T == Seq(Seq(L))
               b == <<>>
    <3>1. b \in T /\ F \in [T \X (1..n) -> T]
      BY <1>2, <2>1
    <3> HIDE DEF T, b
    <3>2. n \in Nat /\ b \in T /\ F \in [T \X (1..n) -> T]
      BY <2>1, <3>1
    <3>3. \E f : IsFold(f, n, T, b, F)
      BY <3>2, FoldExists
    <3> QED BY <3>3 DEF T, b, IsFold
  <2> QED BY <2>2
<1>5. ASSUME NEW t \in SUBSET (1..n), t # {} PROVE Max(t) \in 1..n /\ id[Max(t)] = Max(t) /\ t \ {Max(t)} \in SUBSET (1..n)
  <2>1. t \in SUBSET (0..n)
    BY <1>0
  <2>2. Max(t) \in t
    BY <1>0, <1>5, <2>1, GreatestIs
  <2> QED BY <1>0, <2>2
<1> HIDE DEF n
<1>6. f = D(f)
  <2>1. ASSUME NEW t \in SUBSET (1..n)
        PROVE  f[t] = IF t = {} THEN <<>>
                      ELSE Grown(f[t \ {Max(t)}], s[id[Max(t)]], id[Max(t)] \in S)
    <3>1. CASE t = {}
      BY <1>4, <3>1
    <3>2. CASE t # {}
      <4>1. Max(t) \in 1..n /\ id[Max(t)] = Max(t) /\ f[t \ {Max(t)}] \in Seq(Seq(L))
        BY <1>4, <1>5, <3>2
      <4>2. f[t] = F[<<f[t \ {Max(t)}], Max(t)>>]
        BY <1>4, <3>2
      <4> QED BY <1>3, <3>2, <4>1, <4>2
    <3> QED BY <3>1, <3>2
  <2>2. f = [t \in SUBSET (1..n) |-> f[t]]
    BY <1>4
  <2> QED BY <1>0, <2>1, <2>2
<1>7. PICK u : u = CHOOSE v : v = D(v)
  BY Zenon
<1>8. u = D(u)
  BY <1>6, <1>7, Zenon
<1>9. \A t \in SUBSET (1..n) :
        u[t] = IF t = {} THEN <<>>
               ELSE Grown(u[t \ {Max(t)}], s[id[Max(t)]], id[Max(t)] \in S)
  BY <1>0, <1>8
<1> DEFINE g == [k \in 0..n |-> u[1..k]]
<1>10. g[0] = <<>>
  <2>1. 1..0 = {} /\ 0 \in 0..n
    BY <1>0
  <2> QED BY <1>9, <2>1
<1>11. ASSUME NEW k \in 1..n PROVE g[k] = Grown(g[k - 1], s[k], k \in S)
  <2>a. k \in Nat /\ k <= n /\ 1 <= k /\ k - 1 \in Nat
    BY <1>0
  <2>b. \A i \in 1..k : i \in 1..n /\ i \in 0..n /\ (i # k => i \in 1..(k - 1))
    BY <1>0, <2>a
  <2>c. \A i \in 1..(k - 1) : i \in 1..k /\ i # k
    BY <2>a
  <2>d. (1..k) \ {k} = 1..(k - 1)
    BY <2>b, <2>c
  <2>1. /\ 1..k \in SUBSET (1..n) /\ 1..k # {} /\ (1..k) \ {k} = 1..(k - 1) /\ k \in 1..k
        /\ 1..k \in SUBSET (0..n) /\ k \in 0..n /\ k - 1 \in 0..n
    <3>1. 1..k \subseteq 1..n /\ 1..k \subseteq 0..n
      BY <2>b
    <3>2. k \in 1..k /\ k \in 0..n /\ k - 1 \in 0..n
      BY <1>0, <2>a
    <3> QED BY <2>d, <3>1, <3>2
  <2>2. Max(1..k) \in 1..k /\ \A j \in 1..k : j <= Max(1..k)
    BY <1>0, <2>1, GreatestIs
  <2>3. Max(1..k) = k
    BY <1>0, <2>1, <2>2
  <2>4. u[1..k] = Grown(u[1..(k - 1)], s[id[k]], id[k] \in S)
    BY <1>9, <2>1, <2>3
  <2>5. id[k] = k /\ g[k] = u[1..k] /\ g[k - 1] = u[1..(k - 1)]
    BY <1>0, <2>1
  <2> QED BY <2>4, <2>5
<1>12. g[n] = u[1..n]
  BY <1>0
<1> HIDE DEF g
<1>13. Groups(g, s, S)
  BY <1>10, <1>11 DEF Groups, n
<1> QED BY <1>0, <1>1, <1>7, <1>12, <1>13 DEF n

\* x is the stretch of s behind a up to e, where a block begins and none within.
Run(x, s, S, a, e) ==
  /\ a < e /\ x = SubSeq(s, a + 1, e)
  /\ (a = 0 \/ a + 1 \in S) /\ \A j \in (a + 2)..e : j \notin S

\* c is where the blocks b of the first k elements end.
Cuts(c, b, s, S, k) ==
  /\ c \in [0..Len(b) -> 0..k] /\ c[0] = 0 /\ c[Len(b)] = k
  /\ \A i \in 1..Len(b) : Run(b[i], s, S, c[i - 1], c[i])

\* An element at which a block begins is a block of one.
LEMMA RunOfOne ==
  ASSUME NEW L, NEW s \in Seq(L), NEW S, NEW k \in 1..Len(s), k = 1 \/ k \in S
  PROVE  Run(<<s[k]>>, s, S, k - 1, k)
<1>1. k \in Nat /\ k - 1 < k /\ (k - 1) + 1 = k /\ (k = 1 => k - 1 = 0)
  OBVIOUS
<1>2. \A j \in ((k - 1) + 2)..k : FALSE
  BY <1>1
<1>3. SubSeq(s, k, k) = <<s[k]>>
  BY OneOf
<1> QED BY <1>1, <1>2, <1>3 DEF Run

\* An element at which none begins lengthens the block before it.
LEMMA RunLonger ==
  ASSUME NEW L, NEW s \in Seq(L), NEW S, NEW k \in 1..Len(s), k \notin S,
         NEW x, NEW a \in Nat, Run(x, s, S, a, k - 1)
  PROVE  Run(Append(x, s[k]), s, S, a, k)
<1>1. a < k - 1 /\ x = SubSeq(s, a + 1, k - 1) /\ (a = 0 \/ a + 1 \in S) /\ \A j \in (a + 2)..(k - 1) : j \notin S
  BY DEF Run
<1>2. a < k /\ \A j \in (a + 2)..k : j = k \/ j \in (a + 2)..(k - 1)
  BY <1>1
<1>3. SubSeq(s, a + 1, k) = Append(SubSeq(s, a + 1, k - 1), s[k])
  <2>1. PICK u : u = SubSeq(s, a + 1, k)
    OBVIOUS
  <2>2. PICK v : v = SubSeq(s, a + 1, k - 1)
    OBVIOUS
  <2>3. PICK n \in Nat : n = (k - 1) - a
    BY <1>1
  <2>4. u \in Seq(L) /\ Len(u) = n + 1 /\ \A i \in 1..(n + 1) : u[i] = s[a + i]
    BY <1>1, <2>1, <2>3
  <2>5. v \in Seq(L) /\ Len(v) = n /\ \A i \in 1..n : v[i] = s[a + i]
    BY <1>1, <2>2, <2>3
  <2>6. PICK w : w = Append(v, s[k])
    OBVIOUS
  <2>7. s[k] \in L /\ a + (n + 1) = k
    BY <2>3
  <2>8. w \in Seq(L) /\ Len(w) = n + 1 /\ w[n + 1] = s[k] /\ \A i \in 1..n : w[i] = v[i]
    BY <2>5, <2>6, <2>7
  <2>9. \A i \in 1..(n + 1) : i = n + 1 \/ i \in 1..n
    BY <2>3
  <2>10. ASSUME NEW i \in 1..(n + 1) PROVE u[i] = w[i]
    <3>1. u[i] = s[a + i]
      BY <2>4
    <3>2. CASE i = n + 1
      BY <2>7, <2>8, <3>1, <3>2
    <3>3. CASE i \in 1..n
      <4>1. v[i] = s[a + i]
        BY <2>5, <3>3
      <4>2. w[i] = v[i]
        BY <2>8, <3>3
      <4> QED BY <3>1, <4>1, <4>2
    <3> QED BY <2>9, <3>2, <3>3
  <2>11. u = w
    BY <2>4, <2>8, <2>10, SeqEqual
  <2> QED BY <2>1, <2>2, <2>6, <2>11
<1> QED BY <1>1, <1>2, <1>3 DEF Run

\* One more element moves the last cut, or adds one.
LEMMA CutGrown ==
  ASSUME NEW L, NEW s \in Seq(L), NEW S, NEW k \in 1..Len(s), NEW b \in Seq(Seq(L)),
         NEW c, Cuts(c, b, s, S, k - 1)
  PROVE  \E d : Cuts(d, Grown(b, s[k], k \in S), s, S, k)
<1>1. PICK m \in Nat : m = Len(b)
  OBVIOUS
<1>2. /\ c \in [0..m -> 0..(k - 1)] /\ c[0] = 0 /\ c[m] = k - 1
      /\ \A i \in 1..m : Run(b[i], s, S, c[i - 1], c[i])
  BY <1>1 DEF Cuts
<1>3. PICK g : g = Grown(b, s[k], k \in S)
  OBVIOUS
<1>4. k \in Nat /\ k - 1 \in Nat /\ k \in 0..k /\ \A i \in 0..(k - 1) : i \in 0..k
  OBVIOUS
<1>5. CASE b = <<>> \/ k \in S
  <2>1. g = Append(b, <<s[k]>>)
    BY <1>3, <1>5 DEF Grown
  <2>2. Len(g) = m + 1 /\ g[m + 1] = <<s[k]>> /\ \A i \in 1..m : g[i] = b[i]
    <3>1. s[k] \in L /\ <<s[k]>> \in Seq(L)
      OBVIOUS
    <3> QED BY <1>1, <2>1, <3>1
  <2> DEFINE d == [i \in 0..(m + 1) |-> IF i = m + 1 THEN k ELSE c[i]]
  <2>3. d \in [0..(m + 1) -> 0..k]
    <3>1. \A i \in 0..(m + 1) : i = m + 1 \/ i \in 0..m
      BY <1>1
    <3>2. \A i \in 0..m : c[i] \in 0..k
      BY <1>2, <1>4
    <3> QED BY <1>4, <3>1, <3>2
  <2>4. d[m + 1] = k /\ \A i \in 0..m : d[i] = c[i]
    <3>1. m + 1 \in 0..(m + 1) /\ \A i \in 0..m : i \in 0..(m + 1) /\ i # m + 1
      BY <1>1
    <3> QED BY <3>1
  <2> HIDE DEF d
  <2>5. 0 \in 0..m /\ m \in 0..m /\ (m + 1) - 1 = m
    BY <1>1
  <2>6. Run(g[m + 1], s, S, d[m], d[m + 1])
    <3>1. m = 0 => k = 1
      BY <1>2, <1>4
    <3>2. k = 1 \/ k \in S
      BY <1>1, <1>5, <3>1
    <3>3. Run(<<s[k]>>, s, S, k - 1, k)
      BY <3>2, RunOfOne
    <3> QED BY <1>2, <2>2, <2>4, <2>5, <3>3
  <2>7. ASSUME NEW i \in 1..m PROVE Run(g[i], s, S, d[i - 1], d[i])
    <3>1. i \in 0..m /\ i - 1 \in 0..m
      BY <1>1
    <3> QED BY <1>2, <2>2, <2>4, <3>1
  <2>8. \A i \in 1..(m + 1) : i = m + 1 \/ i \in 1..m
    BY <1>1
  <2>9. \A i \in 1..Len(g) : Run(g[i], s, S, d[i - 1], d[i])
    BY <2>2, <2>5, <2>6, <2>7, <2>8
  <2>10. Cuts(d, g, s, S, k)
    BY <1>2, <2>2, <2>3, <2>4, <2>5, <2>9 DEF Cuts
  <2> QED BY <1>3, <2>10
<1>6. CASE b # <<>> /\ k \notin S
  <2>0. m \in 1..m /\ m - 1 \in 0..m /\ 0 \in 0..m /\ m # 0 /\ DOMAIN b = 1..m
    BY <1>1, <1>6
  <2>1. g = [b EXCEPT ![m] = Append(@, s[k])]
    BY <1>1, <1>3, <1>6 DEF Grown
  <2>2. Len(g) = m /\ g[m] = Append(b[m], s[k]) /\ \A i \in 1..m : i # m => g[i] = b[i]
    <3>1. DOMAIN g = 1..m
      BY <2>0, <2>1
    <3>2. g \in Seq(Seq(L))
      BY <1>3, GrownType
    <3>3. Len(g) = m
      BY <1>1, <3>1, <3>2
    <3> QED BY <2>0, <2>1, <3>3
  <2> DEFINE d == [i \in 0..m |-> IF i = m THEN k ELSE c[i]]
  <2>3. d \in [0..m -> 0..k]
    <3>2. \A i \in 0..m : c[i] \in 0..k
      BY <1>2, <1>4
    <3> QED BY <1>4, <3>2
  <2>4. d[m] = k /\ \A i \in 0..m : i # m => d[i] = c[i]
    BY <1>1
  <2> HIDE DEF d
  <2>6. Run(g[m], s, S, d[m - 1], d[m])
    <3>a. PICK j : j = m - 1
      OBVIOUS
    <3>b. j \in 0..m /\ j # m
      BY <1>1, <2>0, <3>a
    <3>c. c[j] \in 0..(k - 1)
      BY <1>2, <3>b
    <3>1. m - 1 # m /\ c[m - 1] \in 0..(k - 1)
      BY <3>a, <3>b, <3>c
    <3>2. c[m - 1] \in Nat /\ Run(b[m], s, S, c[m - 1], k - 1)
      BY <1>2, <2>0, <3>1
    <3>3. Run(Append(b[m], s[k]), s, S, c[m - 1], k)
      BY <1>6, <3>2, RunLonger
    <3> QED BY <2>0, <2>2, <2>4, <3>1, <3>3
  <2>7. ASSUME NEW i \in 1..m, i # m PROVE Run(g[i], s, S, d[i - 1], d[i])
    <3>1. i \in 0..m /\ i - 1 \in 0..m /\ i - 1 # m
      BY <1>1
    <3> QED BY <1>2, <2>2, <2>4, <2>7, <3>1
  <2>9. \A i \in 1..Len(g) : Run(g[i], s, S, d[i - 1], d[i])
    BY <2>2, <2>6, <2>7
  <2>10. Cuts(d, g, s, S, k)
    BY <1>2, <2>0, <2>2, <2>3, <2>4, <2>9 DEF Cuts
  <2> QED BY <1>3, <2>10
<1> QED BY <1>5, <1>6

\* The blocks of a text are stretches of it, one behind the other.
LEMMA BlocksAre ==
  ASSUME NEW L, NEW s \in Seq(L), NEW S
  PROVE  /\ Blocks(s, S) \in Seq(Seq(L))
         /\ \E c : Cuts(c, Blocks(s, S), s, S, Len(s))
<1>1. PICK g : Groups(g, s, S) /\ Blocks(s, S) = g[Len(s)]
  BY BlocksExist
<1>2. PICK n \in Nat : n = Len(s)
  OBVIOUS
<1> DEFINE P == {k \in 0..n : g[k] \in Seq(Seq(L)) /\ \E c : Cuts(c, g[k], s, S, k)}
<1>3. 0 \in P
  <2>1. PICK e : e = g[0]
    OBVIOUS
  <2>2. e = <<>> /\ e \in Seq(Seq(L)) /\ Len(e) = 0
    BY <1>1, <2>1 DEF Groups
  <2>3. PICK c : c = [i \in 0..0 |-> 0]
    OBVIOUS
  <2>4. c \in [0..0 -> 0..0] /\ c[0] = 0 /\ \A i \in 1..0 : FALSE
    BY <2>3
  <2>5. Cuts(c, e, s, S, 0)
    BY <2>2, <2>4 DEF Cuts
  <2>6. 0 \in 0..n
    BY <1>2
  <2> QED BY <2>1, <2>2, <2>5, <2>6
<1>4. ASSUME NEW k \in 1..n, k - 1 \in P PROVE k \in P
  <2>1. k \in 1..Len(s) /\ k \in 0..n
    BY <1>2
  <2>2. g[k] = Grown(g[k - 1], s[k], k \in S) /\ s[k] \in L
    BY <1>1, <2>1 DEF Groups
  <2>3. PICK b \in Seq(Seq(L)) : b = g[k - 1]
    BY <1>4
  <2>4. PICK c : Cuts(c, b, s, S, k - 1)
    BY <1>4, <2>3
  <2>5. g[k] \in Seq(Seq(L))
    BY <2>2, <2>3, GrownType
  <2>6. \E d : Cuts(d, Grown(b, s[k], k \in S), s, S, k)
    BY <2>1, <2>4, CutGrown
  <2> QED BY <2>1, <2>2, <2>3, <2>5, <2>6
<1> HIDE DEF P
<1>5. 0..n \subseteq P
  BY <1>2, <1>3, <1>4, UpToAll
<1>6. n \in P
  BY <1>2, <1>5
<1> QED BY <1>1, <1>2, <1>6 DEF P

\* x is s from behind p up to q.
Between(x, s, p, q) == Len(x) = q - p /\ \A i \in 1..(q - p) : x[i] = s[p + i]

LEMMA BetweenIs ==
  ASSUME NEW L, NEW s \in Seq(L), NEW p \in Nat, NEW q \in Nat, p <= q, q <= Len(s)
  PROVE  SubSeq(s, p + 1, q) \in Seq(L) /\ Between(SubSeq(s, p + 1, q), s, p, q)
<1>1. PICK m \in 1..(Len(s) + 1) : m = p + 1
  OBVIOUS
<1>2. q \in (m - 1)..Len(s)
  BY <1>1
<1>3. /\ SubSeq(s, m, q) \in Seq(L)
      /\ Len(SubSeq(s, m, q)) = (q - m) + 1
      /\ \A i \in 1..((q - m) + 1) : SubSeq(s, m, q)[i] = s[(m + i) - 1]
  BY <1>2, SubSeqProperties
<1>4. (q - m) + 1 = q - p /\ \A i \in 1..(q - p) : (m + i) - 1 = p + i
  BY <1>1
<1> QED BY <1>1, <1>3, <1>4 DEF Between

\* A stretch divided anywhere is the concatenation of its two parts.
LEMMA Divided ==
  ASSUME NEW L, NEW s \in Seq(L), NEW x \in 1..(Len(s) + 1), NEW a \in (x - 1)..Len(s), NEW e \in a..Len(s)
  PROVE  /\ SubSeq(s, x, e) = SubSeq(s, x, a) \o SubSeq(s, a + 1, e)
         /\ SubSeq(s, x, e) \in Seq(L) /\ SubSeq(s, x, a) \in Seq(L) /\ SubSeq(s, a + 1, e) \in Seq(L)
<1>1. PICK u : u = SubSeq(s, x, e)
  OBVIOUS
<1>2. PICK v : v = SubSeq(s, x, a)
  OBVIOUS
<1>3. PICK w : w = SubSeq(s, a + 1, e)
  OBVIOUS
<1>4. PICK m \in Nat : m = a - (x - 1)
  OBVIOUS
<1>5. PICK n \in Nat : n = e - a
  OBVIOUS
<1>0. x \in Nat /\ a \in Nat /\ e \in Nat /\ Len(s) \in Nat /\ 1 <= x /\ e <= Len(s) /\ a <= e
      /\ a = (x - 1) + m /\ e = a + n
  BY <1>4, <1>5
<1>p. PICK p \in Nat : p = x - 1
  BY <1>0
<1>q. p + 1 = x /\ p <= a /\ a <= e /\ e <= Len(s) /\ p <= e /\ a <= Len(s) /\ a - p = m /\ e - a = n /\ e - p = m + n
  BY <1>0, <1>p
<1>6. u \in Seq(L) /\ Len(u) = m + n /\ \A i \in 1..(m + n) : u[i] = s[p + i]
  <2>1. SubSeq(s, p + 1, e) \in Seq(L) /\ Between(SubSeq(s, p + 1, e), s, p, e)
    BY <1>0, <1>q, BetweenIs
  <2> QED BY <1>1, <1>q, <2>1 DEF Between
<1>7. v \in Seq(L) /\ Len(v) = m /\ \A i \in 1..m : v[i] = s[p + i]
  <2>1. SubSeq(s, p + 1, a) \in Seq(L) /\ Between(SubSeq(s, p + 1, a), s, p, a)
    BY <1>0, <1>q, BetweenIs
  <2> QED BY <1>2, <1>q, <2>1 DEF Between
<1>8. w \in Seq(L) /\ Len(w) = n /\ \A i \in 1..n : w[i] = s[a + i]
  <2>1. SubSeq(s, a + 1, e) \in Seq(L) /\ Between(SubSeq(s, a + 1, e), s, a, e)
    BY <1>0, <1>q, BetweenIs
  <2> QED BY <1>3, <1>q, <2>1 DEF Between
<1>9. PICK t : t = v \o w
  OBVIOUS
<1>10. t \in Seq(L) /\ IsJoin(t, v, w)
  BY <1>7, <1>8, <1>9, Joined
<1>11. Len(t) = m + n /\ (\A i \in 1..m : t[i] = v[i]) /\ \A i \in 1..n : t[m + i] = w[i]
  BY <1>7, <1>8, <1>10 DEF IsJoin
<1>12. \A i \in 1..(m + n) : i \in 1..m \/ (i - m \in 1..n /\ m + (i - m) = i /\ a + (i - m) = p + i)
  BY <1>0, <1>p
<1>13. ASSUME NEW i \in 1..(m + n) PROVE u[i] = t[i]
  <2>1. CASE i \in 1..m
    BY <1>6, <1>7, <1>11, <2>1
  <2>2. CASE i - m \in 1..n /\ m + (i - m) = i /\ a + (i - m) = p + i
    <3>1. PICK j \in 1..n : j = i - m
      BY <2>2
    <3>2. t[m + j] = w[j] /\ w[j] = s[a + j] /\ u[i] = s[p + i]
      BY <1>6, <1>8, <1>11, <3>1
    <3> QED BY <2>2, <3>1, <3>2
  <2> QED BY <1>12, <2>1, <2>2
<1>14. u = t
  BY <1>6, <1>10, <1>11, <1>13, SeqEqual
<1> QED BY <1>1, <1>2, <1>3, <1>6, <1>7, <1>8, <1>9, <1>14

\* The blocks of a text, one behind the other, are the text.
LEMMA BlocksFlat ==
  ASSUME NEW L, NEW s \in Seq(L), NEW S
  PROVE  FlattenSeq(Blocks(s, S)) = s
<1>1. PICK b : b = Blocks(s, S)
  OBVIOUS
<1>2. b \in Seq(Seq(L))
  BY <1>1, BlocksAre
<1>3. PICK c : Cuts(c, b, s, S, Len(s))
  BY <1>1, BlocksAre
<1>4. PICK m \in Nat : m = Len(b)
  BY <1>2
<1>5. PICK n \in Nat : n = Len(s)
  OBVIOUS
<1>6. /\ c \in [0..m -> 0..n] /\ c[0] = 0 /\ c[m] = n
      /\ \A i \in 1..m : Run(b[i], s, S, c[i - 1], c[i])
  BY <1>3, <1>4, <1>5 DEF Cuts
<1> DEFINE f == [i \in 0..m |-> SubSeq(s, 1, c[i])]
<1>7. 0 \in 0..m /\ m \in 0..m /\ \A i \in 1..m : i \in 0..m /\ i - 1 \in 0..m
  BY <1>4
<1>8. \A i \in 0..m : f[i] = SubSeq(s, 1, c[i])
  OBVIOUS
<1> HIDE DEF f
<1>9. f[0] = <<>>
  BY <1>6, <1>7, <1>8
<1>10. ASSUME NEW i \in 1..m PROVE f[i] = f[i - 1] \o b[i]
  <2>1. PICK a \in 0..n : a = c[i - 1]
    BY <1>6, <1>7
  <2>2. PICK e \in 0..n : e = c[i]
    BY <1>6, <1>7
  <2>3. Run(b[i], s, S, a, e)
    BY <1>6, <2>1, <2>2
  <2>4. b[i] = SubSeq(s, a + 1, e) /\ a < e
    BY <2>3 DEF Run
  <2>5. 1 \in 1..(Len(s) + 1) /\ a \in (1 - 1)..Len(s) /\ e \in a..Len(s)
    BY <1>5, <2>4
  <2>6. SubSeq(s, 1, e) = SubSeq(s, 1, a) \o SubSeq(s, a + 1, e)
    BY <2>5, Divided
  <2> QED BY <1>7, <1>8, <2>1, <2>2, <2>4, <2>6
<1>11. Flats(f, b)
  BY <1>4, <1>9, <1>10 DEF Flats
<1>12. FlattenSeq(b) = f[m]
  BY <1>2, <1>4, <1>11, FlatIsLast
<1>13. SubSeq(s, 1, n) = s
  BY <1>5
<1> QED BY <1>1, <1>6, <1>7, <1>8, <1>12, <1>13

\* A block of a text, by where it begins and ends.
LEMMA BlockIs ==
  ASSUME NEW L, NEW s \in Seq(L), NEW S, NEW i \in 1..Len(Blocks(s, S))
  PROVE  \E a \in 0..Len(s), e \in 0..Len(s) :
           Run(Blocks(s, S)[i], s, S, a, e) /\ (e = Len(s) \/ e + 1 \in S)
<1>1. PICK b : b = Blocks(s, S)
  OBVIOUS
<1>2. b \in Seq(Seq(L))
  BY <1>1, BlocksAre
<1>3. PICK c : Cuts(c, b, s, S, Len(s))
  BY <1>1, BlocksAre
<1>4. PICK m \in Nat : m = Len(b)
  BY <1>2
<1>5. PICK n \in Nat : n = Len(s)
  OBVIOUS
<1>6. /\ c \in [0..m -> 0..n] /\ c[0] = 0 /\ c[m] = n
      /\ \A j \in 1..m : Run(b[j], s, S, c[j - 1], c[j])
  BY <1>3, <1>4, <1>5 DEF Cuts
<1>0. i \in 1..m
  BY <1>1, <1>4
<1>7. i \in 0..m /\ i - 1 \in 0..m
  BY <1>0
<1>8. PICK a \in 0..n : a = c[i - 1]
  BY <1>6, <1>7
<1>9. PICK e \in 0..n : e = c[i]
  BY <1>6, <1>7
<1>10. Run(b[i], s, S, a, e)
  BY <1>0, <1>6, <1>8, <1>9
<1>11. e = n \/ e + 1 \in S
  <2>1. CASE i = m
    BY <1>6, <1>9, <2>1
  <2>2. CASE i # m
    <3>1. PICK j \in 1..m : j = i + 1
      BY <1>0, <2>2
    <3>2. j - 1 = i
      BY <1>0, <3>1
    <3>3. Run(b[j], s, S, e, c[j])
      BY <1>6, <1>9, <3>2
    <3>4. e # 0
      BY <1>10 DEF Run
    <3> QED BY <3>3, <3>4 DEF Run
  <2> QED BY <2>1, <2>2
<1> QED BY <1>1, <1>5, <1>10, <1>11

-----------------------------------------------------------------------------
(* Lines that are not blank.                                               *)

LEMMA PicksType ==
  ASSUME NEW L, NEW s \in Seq(L), NEW S, NEW f, Picks(f, s, S)
  PROVE  \A k \in 0..Len(s) : f[k] \in Seq(L)
<1>2. Len(s) \in Nat /\ \A k \in 1..Len(s) : s[k] \in L
  OBVIOUS
<1> DEFINE P == {k \in 0..Len(s) : f[k] \in Seq(L)}
<1>3. 0 \in P
  <2>1. f[0] = <<>> /\ <<>> \in Seq(L)
    BY DEF Picks
  <2>2. 0 \in 0..Len(s)
    BY <1>2
  <2> QED BY <2>1, <2>2
<1>4. ASSUME NEW k \in 1..Len(s), k - 1 \in P PROVE k \in P
  <2>1. f[k] = IF k \in S THEN Append(f[k - 1], s[k]) ELSE f[k - 1]
    BY DEF Picks
  <2>2. f[k - 1] \in Seq(L) /\ s[k] \in L /\ k \in 0..Len(s)
    BY <1>2, <1>4
  <2>3. f[k] \in Seq(L)
    BY <2>1, <2>2
  <2> QED BY <2>2, <2>3
<1> HIDE DEF P
<1>5. 0..Len(s) \subseteq P
  BY <1>2, <1>3, <1>4, UpToAll
<1> QED BY <1>5 DEF P

\* S selects of a \o b what A selects of a and B of b.
Selects(S, A, B, a, b) ==
  /\ \A i \in 1..Len(a) : i \in S <=> i \in A
  /\ \A i \in 1..Len(b) : Len(a) + i \in S <=> i \in B

AppendsBehind(x, y, e) == Append(x \o y, e) = x \o Append(y, e)

LEMMA AppendBehind ==
  ASSUME NEW L, NEW x, NEW y, NEW e, x \in Seq(L), y \in Seq(L), e \in L
  PROVE  AppendsBehind(x, y, e)
<1>1. <<e>> \in Seq(L)
  OBVIOUS
<1>2. Regroups(x, y, <<e>>)
  BY <1>1, Associated
<1>3. x \o y \in Seq(L)
  OBVIOUS
<1>4. Append(x \o y, e) = (x \o y) \o <<e>>
  BY <1>3, AppendIsConcat
<1>5. Append(y, e) = y \o <<e>>
  BY AppendIsConcat
<1> QED BY <1>2, <1>4, <1>5 DEF Regroups, AppendsBehind

\* Picking from a concatenation is picking from each part.
LEMMA PickedConcat ==
  ASSUME NEW L, NEW a \in Seq(L), NEW b \in Seq(L), NEW S, NEW A, NEW B, Selects(S, A, B, a, b)
  PROVE  Picked(a \o b, S) = Picked(a, A) \o Picked(b, B)
<1>1. PICK t : t = a \o b
  OBVIOUS
<1>2. t \in Seq(L) /\ IsJoin(t, a, b)
  BY <1>1, Joined
<1>3. PICK m \in Nat, n \in Nat : m = Len(a) /\ n = Len(b)
  OBVIOUS
<1>4. Len(t) = m + n /\ (\A i \in 1..m : t[i] = a[i]) /\ (\A i \in 1..n : t[m + i] = b[i])
  BY <1>2, <1>3 DEF IsJoin
<1>5. (\A i \in 1..m : i \in S <=> i \in A) /\ (\A i \in 1..n : m + i \in S <=> i \in B)
  BY <1>3 DEF Selects
<1>6. PICK f : Picks(f, t, S) /\ Picked(t, S) = f[Len(t)]
  BY <1>2, PickedExists
<1>7. PICK g : Picks(g, b, B) /\ Picked(b, B) = g[Len(b)]
  BY PickedExists
<1>8. /\ f[0] = <<>>
      /\ \A k \in 1..(m + n) : f[k] = IF k \in S THEN Append(f[k - 1], t[k]) ELSE f[k - 1]
  BY <1>4, <1>6 DEF Picks
<1>9. /\ g[0] = <<>>
      /\ \A k \in 1..n : g[k] = IF k \in B THEN Append(g[k - 1], b[k]) ELSE g[k - 1]
  BY <1>3, <1>7 DEF Picks
<1>10. Picks(f, a, A)
  <2>1. \A k \in 1..m : k \in 1..(m + n)
    BY <1>3
  <2>2. \A k \in 1..m : f[k] = IF k \in A THEN Append(f[k - 1], a[k]) ELSE f[k - 1]
    BY <1>4, <1>5, <1>8, <2>1
  <2> QED BY <1>3, <1>8, <2>2 DEF Picks
<1>11. Picked(a, A) = f[m]
  BY <1>3, <1>10, PickedIs
<1>12. f[m] \in Seq(L) /\ \A k \in 0..n : g[k] \in Seq(L)
  <2>1. m \in 0..Len(a)
    BY <1>3
  <2> QED BY <1>3, <1>7, <1>10, <2>1, PicksType
<1> DEFINE P == {k \in 0..n : f[m + k] = f[m] \o g[k]}
<1>13. 0 \in P
  <2>1. 0 \in 0..n /\ m + 0 = m
    BY <1>3
  <2>2. f[m] \o <<>> = f[m]
    BY <1>12
  <2> QED BY <1>9, <2>1, <2>2
<1>14. ASSUME NEW k \in 1..n, k - 1 \in P PROVE k \in P
  <2>1. m + k \in 1..(m + n) /\ (m + k) - 1 = m + (k - 1) /\ k \in 0..n /\ k - 1 \in 0..n
    BY <1>3
  <2>2. f[m + k] = IF k \in B THEN Append(f[m + (k - 1)], b[k]) ELSE f[m + (k - 1)]
    BY <1>4, <1>5, <1>8, <2>1
  <2>3. g[k] = IF k \in B THEN Append(g[k - 1], b[k]) ELSE g[k - 1]
    BY <1>9
  <2>4. f[m + (k - 1)] = f[m] \o g[k - 1]
    BY <1>14
  <2>5. g[k - 1] \in Seq(L) /\ b[k] \in L
    BY <1>3, <1>12, <2>1
  <2>6. Append(f[m] \o g[k - 1], b[k]) = f[m] \o Append(g[k - 1], b[k])
    <3>1. AppendsBehind(f[m], g[k - 1], b[k])
      BY <1>12, <2>5, AppendBehind
    <3> QED BY <3>1 DEF AppendsBehind
  <2>7. f[m + k] = f[m] \o g[k]
    BY <2>2, <2>3, <2>4, <2>6
  <2> QED BY <2>1, <2>7
<1> HIDE DEF P
<1>15. 0..n \subseteq P
  BY <1>3, <1>13, <1>14, UpToAll
<1>16. n \in P
  BY <1>3, <1>15
<1>17. f[m + n] = f[m] \o g[n]
  BY <1>16 DEF P
<1> QED BY <1>1, <1>3, <1>4, <1>6, <1>7, <1>11, <1>17

LEMMA PickedNothing ==
  ASSUME NEW L, NEW s \in Seq(L), NEW S, \A i \in 1..Len(s) : i \notin S
  PROVE  Picked(s, S) = <<>>
<1>0. Len(s) \in Nat
  OBVIOUS
<1>1. PICK g : g = [k \in 0..Len(s) |-> <<>>]
  OBVIOUS
<1>2. g[0] = <<>> /\ g[Len(s)] = <<>> /\ \A k \in 1..Len(s) : g[k] = g[k - 1]
  <2>1. 0 \in 0..Len(s) /\ Len(s) \in 0..Len(s) /\ \A k \in 1..Len(s) : k \in 0..Len(s) /\ k - 1 \in 0..Len(s)
    BY <1>0
  <2> QED BY <1>1, <2>1
<1>3. Picks(g, s, S)
  BY <1>2 DEF Picks
<1> QED BY <1>2, <1>3, PickedIs

\* The positions of lines that are not blank.
Inked(text) == Positions(text, LAMBDA l : ~isBlank(l))

LEMMA NonBlankType ==
  ASSUME NEW L, NEW s \in Seq(L)
  PROVE  NonBlank(s) \in Seq(L)
BY PickedType DEF NonBlank

\* The written lines of a concatenation are those of its parts.
LEMMA NonBlankConcat ==
  ASSUME NEW L, NEW a \in Seq(L), NEW b \in Seq(L)
  PROVE  NonBlank(a \o b) = NonBlank(a) \o NonBlank(b)
<1>1. PICK t : t = a \o b
  OBVIOUS
<1>2. t \in Seq(L) /\ IsJoin(t, a, b)
  BY <1>1, Joined
<1>3. PICK m \in Nat, n \in Nat : m = Len(a) /\ n = Len(b)
  OBVIOUS
<1>4. Len(t) = m + n /\ (\A i \in 1..m : t[i] = a[i]) /\ (\A i \in 1..n : t[m + i] = b[i])
      /\ DOMAIN t = 1..(m + n) /\ DOMAIN a = 1..m /\ DOMAIN b = 1..n
  BY <1>2, <1>3 DEF IsJoin
<1>5. Selects(Inked(t), Inked(a), Inked(b), a, b)
  <2>1. \A i \in 1..m : i \in Inked(t) <=> i \in Inked(a)
    <3>1. \A i \in 1..m : i \in 1..(m + n)
      BY <1>3
    <3> QED BY <1>4, <3>1 DEF Inked, Positions
  <2>2. \A i \in 1..n : m + i \in Inked(t) <=> i \in Inked(b)
    <3>1. \A i \in 1..n : m + i \in 1..(m + n)
      BY <1>3
    <3> QED BY <1>4, <3>1 DEF Inked, Positions
  <2> QED BY <1>3, <2>1, <2>2 DEF Selects
<1>6. Picked(a \o b, Inked(t)) = Picked(a, Inked(a)) \o Picked(b, Inked(b))
  BY <1>5, PickedConcat
<1> QED BY <1>1, <1>6 DEF NonBlank, Inked

LEMMA NonBlankNone ==
  ASSUME NEW L, NEW s \in Seq(L), \A i \in 1..Len(s) : isBlank(s[i])
  PROVE  NonBlank(s) = <<>>
<1>1. \A i \in 1..Len(s) : i \notin Inked(s)
  BY DEF Inked, Positions
<1>2. Picked(s, Inked(s)) = <<>>
  BY <1>1, PickedNothing
<1> QED BY <1>2 DEF NonBlank, Inked

-----------------------------------------------------------------------------
(* Trimming.                                                               *)

\* Where a text that is not blank begins and ends.
Edges(s, m, k) ==
  /\ m \in 1..Len(s) /\ k \in m..Len(s) /\ ~isBlank(s[m]) /\ ~isBlank(s[k])
  /\ \A i \in 1..(m - 1) : isBlank(s[i])
  /\ \A i \in (k + 1)..Len(s) : isBlank(s[i])

\* Trimming leaves nothing of a blank text, and else all from the first written line to the last.
LEMMA TrimIs ==
  ASSUME NEW L, NEW s \in Seq(L)
  PROVE  \/ trimBlock(s) = <<>> /\ \A i \in 1..Len(s) : isBlank(s[i])
         \/ \E m, k : Edges(s, m, k) /\ trimBlock(s) = SubSeq(s, m, k)
<1> DEFINE W == {i \in DOMAIN s : ~isBlank(s[i])}
<1>1. PICK n \in Nat : n = Len(s) /\ DOMAIN s = 1..n
  OBVIOUS
<1>2. CASE W = {}
  <2>1. trimBlock(s) = <<>>
    BY <1>2 DEF trimBlock
  <2>2. \A i \in 1..Len(s) : isBlank(s[i])
    BY <1>1, <1>2
  <2> QED BY <2>1, <2>2
<1>3. CASE W # {}
  <2>1. trimBlock(s) = SubSeq(s, Min(W), Max(W))
    BY <1>3 DEF trimBlock
  <2>2. W \in SUBSET Nat /\ W \in SUBSET (0..n) /\ W \in SUBSET Int
    BY <1>1
  <2>3. \A i \in 1..n : i \in W <=> ~isBlank(s[i])
    BY <1>1
  <2>0. W \subseteq 1..n
    BY <1>1
  <2> HIDE DEF W
  <2>4. PICK m \in W : \A j \in W : m <= j
    BY <1>3, <2>2, LeastOf
  <2>5. Min(W) = m
    BY <2>2, <2>4, MinIs
  <2>6. Max(W) \in W /\ \A j \in W : j <= Max(W)
    BY <1>1, <1>3, <2>2, GreatestIs
  <2>7. PICK k \in W : k = Max(W) /\ \A j \in W : j <= k
    BY <2>6
  <2>8. m \in 1..n /\ k \in 1..n /\ m <= k
    BY <2>0, <2>4, <2>7
  <2>9. \A i \in 1..(m - 1) : isBlank(s[i])
    <3>1. \A i \in 1..(m - 1) : i \in 1..n /\ ~(m <= i)
      BY <2>8
    <3> QED BY <2>3, <2>4, <3>1
  <2>10. \A i \in (k + 1)..n : isBlank(s[i])
    <3>1. \A i \in (k + 1)..n : i \in 1..n /\ ~(i <= k)
      BY <2>8
    <3> QED BY <2>3, <2>7, <3>1
  <2>11. ~isBlank(s[m]) /\ ~isBlank(s[k])
    BY <2>3, <2>8
  <2>12. Edges(s, m, k)
    BY <1>1, <2>8, <2>9, <2>10, <2>11 DEF Edges
  <2> QED BY <2>1, <2>5, <2>7, <2>12
<1> QED BY <1>2, <1>3

\* A text that is not blank, in three: blanks, what is left of it, blanks.
Parts(s, x, t, y) ==
  /\ s = (x \o t) \o y
  /\ \A i \in 1..Len(x) : isBlank(x[i])
  /\ \A i \in 1..Len(y) : isBlank(y[i])

\* What trimming takes from either side is blank.
LEMMA TrimParts ==
  ASSUME NEW L, NEW s \in Seq(L)
  PROVE  trimBlock(s) \in Seq(L) /\ \E x \in Seq(L), y \in Seq(L) : Parts(s, x, trimBlock(s), y)
<1>1. PICK t : t = trimBlock(s)
  OBVIOUS
<1>2. CASE t = <<>> /\ \A i \in 1..Len(s) : isBlank(s[i])
  <2>1. t \in Seq(L) /\ <<>> \in Seq(L) /\ Len(<<>>) = 0
    BY <1>2
  <2>2. (s \o <<>>) \o <<>> = s /\ \A i \in 1..0 : FALSE
    OBVIOUS
  <2>3. Parts(s, s, t, <<>>)
    BY <1>2, <2>1, <2>2 DEF Parts
  <2> QED BY <1>1, <2>1, <2>3
<1>3. CASE \E m, k : Edges(s, m, k) /\ t = SubSeq(s, m, k)
  <2>1. PICK m, k : Edges(s, m, k) /\ t = SubSeq(s, m, k)
    BY <1>3
  <2>2. PICK n \in Nat : n = Len(s)
    OBVIOUS
  <2>3. /\ m \in 1..n /\ k \in m..n
        /\ (\A i \in 1..(m - 1) : isBlank(s[i])) /\ \A i \in (k + 1)..n : isBlank(s[i])
    BY <2>1, <2>2 DEF Edges
  <2>4. PICK p \in Nat : p = m - 1
    BY <2>3
  <2>5. p + 1 = m /\ p <= k /\ k <= n /\ p <= n /\ k \in Nat
    BY <2>2, <2>3, <2>4
  <2>6. PICK x : x = SubSeq(s, 1, p)
    OBVIOUS
  <2>7. PICK y : y = SubSeq(s, k + 1, n)
    OBVIOUS
  <2>8. x \in Seq(L) /\ t \in Seq(L) /\ y \in Seq(L) /\ (x \o t) \o y = s
    <3>1. 1 \in 1..(Len(s) + 1) /\ p \in (1 - 1)..Len(s) /\ k \in p..Len(s) /\ k \in (1 - 1)..Len(s) /\ n \in k..Len(s)
      BY <2>2, <2>5
    <3>2. SubSeq(s, 1, k) = x \o t /\ x \in Seq(L) /\ t \in Seq(L)
      BY <2>1, <2>5, <2>6, <3>1, Divided
    <3>3. SubSeq(s, 1, n) = SubSeq(s, 1, k) \o y /\ y \in Seq(L)
      BY <2>7, <3>1, Divided
    <3>4. SubSeq(s, 1, n) = s
      BY <2>2
    <3> QED BY <3>2, <3>3, <3>4
  <2>9. \A i \in 1..Len(x) : isBlank(x[i])
    <3>1. 0 \in Nat /\ 0 <= p /\ p <= Len(s) /\ 0 + 1 = 1
      BY <2>2, <2>5
    <3>2. Between(SubSeq(s, 0 + 1, p), s, 0, p)
      BY <3>1, BetweenIs
    <3>3. Len(x) = p - 0 /\ \A i \in 1..(p - 0) : x[i] = s[0 + i]
      BY <2>6, <3>1, <3>2 DEF Between
    <3>4. p - 0 = p /\ \A i \in 1..p : 0 + i = i
      OBVIOUS
    <3> QED BY <2>3, <2>4, <3>3, <3>4
  <2>10. \A i \in 1..Len(y) : isBlank(y[i])
    <3>1. k \in Nat /\ n \in Nat /\ k <= n /\ n <= Len(s)
      BY <2>2, <2>5
    <3>2. Between(SubSeq(s, k + 1, n), s, k, n)
      BY <3>1, BetweenIs
    <3>3. Len(y) = n - k /\ \A i \in 1..(n - k) : y[i] = s[k + i]
      BY <2>7, <3>2 DEF Between
    <3>4. \A i \in 1..(n - k) : k + i \in (k + 1)..n
      BY <3>1
    <3> QED BY <2>3, <3>3, <3>4
  <2>11. Parts(s, x, t, y)
    BY <2>8, <2>9, <2>10 DEF Parts
  <2> QED BY <1>1, <2>8, <2>11
<1> QED BY <1>1, <1>2, <1>3, TrimIs

\* Trimming keeps every written line.
LEMMA TrimKeeps ==
  ASSUME NEW L, NEW s \in Seq(L)
  PROVE  NonBlank(trimBlock(s)) = NonBlank(s)
<1>1. PICK t \in Seq(L) : t = trimBlock(s)
  BY TrimParts
<1>2. PICK x \in Seq(L), y \in Seq(L) : Parts(s, x, t, y)
  BY <1>1, TrimParts
<1>3. /\ s = (x \o t) \o y
      /\ \A i \in 1..Len(x) : isBlank(x[i])
      /\ \A i \in 1..Len(y) : isBlank(y[i])
  BY <1>2 DEF Parts
<1>4. NonBlank(x) = <<>> /\ NonBlank(y) = <<>>
  BY <1>3, NonBlankNone
<1>5. PICK u : u = x \o t /\ u \in Seq(L)
  <2>1. x \o t \in Seq(L)
    BY Joined
  <2> QED BY <2>1
<1>6. NonBlank(u) = NonBlank(x) \o NonBlank(t)
  BY <1>5, NonBlankConcat
<1>7. NonBlank(s) = NonBlank(u) \o NonBlank(y)
  BY <1>3, <1>5, NonBlankConcat
<1>8. PICK v \in Seq(L) : v = NonBlank(t)
  BY NonBlankType
<1>9. <<>> \o v = v /\ v \o <<>> = v
  OBVIOUS
<1> QED BY <1>1, <1>4, <1>6, <1>7, <1>8, <1>9

-----------------------------------------------------------------------------
(* What segments show.                                                     *)

\* s with a heading at every line.
Tagged(h, s) == [i \in DOMAIN s |-> <<h, s[i]>>]

IsTagged(t, h, s) == Len(t) = Len(s) /\ \A i \in 1..Len(s) : t[i] = <<h, s[i]>>

LEMMA TaggedType ==
  ASSUME NEW L, NEW s \in Seq(L), NEW H, NEW h \in H
  PROVE  Tagged(h, s) \in Seq(H \X L) /\ IsTagged(Tagged(h, s), h, s)
<1>1. PICK n \in Nat : n = Len(s) /\ DOMAIN s = 1..n /\ \A i \in 1..n : s[i] \in L
  OBVIOUS
<1>2. PICK t : t = Tagged(h, s)
  OBVIOUS
<1>3. t \in [1..n -> H \X L] /\ \A i \in 1..n : t[i] = <<h, s[i]>>
  BY <1>1, <1>2 DEF Tagged
<1>4. t \in Seq(H \X L) /\ Len(t) = n
  BY <1>1, <1>3
<1> QED BY <1>1, <1>2, <1>3, <1>4 DEF IsTagged

LEMMA TaggedConcat ==
  ASSUME NEW L, NEW a \in Seq(L), NEW b \in Seq(L), NEW H, NEW h \in H
  PROVE  Tagged(h, a \o b) = Tagged(h, a) \o Tagged(h, b)
<1>1. PICK t : t = a \o b
  OBVIOUS
<1>2. t \in Seq(L) /\ IsJoin(t, a, b)
  BY <1>1, Joined
<1>3. PICK m \in Nat, n \in Nat : m = Len(a) /\ n = Len(b)
  OBVIOUS
<1>4. Len(t) = m + n /\ (\A i \in 1..m : t[i] = a[i]) /\ (\A i \in 1..n : t[m + i] = b[i])
  BY <1>2, <1>3 DEF IsJoin
<1>5. PICK u, v, w : u = Tagged(h, t) /\ v = Tagged(h, a) /\ w = Tagged(h, b)
  OBVIOUS
<1>a. u \in Seq(H \X L) /\ IsTagged(u, h, t)
  BY <1>2, <1>5, TaggedType
<1>b. v \in Seq(H \X L) /\ IsTagged(v, h, a)
  BY <1>5, TaggedType
<1>c. w \in Seq(H \X L) /\ IsTagged(w, h, b)
  BY <1>5, TaggedType
<1>6. u \in Seq(H \X L) /\ Len(u) = m + n /\ \A i \in 1..(m + n) : u[i] = <<h, t[i]>>
  BY <1>4, <1>a DEF IsTagged
<1>7. v \in Seq(H \X L) /\ Len(v) = m /\ \A i \in 1..m : v[i] = <<h, a[i]>>
  BY <1>3, <1>b DEF IsTagged
<1>8. w \in Seq(H \X L) /\ Len(w) = n /\ \A i \in 1..n : w[i] = <<h, b[i]>>
  BY <1>3, <1>c DEF IsTagged
<1>9. PICK x : x = v \o w
  OBVIOUS
<1>10. x \in Seq(H \X L) /\ IsJoin(x, v, w)
  BY <1>7, <1>8, <1>9, Joined
<1>11. Len(x) = m + n /\ (\A i \in 1..m : x[i] = v[i]) /\ \A i \in 1..n : x[m + i] = w[i]
  BY <1>7, <1>8, <1>10 DEF IsJoin
<1>12. ASSUME NEW i \in 1..(m + n) PROVE u[i] = x[i]
  <2>1. i \in 1..m \/ (i - m \in 1..n /\ m + (i - m) = i)
    BY <1>3
  <2>2. CASE i \in 1..m
    BY <1>4, <1>6, <1>7, <1>11, <2>2
  <2>3. CASE i - m \in 1..n /\ m + (i - m) = i
    <3>1. PICK j \in 1..n : j = i - m /\ m + j = i
      BY <2>3
    <3>2. x[i] = w[j] /\ w[j] = <<h, b[j]>> /\ u[i] = <<h, t[i]>> /\ t[i] = b[j]
      BY <1>4, <1>6, <1>8, <1>11, <3>1
    <3> QED BY <3>2
  <2> QED BY <2>1, <2>2, <2>3
<1>13. u = x
  BY <1>6, <1>10, <1>11, <1>12, SeqEqual
<1> QED BY <1>1, <1>5, <1>9, <1>13

LEMMA UnderIs ==
  ASSUME NEW h, NEW s
  PROVE  Under(h, s) = Tagged(h, NonBlank(s))
BY DEF Under, Tagged

LEMMA UnderType ==
  ASSUME NEW L, NEW s \in Seq(L), NEW H, NEW h \in H
  PROVE  Under(h, s) \in Seq(H \X L)
<1>1. NonBlank(s) \in Seq(L)
  BY NonBlankType
<1>2. Tagged(h, NonBlank(s)) \in Seq(H \X L)
  BY <1>1, TaggedType
<1> QED BY <1>2, UnderIs

\* Naming the heading of each line goes part by part.
LEMMA UnderConcat ==
  ASSUME NEW L, NEW a \in Seq(L), NEW b \in Seq(L), NEW H, NEW h \in H
  PROVE  Under(h, a \o b) = Under(h, a) \o Under(h, b)
<1>1. PICK x, y : x = NonBlank(a) /\ y = NonBlank(b)
  OBVIOUS
<1>2. x \in Seq(L) /\ y \in Seq(L)
  BY <1>1, NonBlankType
<1>3. NonBlank(a \o b) = x \o y
  BY <1>1, NonBlankConcat
<1>4. Tagged(h, x \o y) = Tagged(h, x) \o Tagged(h, y)
  BY <1>2, TaggedConcat
<1> QED BY <1>1, <1>3, <1>4, UnderIs

\* Texts with the same lines show the same.
LEMMA UnderSame ==
  ASSUME NEW h, NEW s, NEW t, NonBlank(s) = NonBlank(t)
  PROVE  Under(h, s) = Under(h, t)
BY UnderIs

-----------------------------------------------------------------------------
(* The lines of a chunk.                                                   *)

Carries(U, L) == \A u \in U : u.lines \in Seq(L)

\* The lines of each unit.
Listing(x) == [j \in DOMAIN x |-> x[j].lines]
IsLines(p, x) == Len(p) = Len(x) /\ \A j \in 1..Len(x) : p[j] = x[j].lines

LEMMA LinesType ==
  ASSUME NEW L, NEW U, Carries(U, L), NEW x \in Seq(U), NEW p, p = Listing(x)
  PROVE  p \in Seq(Seq(L)) /\ IsLines(p, x) /\ LinesOf(x) = FlattenSeq(p) /\ LinesOf(x) \in Seq(L)
<1>1. PICK n \in Nat : n = Len(x) /\ DOMAIN x = 1..n /\ \A i \in 1..n : x[i] \in U
  OBVIOUS
<1>2. \A i \in 1..n : x[i].lines \in Seq(L)
  BY <1>1 DEF Carries
<1>3. p \in [1..n -> Seq(L)] /\ \A i \in 1..n : p[i] = x[i].lines
  BY <1>1, <1>2 DEF Listing
<1>4. p \in Seq(Seq(L)) /\ Len(p) = n
  BY <1>1, <1>3
<1>5. LinesOf(x) = FlattenSeq(p)
  BY DEF LinesOf, Listing
<1>6. LinesOf(x) \in Seq(L)
  BY <1>4, <1>5, FlatType
<1> QED BY <1>1, <1>3, <1>4, <1>5, <1>6 DEF IsLines

\* The lines of a concatenation of units are those of its parts.
LEMMA LinesConcat ==
  ASSUME NEW L, NEW U, Carries(U, L), NEW a \in Seq(U), NEW b \in Seq(U)
  PROVE  LinesOf(a \o b) = LinesOf(a) \o LinesOf(b)
<1>1. PICK t : t = a \o b
  OBVIOUS
<1>2. t \in Seq(U) /\ IsJoin(t, a, b)
  BY <1>1, Joined
<1>3. PICK m \in Nat, n \in Nat : m = Len(a) /\ n = Len(b)
  OBVIOUS
<1>4. Len(t) = m + n /\ (\A i \in 1..m : t[i] = a[i]) /\ (\A i \in 1..n : t[m + i] = b[i])
  BY <1>2, <1>3 DEF IsJoin
<1>5. PICK u : u = Listing(t)
  OBVIOUS
<1>6. PICK v : v = Listing(a)
  OBVIOUS
<1>7. PICK w : w = Listing(b)
  OBVIOUS
<1>8. u \in Seq(Seq(L)) /\ Len(u) = m + n /\ (\A i \in 1..(m + n) : u[i] = t[i].lines) /\ LinesOf(t) = FlattenSeq(u)
  <2>1. u \in Seq(Seq(L)) /\ IsLines(u, t) /\ LinesOf(t) = FlattenSeq(u)
    BY <1>2, <1>4, <1>5, LinesType
  <2> QED BY <1>3, <1>4, <2>1 DEF IsLines
<1>9. v \in Seq(Seq(L)) /\ Len(v) = m /\ (\A i \in 1..m : v[i] = a[i].lines) /\ LinesOf(a) = FlattenSeq(v)
  <2>1. v \in Seq(Seq(L)) /\ IsLines(v, a) /\ LinesOf(a) = FlattenSeq(v)
    BY <1>3, <1>6, LinesType
  <2> QED BY <1>3, <1>4, <2>1 DEF IsLines
<1>10. w \in Seq(Seq(L)) /\ Len(w) = n /\ (\A i \in 1..n : w[i] = b[i].lines) /\ LinesOf(b) = FlattenSeq(w)
  <2>1. w \in Seq(Seq(L)) /\ IsLines(w, b) /\ LinesOf(b) = FlattenSeq(w)
    BY <1>3, <1>7, LinesType
  <2> QED BY <1>3, <1>4, <2>1 DEF IsLines
<1>11. PICK x : x = v \o w
  OBVIOUS
<1>12. x \in Seq(Seq(L)) /\ IsJoin(x, v, w)
  BY <1>9, <1>10, <1>11, Joined
<1>13. Len(x) = m + n /\ (\A i \in 1..m : x[i] = v[i]) /\ \A i \in 1..n : x[m + i] = w[i]
  BY <1>9, <1>10, <1>12 DEF IsJoin
<1>14. ASSUME NEW i \in 1..(m + n) PROVE u[i] = x[i]
  <2>1. i \in 1..m \/ (i - m \in 1..n /\ m + (i - m) = i)
    BY <1>3
  <2>2. CASE i \in 1..m
    <3>1. x[i] = v[i] /\ v[i] = a[i].lines /\ u[i] = t[i].lines /\ t[i] = a[i]
      BY <1>4, <1>8, <1>9, <1>13, <2>2
    <3> QED BY <3>1
  <2>3. CASE i - m \in 1..n /\ m + (i - m) = i
    <3>1. PICK j \in 1..n : j = i - m /\ m + j = i
      BY <2>3
    <3>2. x[i] = w[j] /\ w[j] = b[j].lines /\ u[i] = t[i].lines /\ t[i] = b[j]
      BY <1>4, <1>8, <1>10, <1>13, <3>1
    <3> QED BY <3>2
  <2> QED BY <2>1, <2>2, <2>3
<1>15. u = x
  BY <1>8, <1>12, <1>13, <1>14, SeqEqual
<1>16. FlattenSeq(x) = FlattenSeq(v) \o FlattenSeq(w)
  BY <1>9, <1>10, <1>11, FlatConcat
<1> QED BY <1>1, <1>8, <1>9, <1>10, <1>15, <1>16

LEMMA LinesNone == LinesOf(<<>>) = <<>>
<1>1. PICK p : p = [j \in DOMAIN <<>> |-> <<>>[j].lines]
  OBVIOUS
<1>2. p = <<>>
  BY <1>1
<1> QED BY <1>1, <1>2, FlatNone DEF LinesOf

LEMMA LinesOne ==
  ASSUME NEW L, NEW u, u.lines \in Seq(L)
  PROVE  LinesOf(<<u>>) = u.lines
<1>1. PICK x : x = <<u>>
  OBVIOUS
<1>2. x \in Seq({u}) /\ Len(x) = 1 /\ x[1] = u
  BY <1>1
<1>3. Carries({u}, L)
  BY DEF Carries
<1>4. PICK p : p = Listing(x)
  OBVIOUS
<1>5. p \in Seq(Seq(L)) /\ Len(p) = 1 /\ p[1] = u.lines /\ LinesOf(x) = FlattenSeq(p)
  <2>1. p \in Seq(Seq(L)) /\ IsLines(p, x) /\ LinesOf(x) = FlattenSeq(p)
    BY <1>2, <1>3, <1>4, LinesType
  <2> QED BY <1>2, <2>1 DEF IsLines
<1>6. PICK q : q = <<u.lines>>
  OBVIOUS
<1>7. q \in Seq(Seq(L)) /\ Len(q) = 1 /\ q[1] = u.lines
  BY <1>6
<1>8. p = q
  <2>1. \A i \in 1..Len(p) : p[i] = q[i]
    BY <1>5, <1>7
  <2> QED BY <1>5, <1>7, <2>1, SeqEqual
<1>9. FlattenSeq(q) = u.lines
  BY <1>6, FlatOne
<1> QED BY <1>1, <1>5, <1>8, <1>9

-----------------------------------------------------------------------------
(* Blocks that are not blank.                                              *)

LEMMA FlatAppend ==
  ASSUME NEW L, NEW s \in Seq(Seq(L)), NEW x \in Seq(L)
  PROVE  FlattenSeq(Append(s, x)) = FlattenSeq(s) \o x
<1>1. <<x>> \in Seq(Seq(L))
  OBVIOUS
<1>2. Append(s, x) = s \o <<x>>
  BY AppendIsConcat
<1>3. FlattenSeq(s \o <<x>>) = FlattenSeq(s) \o FlattenSeq(<<x>>)
  BY <1>1, FlatConcat
<1>4. FlattenSeq(<<x>>) = x
  BY FlatOne
<1> QED BY <1>2, <1>3, <1>4

\* The blocks that stay.
Solids(b) == Positions(b, LAMBDA block : trimBlock(block) # <<>>)

\* Dropping blank blocks drops no written line.
LEMMA SolidKeeps ==
  ASSUME NEW L, NEW b \in Seq(Seq(L))
  PROVE  NonBlank(FlattenSeq(Solid(b))) = NonBlank(FlattenSeq(b))
<1>1. PICK n \in Nat : n = Len(b) /\ DOMAIN b = 1..n /\ \A i \in 1..n : b[i] \in Seq(L)
  OBVIOUS
<1>2. PICK S : S = Solids(b)
  OBVIOUS
<1>3. PICK f : Picks(f, b, S) /\ Picked(b, S) = f[Len(b)]
  BY PickedExists
<1>4. PICK g \in [0..Len(b) -> Seq(L)] : Flats(g, b)
  BY FlatsExist
<1>5. FlattenSeq(b) = g[n] /\ Solid(b) = f[n]
  BY <1>1, <1>2, <1>3, <1>4, FlatIsLast DEF Solid, Solids
<1>6. \A k \in 0..n : f[k] \in Seq(Seq(L)) /\ g[k] \in Seq(L)
  BY <1>1, <1>3, <1>4, PicksType
<1>7. f[0] = <<>> /\ \A k \in 1..n : f[k] = IF k \in S THEN Append(f[k - 1], b[k]) ELSE f[k - 1]
  BY <1>1, <1>3 DEF Picks
<1>8. g[0] = <<>> /\ \A k \in 1..n : g[k] = g[k - 1] \o b[k]
  BY <1>1, <1>4 DEF Flats
<1> DEFINE P == {k \in 0..n : NonBlank(FlattenSeq(f[k])) = NonBlank(g[k])}
<1>9. 0 \in P
  <2>1. 0 \in 0..n
    BY <1>1
  <2> QED BY <1>7, <1>8, <2>1, FlatNone
<1>10. ASSUME NEW k \in 1..n, k - 1 \in P PROVE k \in P
  <2>1. k \in 0..n /\ k - 1 \in 0..n
    BY <1>1
  <2>2. PICK x \in Seq(Seq(L)) : x = f[k - 1]
    BY <1>6, <2>1
  <2>3. PICK y \in Seq(L) : y = g[k - 1]
    BY <1>6, <2>1
  <2>4. PICK z \in Seq(L) : z = b[k]
    BY <1>1
  <2>5. NonBlank(FlattenSeq(x)) = NonBlank(y)
    BY <1>10, <2>2, <2>3
  <2>6. NonBlank(y \o z) = NonBlank(y) \o NonBlank(z) /\ g[k] = y \o z
    BY <1>8, <2>3, <2>4, NonBlankConcat
  <2>7. CASE k \in S
    <3>1. f[k] = Append(x, z)
      BY <1>7, <2>2, <2>4, <2>7
    <3>2. FlattenSeq(Append(x, z)) = FlattenSeq(x) \o z /\ FlattenSeq(x) \in Seq(L)
      BY FlatAppend, FlatType
    <3>3. PICK u \in Seq(L) : u = FlattenSeq(x)
      BY <3>2
    <3>4. NonBlank(u \o z) = NonBlank(u) \o NonBlank(z)
      BY NonBlankConcat
    <3> QED BY <2>1, <2>5, <2>6, <3>1, <3>2, <3>3, <3>4
  <2>8. CASE k \notin S
    <3>1. f[k] = x
      BY <1>7, <2>2, <2>8
    <3>2. trimBlock(z) = <<>>
      BY <1>1, <1>2, <2>4, <2>8 DEF Solids, Positions
    <3>3. NonBlank(z) = NonBlank(<<>>)
      BY <3>2, TrimKeeps
    <3>4. NonBlank(<<>>) = <<>>
      BY PickedNone DEF NonBlank
    <3>5. PICK v \in Seq(L) : v = NonBlank(y)
      BY NonBlankType
    <3>6. v \o <<>> = v
      OBVIOUS
    <3> QED BY <2>1, <2>5, <2>6, <3>1, <3>3, <3>4, <3>5, <3>6
  <2> QED BY <2>7, <2>8
<1> HIDE DEF P
<1>11. 0..n \subseteq P
  BY <1>1, <1>9, <1>10, UpToAll
<1>12. n \in P
  BY <1>1, <1>11
<1> QED BY <1>5, <1>12 DEF P

-----------------------------------------------------------------------------
(* Fences of a part.                                                       *)

EvenFences(text) == FencesUpTo(text, Len(text)) % 2 = 0

LEMMA Evens == \A m, n \in Nat : m % 2 = 0 /\ (m + n) % 2 = 0 => n % 2 = 0
OBVIOUS

LEMMA NotOdd == \A m \in Nat : ~(m % 2 = 1) => m % 2 = 0
OBVIOUS

\* The fence lines up to a place inside a stretch are those before it and those of the stretch.
LEMMA FencesBetween ==
  ASSUME NEW s, NEW x, NEW p \in Nat, NEW q \in Nat, p <= q, Between(x, s, p, q), NEW k \in 0..(q - p)
  PROVE  FencesUpTo(s, p + k) = FencesUpTo(s, p) + FencesUpTo(x, k)
<1>1. PICK n \in Nat : n = q - p
  OBVIOUS
<1>2. \A i \in 1..n : x[i] = s[p + i]
  BY <1>1 DEF Between
<1> DEFINE P == {j \in 0..n : FencesUpTo(s, p + j) = FencesUpTo(s, p) + FencesUpTo(x, j)}
<1>3. 0 \in P
  <2>1. p + 0 = p /\ 0 \in 0..n /\ FencesUpTo(s, p) \in Nat
    BY <1>1, FencesType
  <2>2. \A j \in 1..0 : FALSE
    OBVIOUS
  <2>3. FencesUpTo(x, 0) = 0
    BY <2>2, FencesNone
  <2>4. PICK m \in Nat : m = FencesUpTo(s, p)
    BY <2>1
  <2>5. m + 0 = m
    OBVIOUS
  <2> QED BY <2>1, <2>3, <2>4, <2>5
<1>4. ASSUME NEW j \in 1..n, j - 1 \in P PROVE j \in P
  <2>1. PICK i \in Nat : i = j - 1
    OBVIOUS
  <2>2. i + 1 = j /\ p + i \in Nat /\ (p + i) + 1 = p + j /\ j \in 0..n
    BY <1>1, <2>1
  <2>3. FencesUpTo(s, (p + i) + 1) = FencesUpTo(s, p + i) + (IF isFence(s[(p + i) + 1]) THEN 1 ELSE 0)
    BY <2>2, FencesOneMore
  <2>4. FencesUpTo(x, i + 1) = FencesUpTo(x, i) + (IF isFence(x[i + 1]) THEN 1 ELSE 0)
    BY <2>1, FencesOneMore
  <2>5. x[j] = s[p + j]
    BY <1>2
  <2>6. FencesUpTo(s, p + i) = FencesUpTo(s, p) + FencesUpTo(x, i)
    BY <1>4, <2>1
  <2>7. PICK u \in Nat, v \in Nat, w \in {0, 1} : /\ u = FencesUpTo(s, p) /\ v = FencesUpTo(x, i)
                                           /\ w = IF isFence(x[j]) THEN 1 ELSE 0
    BY <2>1, FencesType
  <2>8. (u + v) + w = u + (v + w)
    OBVIOUS
  <2>9. FencesUpTo(s, p + j) = (u + v) + w
    BY <2>2, <2>3, <2>5, <2>6, <2>7
  <2>10. FencesUpTo(x, j) = v + w
    BY <2>2, <2>4, <2>7
  <2> QED BY <2>2, <2>7, <2>8, <2>9, <2>10
<1> HIDE DEF P
<1>5. 0..n \subseteq P
  BY <1>1, <1>3, <1>4, UpToAll
<1>6. k \in P
  BY <1>1, <1>5
<1> QED BY <1>6 DEF P

\* A stretch between two places with an even number of fence lines before them has an even number.
LEMMA RunEven ==
  ASSUME NEW L, NEW s \in Seq(L), NEW S, NEW x, NEW a \in Nat, NEW e \in 0..Len(s), Run(x, s, S, a, e),
         FencesUpTo(s, a) % 2 = 0, FencesUpTo(s, e) % 2 = 0
  PROVE  EvenFences(x)
<1>1. a < e /\ x = SubSeq(s, a + 1, e) /\ e \in Nat /\ a <= e /\ e <= Len(s)
  BY DEF Run
<1>2. Between(x, s, a, e)
  BY <1>1, BetweenIs
<1>3. PICK n \in Nat : n = e - a
  BY <1>1
<1>4. Len(x) = n /\ n \in 0..(e - a) /\ a + n = e
  BY <1>1, <1>2, <1>3 DEF Between
<1>5. FencesUpTo(s, a + n) = FencesUpTo(s, a) + FencesUpTo(x, n)
  BY <1>1, <1>2, <1>4, FencesBetween
<1>6. PICK u \in Nat, v \in Nat : u = FencesUpTo(s, a) /\ v = FencesUpTo(x, n)
  BY FencesType
<1>7. u % 2 = 0 /\ (u + v) % 2 = 0
  BY <1>4, <1>5, <1>6
<1>8. v % 2 = 0
  BY <1>7, Evens
<1> QED BY <1>4, <1>6, <1>8 DEF EvenFences

\* No block begins inside a fence.
CutsEven(s, S) == \A i \in 1..Len(s) : i \in S => FencesUpTo(s, i - 1) % 2 = 0

\* Cut where no fence is open, a text with matching fences has blocks with matching fences.
LEMMA BlocksEven ==
  ASSUME NEW L, NEW s \in Seq(L), NEW S, CutsEven(s, S), EvenFences(s), NEW i \in 1..Len(Blocks(s, S))
  PROVE  EvenFences(Blocks(s, S)[i])
<1>1. PICK a \in 0..Len(s), e \in 0..Len(s) :
        Run(Blocks(s, S)[i], s, S, a, e) /\ (e = Len(s) \/ e + 1 \in S)
  BY BlockIs
<1>2. a \in Nat /\ e \in Nat /\ Len(s) \in Nat /\ a < e /\ (a = 0 \/ a + 1 \in S)
  BY <1>1 DEF Run
<1>3. FencesUpTo(s, a) % 2 = 0
  <2>1. CASE a = 0
    <3>1. \A j \in 1..0 : FALSE
      OBVIOUS
    <3>2. FencesUpTo(s, 0) = 0
      BY <3>1, FencesNone
    <3> QED BY <2>1, <3>2
  <2>2. CASE a + 1 \in S
    <3>1. PICK j \in 1..Len(s) : j = a + 1
      BY <1>2
    <3>2. j - 1 = a /\ j \in S
      BY <1>2, <2>2, <3>1
    <3> QED BY <3>2 DEF CutsEven
  <2> QED BY <1>2, <2>1, <2>2
<1>4. FencesUpTo(s, e) % 2 = 0
  <2>1. CASE e = Len(s)
    BY <2>1 DEF EvenFences
  <2>2. CASE e + 1 \in S /\ e # Len(s)
    <3>1. PICK j \in 1..Len(s) : j = e + 1
      BY <1>2, <2>2
    <3>2. j - 1 = e /\ j \in S
      BY <1>2, <2>2, <3>1
    <3> QED BY <3>2 DEF CutsEven
  <2> QED BY <1>1, <2>1, <2>2
<1> QED BY <1>1, <1>2, <1>3, <1>4, RunEven

\* Trimming takes no fence line.
LEMMA TrimEven ==
  ASSUME NEW L, NEW s \in Seq(L), EvenFences(s)
  PROVE  EvenFences(trimBlock(s))
<1>1. CASE trimBlock(s) = <<>>
  <2>1. FencesUpTo(<<>>, 0) = 0
    <3>1. \A j \in 1..0 : FALSE
      OBVIOUS
    <3> QED BY <3>1, FencesNone
  <2> QED BY <1>1, <2>1 DEF EvenFences
<1>2. CASE \E m, k : Edges(s, m, k) /\ trimBlock(s) = SubSeq(s, m, k)
  <2>1. PICK m, k : Edges(s, m, k) /\ trimBlock(s) = SubSeq(s, m, k)
    BY <1>2
  <2>2. PICK n \in Nat : n = Len(s)
    OBVIOUS
  <2>3. /\ m \in 1..n /\ k \in m..n
        /\ (\A i \in 1..(m - 1) : isBlank(s[i])) /\ \A i \in (k + 1)..n : isBlank(s[i])
    BY <2>1, <2>2 DEF Edges
  <2>4. PICK p \in Nat : p = m - 1
    BY <2>3
  <2>5. p + 1 = m /\ p <= k /\ k <= n /\ p < k /\ k \in Nat /\ k \in 0..n
    BY <2>2, <2>3, <2>4
  <2>6. Run(SubSeq(s, m, k), s, {m}, p, k)
    <3>1. \A j \in (p + 2)..k : j \notin {m}
      BY <2>5
    <3> QED BY <2>5, <3>1 DEF Run
  <2>7. FencesUpTo(s, p) = 0
    <3>1. \A j \in 1..p : ~isFence(s[j])
      BY <2>3, <2>4 DEF isFence, isBlank, Blank, Fence
    <3> QED BY <3>1, FencesNone
  <2>8. FencesUpTo(s, n) = FencesUpTo(s, k)
    <3>1. PICK y : y = SubSeq(s, k + 1, n)
      OBVIOUS
    <3>2. Between(y, s, k, n)
      BY <2>2, <2>5, <3>1, BetweenIs
    <3>3. \A j \in 1..(n - k) : ~isFence(y[j])
      <4>1. \A j \in 1..(n - k) : y[j] = s[k + j] /\ k + j \in (k + 1)..n
        BY <2>2, <2>5, <3>2 DEF Between
      <4> QED BY <2>3, <4>1 DEF isFence, isBlank, Blank, Fence
    <3>4. FencesUpTo(y, n - k) = 0
      BY <3>3, FencesNone
    <3>5. PICK d \in 0..(n - k) : d = n - k /\ k + d = n
      BY <2>2, <2>5
    <3>6. FencesUpTo(s, k + d) = FencesUpTo(s, k) + FencesUpTo(y, d)
      BY <2>2, <2>5, <3>2, FencesBetween
    <3>7. PICK u \in Nat : u = FencesUpTo(s, k)
      BY <2>5, FencesType
    <3>8. u + 0 = u
      OBVIOUS
    <3> QED BY <3>4, <3>5, <3>6, <3>7, <3>8
  <2>9. FencesUpTo(s, k) % 2 = 0 /\ FencesUpTo(s, p) % 2 = 0
    BY <2>2, <2>7, <2>8 DEF EvenFences
  <2>10. k \in 0..Len(s)
    BY <2>2, <2>5
  <2> QED BY <2>1, <2>6, <2>9, <2>10, RunEven
<1> QED BY <1>1, <1>2, TrimIs

\* The body of a section.
IsHeading(l) == l \in Headings

\* A heading is no fence, not blank, and not the absence of a heading.
LEMMA HeadingsAre ==
  ASSUME NEW l, IsHeading(l)
  PROVE  ~isFence(l) /\ ~isBlank(l) /\ l # NoHeading
BY DEF IsHeading, Headings, Critical, isFence, isBlank, stripped, Blank, Fence, NoHeading, Echo

\* A section without a heading is its body; with one, the body is the rest.
LEMMA BodyIs ==
  ASSUME NEW L, NEW s \in Seq(L), Len(s) >= 1
  PROVE  \/ ~IsHeading(s[1]) /\ HeadingOf(s) = NoHeading /\ Body(s) = s
         \/ /\ IsHeading(s[1]) /\ HeadingOf(s) = s[1] /\ HeadingOf(s) # NoHeading
            /\ Body(s) = Tail(s) /\ Tail(s) = SubSeq(s, 2, Len(s)) /\ Tail(s) \in Seq(L)
<1>1. CASE ~IsHeading(s[1])
  BY <1>1 DEF IsHeading, HeadingOf, Body
<1>2. CASE IsHeading(s[1])
  <2>1. HeadingOf(s) = s[1] /\ HeadingOf(s) # NoHeading
    BY <1>2, HeadingsAre DEF IsHeading, HeadingOf
  <2>2. Body(s) = Tail(s)
    BY <2>1 DEF Body
  <2>3. s # <<>>
    OBVIOUS
  <2>4. Tail(s) \in Seq(L)
    BY <2>3
  <2>5. Tail(s) = SubSeq(s, 2, Len(s))
    BY <2>3, TailIsSubSeq
  <2> QED BY <1>2, <2>1, <2>2, <2>4, <2>5
<1> QED BY <1>1, <1>2

\* A body is as well fenced as its section: a heading is no fence.
LEMMA BodyWellFenced ==
  ASSUME NEW L, NEW s \in Seq(L), Len(s) >= 1, WellFenced(s)
  PROVE  WellFenced(Body(s))
<1>1. CASE Body(s) = s
  BY <1>1
<1>2. CASE IsHeading(s[1]) /\ Body(s) = Tail(s) /\ Tail(s) = SubSeq(s, 2, Len(s)) /\ Tail(s) \in Seq(L)
  <2>1. PICK t \in Seq(L) : t = Tail(s)
    BY <1>2
  <2>2. PICK n \in Nat : n = Len(s) /\ 1 <= n /\ DOMAIN s = 1..n
    OBVIOUS
  <2>3. Between(t, s, 1, n)
    <3>1. 1 \in Nat /\ 1 + 1 = 2 /\ 1 <= n /\ n <= Len(s)
      BY <2>2
    <3> QED BY <1>2, <2>1, <2>2, <3>1, BetweenIs
  <2>4. Len(t) = n - 1 /\ DOMAIN t = 1..(n - 1) /\ \A i \in 1..(n - 1) : t[i] = s[1 + i]
    BY <2>1, <2>3 DEF Between
  <2>5. ~isFence(s[1])
    BY <1>2, HeadingsAre
  <2>6. FencesUpTo(s, 1) = 0
    <3>1. \A j \in 1..1 : ~isFence(s[j])
      BY <2>5
    <3> QED BY <3>1, FencesNone
  <2>7. ASSUME NEW k \in 0..(n - 1) PROVE FencesUpTo(t, k) = FencesUpTo(s, 1 + k)
    <3>1. 1 \in Nat /\ 1 <= n /\ k \in Nat
      BY <2>2
    <3>2. FencesUpTo(s, 1 + k) = FencesUpTo(s, 1) + FencesUpTo(t, k)
      BY <2>3, <3>1, FencesBetween
    <3>3. PICK u \in Nat : u = FencesUpTo(t, k)
      BY <3>1, FencesType
    <3>4. 0 + u = u
      OBVIOUS
    <3> QED BY <2>6, <3>2, <3>3, <3>4
  <2>8. FencesUpTo(t, Len(t)) % 2 = 0
    <3>1. PICK k \in 0..(n - 1) : k = n - 1 /\ 1 + k = n
      BY <2>2
    <3>2. FencesUpTo(s, n) % 2 = 0
      BY <2>2 DEF WellFenced
    <3> QED BY <2>4, <2>7, <3>1, <3>2
  <2>9. ASSUME NEW i \in DOMAIN t PROVE ~(FencedAt(t, i) /\ (isBlank(t[i]) \/ t[i] \in Bullets))
    <3>1. i \in 1..(n - 1)
      BY <2>4
    <3>a. PICK j \in 1..n : j = 1 + i
      BY <2>2, <3>1
    <3>b. j \in DOMAIN s
      BY <2>2
    <3>c. j - 1 = 1 + (i - 1) /\ i - 1 \in 0..(n - 1)
      BY <2>2, <3>1, <3>a
    <3>2. j = 1 + i /\ j \in DOMAIN s /\ j - 1 = 1 + (i - 1) /\ i - 1 \in 0..(n - 1)
      BY <3>a, <3>b, <3>c
    <3>3. t[i] = s[j]
      BY <2>4, <3>1, <3>2
    <3>4. FencedAt(t, i) => FencedAt(s, j)
      BY <2>7, <3>2 DEF FencedAt
    <3>5. ~(FencedAt(s, j) /\ (isBlank(s[j]) \/ s[j] \in Bullets))
      BY <3>2 DEF WellFenced
    <3> QED BY <3>3, <3>4, <3>5
  <2>10. WellFenced(t)
    BY <2>8, <2>9 DEF WellFenced
  <2> QED BY <1>2, <2>1, <2>10
<1> QED BY <1>1, <1>2, BodyIs

\* Paragraphs, bullets and fences divide outside fences.
LEMMA ParagraphCuts ==
  ASSUME NEW L, NEW s \in Seq(L), WellFenced(s), NEW B, B = Positions(s, isBlank)
  PROVE  CutsEven(s, B \cup {i + 1 : i \in B})
<1>1. PICK n \in Nat : n = Len(s) /\ DOMAIN s = 1..n
  OBVIOUS
<1>2. \A i \in B : i \in 1..n /\ isBlank(s[i])
  BY <1>1 DEF Positions
<1>a. \A i \in B : i \in 1..n /\ i \in Int /\ i - 1 \in Nat
  <2>1. \A i \in 1..n : i \in Int /\ i - 1 \in Nat
    BY <1>1
  <2> QED BY <1>2, <2>1
<1>3. ASSUME NEW i \in B PROVE FencesUpTo(s, i - 1) % 2 = 0
  <2>1. ~FencedAt(s, i)
    BY <1>1, <1>2 DEF WellFenced
  <2>2. PICK j \in Nat : j = i - 1
    BY <1>a
  <2>3. PICK u \in Nat : u = FencesUpTo(s, j)
    BY FencesType
  <2>4. ~(u % 2 = 1)
    BY <2>1, <2>2, <2>3 DEF FencedAt
  <2> QED BY <2>2, <2>3, <2>4, NotOdd
<1>4. ASSUME NEW i \in B PROVE FencesUpTo(s, i) % 2 = 0
  <2>a. PICK j \in Nat : j = i - 1
    BY <1>a
  <2>b. i \in Int
    BY <1>a
  <2>1. j \in Nat /\ j = i - 1 /\ j + 1 = i
    BY <2>a, <2>b
  <2>2. FencesUpTo(s, j + 1) = FencesUpTo(s, j) + (IF isFence(s[j + 1]) THEN 1 ELSE 0)
    BY FencesOneMore
  <2>3. ~isFence(s[i])
    BY <1>2 DEF isFence, isBlank, Blank, Fence
  <2>4. PICK u \in Nat : u = FencesUpTo(s, j)
    BY FencesType
  <2>5. u + 0 = u
    OBVIOUS
  <2>6. FencesUpTo(s, i) = FencesUpTo(s, i - 1)
    BY <2>1, <2>2, <2>3, <2>4, <2>5
  <2> QED BY <1>3, <2>6
<1>5. ASSUME NEW i \in 1..n, i \in {j + 1 : j \in B} PROVE FencesUpTo(s, i - 1) % 2 = 0
  <2>1. PICK j \in B : i = j + 1
    BY <1>5
  <2>a. j \in Int
    BY <1>a
  <2>2. i - 1 = j
    BY <2>1, <2>a
  <2> QED BY <1>4, <2>2
<1> QED BY <1>1, <1>3, <1>5 DEF CutsEven

\* A bullet is outside the fences of a well fenced text.
LEMMA BulletCuts ==
  ASSUME NEW L, NEW s \in Seq(L), WellFenced(s)
  PROVE  CutsEven(s, Positions(s, LAMBDA l : l \in Bullets))
<1>1. PICK n \in Nat : n = Len(s) /\ DOMAIN s = 1..n
  OBVIOUS
<1>2. ASSUME NEW i \in 1..n, s[i] \in Bullets PROVE FencesUpTo(s, i - 1) % 2 = 0
  <2>1. ~FencedAt(s, i)
    BY <1>1, <1>2 DEF WellFenced
  <2>2. PICK j \in Nat : j = i - 1
    BY <1>1
  <2>3. PICK u \in Nat : u = FencesUpTo(s, j)
    BY FencesType
  <2>4. ~(u % 2 = 1)
    BY <2>1, <2>2, <2>3 DEF FencedAt
  <2> QED BY <2>2, <2>3, <2>4, NotOdd
<1> QED BY <1>1, <1>2 DEF CutsEven, Positions

\* The positions behind closing fences.
BehindFences(s) == {i + 1 : i \in {j \in Positions(s, isFence) : FencesUpTo(s, j) % 2 = 0}}

\* Behind a closing fence line none is open.
LEMMA FenceCuts ==
  ASSUME NEW L, NEW s \in Seq(L)
  PROVE  CutsEven(s, BehindFences(s))
<1>1. PICK n \in Nat : n = Len(s) /\ DOMAIN s = 1..n
  OBVIOUS
<1>2. ASSUME NEW i \in 1..n, i \in BehindFences(s) PROVE FencesUpTo(s, i - 1) % 2 = 0
  <2>1. PICK j \in 1..n : i = j + 1 /\ FencesUpTo(s, j) % 2 = 0
    BY <1>1, <1>2 DEF BehindFences, Positions
  <2>2. i - 1 = j
    BY <1>1, <2>1
  <2> QED BY <2>1, <2>2
<1> QED BY <1>1, <1>2 DEF CutsEven

-----------------------------------------------------------------------------
(* Characters.                                                             *)

LineSet == DOMAIN Width

LEMMA CharsAre ==
  ASSUME NEW t \in Seq(LineSet), NEW w, w = [i \in DOMAIN t |-> Width[t[i]]]
  PROVE  w \in Seq(Nat) /\ Len(w) = Len(t) /\ Chars(t) = Total(w) + Len(t) - 1 /\ Total(w) \in Nat
<1>1. PICK n \in Nat : n = Len(t) /\ DOMAIN t = 1..n /\ \A i \in 1..n : t[i] \in LineSet
  OBVIOUS
<1>2. w \in [1..n -> Nat]
  BY <1>1, WidthAssumption DEF LineSet
<1>3. w \in Seq(Nat) /\ Len(w) = n
  BY <1>1, <1>2
<1>4. Total(w) \in Nat
  BY <1>3, TotalNat
<1> QED BY <1>1, <1>3, <1>4 DEF Chars

LEMMA CharsType ==
  ASSUME NEW t \in Seq(LineSet)
  PROVE  Chars(t) \in Int /\ (Len(t) >= 1 => Chars(t) \in Nat)
<1>1. PICK w : w = [i \in DOMAIN t |-> Width[t[i]]]
  OBVIOUS
<1>2. Chars(t) = Total(w) + Len(t) - 1 /\ Total(w) \in Nat
  BY <1>1, CharsAre
<1>3. PICK k \in Nat, n \in Nat : k = Total(w) /\ n = Len(t)
  BY <1>2
<1> QED BY <1>2, <1>3

\* A text without its first line is no longer than with it.
LEMMA CharsTail ==
  ASSUME NEW t \in Seq(LineSet), Len(t) >= 1
  PROVE  Chars(Tail(t)) <= Chars(t)
<1>1. PICK n \in Nat : n = Len(t) /\ 1 <= n /\ DOMAIN t = 1..n
  OBVIOUS
<1>2. PICK u : u = Tail(t)
  OBVIOUS
<1>3. u \in Seq(LineSet) /\ Len(u) = n - 1 /\ \A i \in 1..(n - 1) : u[i] = t[i + 1]
  <2>1. t # <<>>
    BY <1>1
  <2> QED BY <1>1, <1>2, <2>1, HeadTailProperties
<1>4. PICK v : v = [i \in DOMAIN t |-> Width[t[i]]]
  OBVIOUS
<1>5. PICK w : w = [i \in DOMAIN u |-> Width[u[i]]]
  OBVIOUS
<1>6. v \in Seq(Nat) /\ Len(v) = n /\ Chars(t) = Total(v) + n - 1 /\ Total(v) \in Nat
  BY <1>1, <1>4, CharsAre
<1>7. w \in Seq(Nat) /\ Len(w) = n - 1 /\ Chars(u) = Total(w) + (n - 1) - 1 /\ Total(w) \in Nat
  BY <1>3, <1>5, CharsAre
<1>8. Precedes(v, w, v[1])
  <2>1. ASSUME NEW i \in 1..(n - 1) PROVE w[i] = v[1 + i]
    <3>1. 1 + i \in 1..n /\ i + 1 = 1 + i /\ i \in DOMAIN u
      BY <1>1, <1>3
    <3> QED BY <1>1, <1>3, <1>4, <1>5, <3>1
  <2>2. n = (n - 1) + 1
    BY <1>1
  <2> QED BY <1>6, <1>7, <2>1, <2>2 DEF Precedes
<1>9. Total(v) = v[1] + Total(w)
  BY <1>6, <1>7, <1>8, TotalCons
<1>10. PICK x \in Nat, y \in Nat : x = v[1] /\ y = Total(w)
  BY <1>1, <1>6, <1>7
<1>11. Chars(t) = (x + y) + n - 1 /\ Chars(u) = y + (n - 1) - 1
  BY <1>6, <1>7, <1>9, <1>10
<1>12. y + (n - 1) - 1 <= (x + y) + n - 1
  BY <1>1
<1> QED BY <1>2, <1>11, <1>12

-----------------------------------------------------------------------------
(* Units.                                                                  *)

Most(cap) == IF cap > MarkerWidth THEN cap ELSE MarkerWidth

\* What a segment is made of: a unit is truncated only over the cap, and whole
\* it has whole fences, if the fences of its section are whole.
Units(cap, even) ==
  {u \in [lines : Seq(LineSet), size : Int, cut : BOOLEAN] :
     /\ u.size <= Most(cap)
     /\ u.cut => Chars(u.lines) > cap
     /\ even => u.cut \/ EvenFences(u.lines)}

PackUnits(cap, even) == {u \in Units(cap, even) : u.size \in Nat}

\* Texts a unit is made of.
Pieces(even) == {x \in Seq(LineSet) : Len(x) >= 1 /\ (even => EvenFences(x))}

LEMMA Carried ==
  ASSUME NEW cap, NEW even
  PROVE  Carries(Units(cap, even), LineSet) /\ Carries(PackUnits(cap, even), LineSet)
BY DEF Carries, Units, PackUnits

\* The room of a truncation covers its marker.
LEMMA AtMost ==
  ASSUME NEW cap \in Nat
  PROVE  /\ Most(cap) \in Nat /\ cap <= Most(cap) /\ MarkerWidth <= Most(cap)
         /\ MarkerWidth \in Nat /\ MarkerRoom \in Nat /\ HeaderOverhead \in Nat /\ ContWidth \in Nat
         /\ ContWidth < HeaderOverhead /\ MarkerWidth < MarkerRoom
<1>1. /\ MarkerWidth \in Nat /\ MarkerRoom \in Nat /\ HeaderOverhead \in Nat /\ ContWidth \in Nat
      /\ ContWidth < HeaderOverhead /\ MarkerWidth < MarkerRoom
  BY WidthAssumption
<1> QED BY <1>1 DEF Most

LEMMA AllowanceType ==
  ASSUME NEW h \in LineSet \cup {NoHeading}
  PROVE  headerAllowance(h) \in Nat
<1>1. HeaderOverhead \in Nat /\ \A l \in LineSet : Width[l] \in Nat
  BY WidthAssumption DEF LineSet
<1>2. h # NoHeading => h \in LineSet
  OBVIOUS
<1> QED BY <1>1, <1>2 DEF headerAllowance

\* A text that keeps to the cap is a unit as it is.
LEMMA UnitGood ==
  ASSUME NEW cap \in Nat, NEW even \in BOOLEAN, NEW x \in Pieces(even), Chars(x) <= cap
  PROVE  Unit(x) \in PackUnits(cap, even) /\ Unit(x).lines = x
<1>1. x \in Seq(LineSet) /\ Len(x) >= 1 /\ (even => EvenFences(x))
  BY DEF Pieces
<1>2. PICK n \in Nat : n = Chars(x)
  BY <1>1, CharsType
<1>3. n <= Most(cap)
  BY <1>2, AtMost
<1> QED BY <1>1, <1>2, <1>3 DEF Unit, PackUnits, Units

\* A text that does not is cut down, and then keeps to the cap or is the bare marker.
LEMMA FitUnitGood ==
  ASSUME NEW cap \in Nat, NEW even \in BOOLEAN, NEW x \in Pieces(even),
         NEW h \in LineSet \cup {NoHeading}
  PROVE  FitUnit(x, cap, h) \in PackUnits(cap, even) /\ FitUnit(x, cap, h).lines = x
<1>1. x \in Seq(LineSet) /\ Len(x) >= 1 /\ (even => EvenFences(x)) /\ Chars(x) \in Int
  BY CharsType DEF Pieces
<1>2. CASE Chars(x) <= cap
  BY <1>2, UnitGood DEF FitUnit
<1>3. CASE ~(Chars(x) <= cap)
  <2>1. PICK a \in Nat : a = headerAllowance(h)
    BY AllowanceType
  <2>2. PICK c : c = IF cap - a > 1 THEN cap - a ELSE 1
    OBVIOUS
  <2>3. FitUnit(x, cap, h) = hardTruncateText(x, c)
    BY <1>3, <2>1, <2>2 DEF FitUnit
  <2>4. PICK k : k = IF c > MarkerRoom THEN c - MarkerRoom ELSE 0
    OBVIOUS
  <2>5. PICK z : z = MarkerWidth + (IF k > 0 THEN k + 1 ELSE 0)
    OBVIOUS
  <2>6. c \in Nat /\ 1 <= c /\ (c <= cap \/ c = 1)
    BY <2>2
  <2>7. z \in Nat /\ z <= Most(cap)
    <3>1. /\ Most(cap) \in Nat /\ cap <= Most(cap) /\ MarkerWidth <= Most(cap)
          /\ MarkerWidth \in Nat /\ MarkerRoom \in Nat /\ MarkerWidth < MarkerRoom
      BY AtMost
    <3>2. CASE c > MarkerRoom
      <4>1. k = c - MarkerRoom /\ k > 0 /\ c <= cap
        BY <2>4, <2>6, <3>1, <3>2
      <4>2. z = MarkerWidth + ((c - MarkerRoom) + 1)
        BY <2>5, <4>1
      <4> QED BY <2>6, <3>1, <3>2, <4>1, <4>2
    <3>3. CASE ~(c > MarkerRoom)
      <4>1. k = 0
        BY <2>4, <3>3
      <4>2. z = MarkerWidth
        BY <2>5, <3>1, <4>1
      <4> QED BY <3>1, <4>2
    <3> QED BY <3>2, <3>3
  <2>8. FitUnit(x, cap, h) = [lines |-> x, cut |-> TRUE, size |-> z]
    BY <2>3, <2>4, <2>5 DEF hardTruncateText
  <2>9. Chars(x) > cap
    BY <1>1, <1>3
  <2>10. [lines |-> x, cut |-> TRUE, size |-> z] \in PackUnits(cap, even)
    BY <1>1, <2>7, <2>9 DEF PackUnits, Units
  <2> QED BY <2>8, <2>10
<1> QED BY <1>2, <1>3

\* Every text in a unit of its own.
FitAll(blocks, cap, h) == [i \in DOMAIN blocks |-> FitUnit(blocks[i], cap, h)]

\* Each text fitted, and nothing lost but to truncation.
LEMMA FitAllGood ==
  ASSUME NEW cap \in Nat, NEW even \in BOOLEAN, NEW h \in LineSet \cup {NoHeading},
         NEW blocks \in Seq(Pieces(even))
  PROVE  /\ FitAll(blocks, cap, h) \in Seq(PackUnits(cap, even))
         /\ LinesOf(FitAll(blocks, cap, h)) = FlattenSeq(blocks)
<1>1. PICK n \in Nat : n = Len(blocks) /\ DOMAIN blocks = 1..n /\ \A i \in 1..n : blocks[i] \in Pieces(even)
  OBVIOUS
<1>2. PICK u : u = FitAll(blocks, cap, h)
  OBVIOUS
<1>3. \A i \in 1..n : FitUnit(blocks[i], cap, h) \in PackUnits(cap, even)
                      /\ FitUnit(blocks[i], cap, h).lines = blocks[i]
  BY <1>1, FitUnitGood
<1>4. u \in [1..n -> PackUnits(cap, even)] /\ \A i \in 1..n : u[i].lines = blocks[i]
  BY <1>1, <1>2, <1>3 DEF FitAll
<1>5. u \in Seq(PackUnits(cap, even)) /\ Len(u) = n
  BY <1>1, <1>4
<1>6. PICK p : p = Listing(u)
  OBVIOUS
<1>7. p \in Seq(Seq(LineSet)) /\ IsLines(p, u) /\ LinesOf(u) = FlattenSeq(p)
  BY <1>5, <1>6, Carried, LinesType
<1>8. Len(p) = n /\ \A i \in 1..n : p[i] = blocks[i]
  BY <1>4, <1>5, <1>7 DEF IsLines
<1>9. p = blocks
  BY <1>1, <1>7, <1>8, SeqEqual
<1> QED BY <1>2, <1>5, <1>7, <1>9

LEMMA PickedInto ==
  ASSUME NEW L, NEW s \in Seq(L), NEW S, NEW M, \A i \in 1..Len(s) : i \in S => s[i] \in M
  PROVE  Picked(s, S) \in Seq(M)
<1>1. PICK f : Picks(f, s, S) /\ Picked(s, S) = f[Len(s)]
  BY PickedExists
<1>2. Len(s) \in Nat
  OBVIOUS
<1> DEFINE P == {k \in 0..Len(s) : f[k] \in Seq(M)}
<1>3. 0 \in P
  <2>1. f[0] = <<>> /\ <<>> \in Seq(M)
    BY <1>1 DEF Picks
  <2>2. 0 \in 0..Len(s)
    BY <1>2
  <2> QED BY <2>1, <2>2
<1>4. ASSUME NEW k \in 1..Len(s), k - 1 \in P PROVE k \in P
  <2>1. f[k] = IF k \in S THEN Append(f[k - 1], s[k]) ELSE f[k - 1]
    BY <1>1 DEF Picks
  <2>2. f[k - 1] \in Seq(M) /\ (k \in S => s[k] \in M) /\ k \in 0..Len(s)
    BY <1>2, <1>4
  <2>3. f[k] \in Seq(M)
    BY <2>1, <2>2
  <2> QED BY <2>2, <2>3
<1> HIDE DEF P
<1>5. 0..Len(s) \subseteq P
  BY <1>2, <1>3, <1>4, UpToAll
<1>6. Len(s) \in P
  BY <1>2, <1>5
<1> QED BY <1>1, <1>6 DEF P

\* A text divided where no fence is open.
LEMMA SplitGood ==
  ASSUME NEW even \in BOOLEAN, NEW s \in Seq(LineSet), NEW S, even => EvenFences(s) /\ CutsEven(s, S)
  PROVE  /\ Solid(Blocks(s, S)) \in Seq({x \in Pieces(even) : trimBlock(x) # <<>>})
         /\ NonBlank(FlattenSeq(Solid(Blocks(s, S)))) = NonBlank(s)
<1>1. PICK b : b = Blocks(s, S)
  OBVIOUS
<1>2. b \in Seq(Seq(LineSet))
  BY <1>1, BlocksAre
<1>3. PICK n \in Nat : n = Len(b) /\ DOMAIN b = 1..n /\ \A i \in 1..n : b[i] \in Seq(LineSet)
  BY <1>2
<1>4. ASSUME NEW i \in 1..n PROVE b[i] \in Pieces(even)
  <2>1. i \in 1..Len(Blocks(s, S))
    BY <1>1, <1>3
  <2>2. PICK a \in 0..Len(s), e \in 0..Len(s) : Run(b[i], s, S, a, e)
    BY <1>1, <2>1, BlockIs
  <2>3. Len(b[i]) >= 1
    <3>1. a < e /\ b[i] = SubSeq(s, a + 1, e) /\ a \in Nat /\ e \in Nat /\ a <= e /\ e <= Len(s)
      BY <2>2 DEF Run
    <3>2. Between(b[i], s, a, e)
      BY <3>1, BetweenIs
    <3> QED BY <3>1, <3>2 DEF Between
  <2>4. even => EvenFences(b[i])
    BY <1>1, <2>1, BlocksEven
  <2> QED BY <1>3, <2>3, <2>4 DEF Pieces
<1>5. Solid(b) \in Seq({x \in Pieces(even) : trimBlock(x) # <<>>})
  <2>1. \A i \in 1..Len(b) : i \in Solids(b) => b[i] \in {x \in Pieces(even) : trimBlock(x) # <<>>}
    BY <1>3, <1>4 DEF Solids, Positions
  <2> DEFINE M == {x \in Pieces(even) : trimBlock(x) # <<>>}
  <2>2. \A i \in 1..Len(b) : i \in Solids(b) => b[i] \in M
    BY <2>1
  <2> HIDE DEF M
  <2>3. Picked(b, Solids(b)) \in Seq(M)
    BY <1>2, <2>2, PickedInto
  <2> QED BY <2>3 DEF M, Solid, Solids
<1>6. NonBlank(FlattenSeq(Solid(b))) = NonBlank(FlattenSeq(b)) /\ FlattenSeq(b) = s
  BY <1>1, <1>2, SolidKeeps, BlocksFlat
<1> QED BY <1>1, <1>5, <1>6

-----------------------------------------------------------------------------
(* A section's units.                                                      *)

Inks == [x \in Seq(LineSet) |-> NonBlank(x)]

LEMMA InksHom == IsHom(Inks, LineSet, LineSet)
<1>1. Inks \in [Seq(LineSet) -> Seq(LineSet)]
  BY NonBlankType DEF Inks
<1>2. <<>> \in Seq(LineSet) /\ NonBlank(<<>>) = <<>>
  <2>1. <<>> \in Seq(LineSet) /\ \A i \in 1..Len(<<>>) : isBlank(<<>>[i])
    OBVIOUS
  <2> QED BY <2>1, NonBlankNone
<1>3. Inks[<<>>] = <<>>
  BY <1>2 DEF Inks
<1>4. ASSUME NEW a \in Seq(LineSet), NEW b \in Seq(LineSet) PROVE Inks[a \o b] = Inks[a] \o Inks[b]
  <2>1. a \o b \in Seq(LineSet)
    OBVIOUS
  <2>2. Inks[a \o b] = NonBlank(a \o b) /\ Inks[a] = NonBlank(a) /\ Inks[b] = NonBlank(b)
    BY <2>1 DEF Inks
  <2> QED BY <2>2, NonBlankConcat
<1> QED BY <1>1, <1>3, <1>4 DEF IsHom

SameInk(s, t) == Len(s) = Len(t) /\ \A i \in 1..Len(s) : NonBlank(s[i]) = NonBlank(t[i])

\* Texts with the same written lines, one by one, flatten to texts with the same written lines.
LEMMA FlatSameInk ==
  ASSUME NEW s \in Seq(Seq(LineSet)), NEW t \in Seq(Seq(LineSet)), SameInk(s, t)
  PROVE  NonBlank(FlattenSeq(s)) = NonBlank(FlattenSeq(t))
<1>1. PICK n \in Nat : n = Len(s) /\ n = Len(t) /\ \A i \in 1..n : s[i] \in Seq(LineSet) /\ t[i] \in Seq(LineSet)
  <2>1. Len(s) = Len(t)
    BY DEF SameInk
  <2>2. PICK n \in Nat : n = Len(s) /\ \A i \in 1..n : s[i] \in Seq(LineSet)
    OBVIOUS
  <2>3. \A i \in 1..n : t[i] \in Seq(LineSet)
    BY <2>1, <2>2
  <2> QED BY <2>1, <2>2, <2>3
<1>2. \A i \in 1..n : NonBlank(s[i]) = NonBlank(t[i])
  BY <1>1 DEF SameInk
<1>3. PICK w : w = [i \in 1..n |-> NonBlank(s[i])]
  OBVIOUS
<1>4. w \in [1..n -> Seq(LineSet)]
  BY <1>1, <1>3, NonBlankType
<1>5. w \in Seq(Seq(LineSet)) /\ Len(w) = n
  BY <1>4
<1>6. IsImage(w, Inks, s) /\ IsImage(w, Inks, t)
  <2>1. \A i \in 1..n : w[i] = Inks[s[i]] /\ w[i] = Inks[t[i]]
    BY <1>1, <1>2, <1>3 DEF Inks
  <2> QED BY <1>1, <1>5, <2>1 DEF IsImage
<1>7. FlattenSeq(w) = Inks[FlattenSeq(s)] /\ FlattenSeq(w) = Inks[FlattenSeq(t)]
  BY <1>5, <1>6, InksHom, FlatMap
<1>8. FlattenSeq(s) \in Seq(LineSet) /\ FlattenSeq(t) \in Seq(LineSet)
  BY FlatType
<1> QED BY <1>7, <1>8 DEF Inks

Reads(cap, even) == [x \in Seq(PackUnits(cap, even)) |-> NonBlank(LinesOf(x))]

\* Reading the written lines of units goes part by part.
LEMMA ReadsHom ==
  ASSUME NEW cap, NEW even
  PROVE  IsHom(Reads(cap, even), PackUnits(cap, even), LineSet)
<1>1. PICK U : U = PackUnits(cap, even) /\ Carries(U, LineSet)
  BY Carried
<1>2. PICK h : h = [x \in Seq(U) |-> NonBlank(LinesOf(x))]
  OBVIOUS
<1>3. ASSUME NEW x \in Seq(U) PROVE LinesOf(x) \in Seq(LineSet)
  BY <1>1, LinesType
<1>4. h \in [Seq(U) -> Seq(LineSet)]
  BY <1>2, <1>3, NonBlankType
<1>5. h[<<>>] = <<>>
  <2>1. <<>> \in Seq(LineSet) /\ \A i \in 1..Len(<<>>) : isBlank(<<>>[i])
    OBVIOUS
  <2>2. NonBlank(<<>>) = <<>>
    BY <2>1, NonBlankNone
  <2>3. <<>> \in Seq(U)
    OBVIOUS
  <2> QED BY <1>2, <2>2, <2>3, LinesNone
<1>6. ASSUME NEW a \in Seq(U), NEW b \in Seq(U) PROVE h[a \o b] = h[a] \o h[b]
  <2>1. a \o b \in Seq(U)
    OBVIOUS
  <2>2. h[a \o b] = NonBlank(LinesOf(a \o b)) /\ h[a] = NonBlank(LinesOf(a)) /\ h[b] = NonBlank(LinesOf(b))
    BY <1>2, <2>1
  <2>3. LinesOf(a \o b) = LinesOf(a) \o LinesOf(b)
    BY <1>1, LinesConcat
  <2> QED BY <1>3, <2>2, <2>3, NonBlankConcat
<1>7. IsHom(h, U, LineSet)
  BY <1>4, <1>5, <1>6 DEF IsHom
<1> QED BY <1>1, <1>2, <1>7 DEF Reads

\* A block of a section, in one unit or, over the cap, one for each of its pieces.
Expanded(x, cap, h) ==
  IF Chars(x) <= cap THEN <<Unit(x)>> ELSE FitAll(splitAtFences(x), cap, h)

\* A block over the cap makes good units, and they hold its written lines.
LEMMA ExpandedGood ==
  ASSUME NEW cap \in Nat, NEW even \in BOOLEAN, NEW h \in LineSet \cup {NoHeading},
         NEW x \in Pieces(even)
  PROVE  /\ Expanded(x, cap, h) \in Seq(PackUnits(cap, even))
         /\ NonBlank(LinesOf(Expanded(x, cap, h))) = NonBlank(x)
<1>1. x \in Seq(LineSet) /\ (even => EvenFences(x))
  BY DEF Pieces
<1>2. CASE Chars(x) <= cap
  <2>1. PICK u : u = Unit(x)
    OBVIOUS
  <2>2. u \in PackUnits(cap, even) /\ u.lines = x
    BY <1>2, <2>1, UnitGood
  <2>3. LinesOf(<<u>>) = x
    BY <1>1, <2>2, LinesOne
  <2>4. Expanded(x, cap, h) = <<u>>
    BY <1>2, <2>1 DEF Expanded
  <2>5. <<u>> \in Seq(PackUnits(cap, even))
    BY <2>2
  <2> QED BY <2>3, <2>4, <2>5
<1>3. CASE ~(Chars(x) <= cap)
  <2>1. PICK b : b = splitAtFences(x)
    OBVIOUS
  <2>2. b = Solid(Blocks(x, BehindFences(x)))
    BY <2>1 DEF splitAtFences, BehindFences
  <2>3. even => EvenFences(x) /\ CutsEven(x, BehindFences(x))
    BY <1>1, FenceCuts
  <2>4. /\ b \in Seq({y \in Pieces(even) : trimBlock(y) # <<>>})
        /\ NonBlank(FlattenSeq(b)) = NonBlank(x)
    BY <1>1, <2>2, <2>3, SplitGood
  <2>5. b \in Seq(Pieces(even))
    BY <2>4
  <2>6. /\ FitAll(b, cap, h) \in Seq(PackUnits(cap, even))
        /\ LinesOf(FitAll(b, cap, h)) = FlattenSeq(b)
    BY <2>5, FitAllGood
  <2>7. Expanded(x, cap, h) = FitAll(b, cap, h)
    BY <1>3, <2>1 DEF Expanded
  <2> QED BY <2>4, <2>6, <2>7
<1> QED BY <1>2, <1>3

\* So do the blocks of a body.
LEMMA ExpandGood ==
  ASSUME NEW cap \in Nat, NEW even \in BOOLEAN, NEW h \in LineSet \cup {NoHeading},
         NEW blocks \in Seq(Pieces(even))
  PROVE  /\ expandUnits(blocks, cap, h) \in Seq(PackUnits(cap, even))
         /\ NonBlank(LinesOf(expandUnits(blocks, cap, h))) = NonBlank(FlattenSeq(blocks))
<1>1. PICK n \in Nat : n = Len(blocks) /\ DOMAIN blocks = 1..n /\ \A i \in 1..n : blocks[i] \in Pieces(even)
  OBVIOUS
<1>2. \A i \in 1..n : blocks[i] \in Seq(LineSet)
  BY <1>1 DEF Pieces
<1>3. blocks \in Seq(Seq(LineSet))
  BY <1>1, <1>2
<1>4. PICK e : e = [i \in DOMAIN blocks |-> Expanded(blocks[i], cap, h)]
  OBVIOUS
<1>5. expandUnits(blocks, cap, h) = FlattenSeq(e)
  BY <1>4 DEF expandUnits, Expanded, FitAll
<1>6. \A i \in 1..n : Expanded(blocks[i], cap, h) \in Seq(PackUnits(cap, even))
                      /\ NonBlank(LinesOf(Expanded(blocks[i], cap, h))) = NonBlank(blocks[i])
  BY <1>1, ExpandedGood
<1>7. e \in [1..n -> Seq(PackUnits(cap, even))]
  BY <1>1, <1>4, <1>6
<1>8. e \in Seq(Seq(PackUnits(cap, even))) /\ Len(e) = n
  BY <1>7
<1>9. PICK w : w = [i \in 1..n |-> NonBlank(blocks[i])]
  OBVIOUS
<1>10. w \in [1..n -> Seq(LineSet)]
  BY <1>2, <1>9, NonBlankType
<1>11. w \in Seq(Seq(LineSet)) /\ Len(w) = n
  BY <1>10
<1>12. IsImage(w, Reads(cap, even), e)
  <2>1. ASSUME NEW i \in 1..n PROVE w[i] = Reads(cap, even)[e[i]]
    <3>1. e[i] \in Seq(PackUnits(cap, even)) /\ e[i] = Expanded(blocks[i], cap, h)
      BY <1>1, <1>4, <1>6
    <3>2. Reads(cap, even)[e[i]] = NonBlank(LinesOf(e[i]))
      BY <3>1 DEF Reads
    <3> QED BY <1>6, <1>9, <3>1, <3>2
  <2> QED BY <1>8, <1>11, <2>1 DEF IsImage
<1>13. IsImage(w, Inks, blocks)
  <2>1. \A i \in 1..n : w[i] = Inks[blocks[i]]
    BY <1>2, <1>9 DEF Inks
  <2> QED BY <1>1, <1>11, <2>1 DEF IsImage
<1>14. FlattenSeq(w) = Reads(cap, even)[FlattenSeq(e)]
  BY <1>8, <1>11, <1>12, ReadsHom, FlatMap
<1>15. FlattenSeq(w) = Inks[FlattenSeq(blocks)]
  BY <1>3, <1>11, <1>13, InksHom, FlatMap
<1>16. FlattenSeq(e) \in Seq(PackUnits(cap, even)) /\ FlattenSeq(blocks) \in Seq(LineSet)
  BY <1>3, <1>8, FlatType
<1>17. Reads(cap, even)[FlattenSeq(e)] = NonBlank(LinesOf(FlattenSeq(e)))
  BY <1>16 DEF Reads
<1>18. Inks[FlattenSeq(blocks)] = NonBlank(FlattenSeq(blocks))
  BY <1>16 DEF Inks
<1> QED BY <1>5, <1>14, <1>15, <1>16, <1>17, <1>18

\* Splitting at bullets keeps fences whole and the written lines.
LEMMA BulletsGood ==
  ASSUME NEW even \in BOOLEAN, NEW s \in Seq(LineSet), even => WellFenced(s)
  PROVE  /\ splitBulletBlocks(s) \in Seq(Pieces(even))
         /\ NonBlank(FlattenSeq(splitBulletBlocks(s))) = NonBlank(s)
<1>1. PICK S : S = Positions(s, LAMBDA l : l \in Bullets)
  OBVIOUS
<1>2. even => EvenFences(s) /\ CutsEven(s, S)
  BY <1>1, BulletCuts DEF WellFenced, EvenFences
<1>3. PICK b : b = Solid(Blocks(s, S))
  OBVIOUS
<1>4. /\ b \in Seq({x \in Pieces(even) : trimBlock(x) # <<>>})
      /\ NonBlank(FlattenSeq(b)) = NonBlank(s)
  BY <1>2, <1>3, SplitGood
<1>5. PICK n \in Nat : n = Len(b) /\ DOMAIN b = 1..n /\ \A i \in 1..n : b[i] \in Pieces(even) /\ trimBlock(b[i]) # <<>>
  BY <1>4
<1>6. \A i \in 1..n : b[i] \in Seq(LineSet) /\ (even => EvenFences(b[i]))
  BY <1>5 DEF Pieces
<1>7. b \in Seq(Seq(LineSet))
  BY <1>4, <1>5, <1>6
<1>8. PICK t : t = [i \in DOMAIN b |-> trimBlock(b[i])]
  OBVIOUS
<1>9. splitBulletBlocks(s) = t
  BY <1>1, <1>3, <1>8 DEF splitBulletBlocks
<1>10. ASSUME NEW i \in 1..n PROVE trimBlock(b[i]) \in Pieces(even) /\ trimBlock(b[i]) \in Seq(LineSet) /\ NonBlank(trimBlock(b[i])) = NonBlank(b[i])
  <2>1. PICK y : y = trimBlock(b[i])
    OBVIOUS
  <2>2. y \in Seq(LineSet) /\ NonBlank(y) = NonBlank(b[i])
    BY <1>6, <2>1, TrimParts, TrimKeeps
  <2>3. even => EvenFences(y)
    BY <1>6, <2>1, TrimEven
  <2>4. Len(y) >= 1
    <3>1. y # <<>>
      BY <1>5, <2>1
    <3> QED BY <2>2, <3>1
  <2> QED BY <2>1, <2>2, <2>3, <2>4 DEF Pieces
<1>11. t \in [1..n -> Pieces(even)] /\ t \in [1..n -> Seq(LineSet)] /\ \A i \in 1..n : NonBlank(t[i]) = NonBlank(b[i])
  BY <1>5, <1>8, <1>10
<1>12. t \in Seq(Pieces(even)) /\ t \in Seq(Seq(LineSet)) /\ Len(t) = n
  BY <1>11
<1>13. SameInk(t, b)
  BY <1>5, <1>11, <1>12 DEF SameInk
<1>14. NonBlank(FlattenSeq(t)) = NonBlank(FlattenSeq(b))
  BY <1>7, <1>12, <1>13, FlatSameInk
<1> QED BY <1>4, <1>9, <1>12, <1>14

\* The units a section's body makes.
BodyUnits(body, cap, h) ==
  IF \E i \in DOMAIN body : body[i] \in Bullets THEN expandUnits(splitBulletBlocks(body), cap, h)
  ELSE FitAll(splitParagraphs(body), cap, h)

\* Either way of splitting a body makes good units that hold the body's written lines.
LEMMA UnitsGood ==
  ASSUME NEW cap \in Nat, NEW even \in BOOLEAN, NEW h \in LineSet \cup {NoHeading},
         NEW s \in Seq(LineSet), even => WellFenced(s)
  PROVE  /\ BodyUnits(s, cap, h) \in Seq(PackUnits(cap, even))
         /\ NonBlank(LinesOf(BodyUnits(s, cap, h))) = NonBlank(s)
<1>1. PICK b : b = splitBulletBlocks(s)
  OBVIOUS
<1>2. b \in Seq(Pieces(even)) /\ NonBlank(FlattenSeq(b)) = NonBlank(s)
  BY <1>1, BulletsGood
<1>3. /\ expandUnits(b, cap, h) \in Seq(PackUnits(cap, even))
      /\ NonBlank(LinesOf(expandUnits(b, cap, h))) = NonBlank(s)
  BY <1>2, ExpandGood
<1>4. PICK p : p = splitParagraphs(s)
  OBVIOUS
<1>5. PICK S : S = Positions(s, isBlank) \cup {i + 1 : i \in Positions(s, isBlank)}
  OBVIOUS
<1>6. p = Solid(Blocks(s, S))
  BY <1>4, <1>5 DEF splitParagraphs
<1>7. even => EvenFences(s) /\ CutsEven(s, S)
  BY <1>5, ParagraphCuts DEF WellFenced, EvenFences
<1>8. /\ p \in Seq({x \in Pieces(even) : trimBlock(x) # <<>>})
      /\ NonBlank(FlattenSeq(p)) = NonBlank(s)
  BY <1>6, <1>7, SplitGood
<1>9. p \in Seq(Pieces(even))
  BY <1>8
<1>10. /\ FitAll(p, cap, h) \in Seq(PackUnits(cap, even))
       /\ LinesOf(FitAll(p, cap, h)) = FlattenSeq(p)
  BY <1>9, FitAllGood
<1> QED BY <1>1, <1>3, <1>4, <1>8, <1>10 DEF BodyUnits

-----------------------------------------------------------------------------
(* Chunks.                                                                 *)

HeadingSet == LineSet \cup {NoHeading}

\* The sum of one number, which may be negative: an empty body has -1 characters.
LEMMA TotalOne ==
  ASSUME NEW s, Len(s) = 1, NEW x \in Int, s[1] = x
  PROVE  Total(s) = x
<1> DEFINE D(g) == [i \in 0..Len(s) |-> IF i = 0 THEN 0 ELSE g[i - 1] + s[i]]
<1>1. PICK f : f = [i \in 0..1 |-> IF i = 0 THEN 0 ELSE x]
  OBVIOUS
<1>2. f = D(f)
  <2>1. \A i \in 0..1 : i = 0 \/ i = 1
    OBVIOUS
  <2>2. f[0] = 0 /\ f[1] = x /\ 0 + x = x
    BY <1>1
  <2>3. \A i \in 0..1 : f[i] = IF i = 0 THEN 0 ELSE f[i - 1] + s[i]
    BY <2>1, <2>2
  <2>4. f = [i \in 0..1 |-> f[i]]
    BY <1>1
  <2> QED BY <2>3, <2>4
<1>3. PICK u : u = CHOOSE g : g = D(g)
  OBVIOUS
<1>4. u = D(u)
  BY <1>2, <1>3
<1>5. u[0] = 0 /\ u[1] = u[0] + s[1]
  <2>1. 0 \in 0..Len(s) /\ 1 \in 0..Len(s) /\ 1 - 1 = 0
    OBVIOUS
  <2>2. u[0] = 0 /\ u[1] = u[1 - 1] + s[1]
    BY <1>4, <2>1
  <2> QED BY <2>1, <2>2
<1>6. Total(s) = u[1]
  BY <1>3 DEF Total
<1> QED BY <1>5, <1>6

LEMMA ChunkOne ==
  ASSUME NEW c, Len(c) = 1, DOMAIN c = 1..1, c[1].size \in Int
  PROVE  ChunkChars(c) = c[1].size
<1>1. PICK z : z = [i \in DOMAIN c |-> c[i].size]
  OBVIOUS
<1>2. Len(z) = 1 /\ z[1] = c[1].size
  <2>1. z \in [1..1 -> Int]
    BY <1>1
  <2> QED BY <1>1, <2>1
<1>3. Total(z) = c[1].size
  BY <1>2, TotalOne
<1>4. ChunkChars(c) = Total(z) + Len(c) - 1
  BY <1>1 DEF ChunkChars
<1>5. \A x \in Int : x + 1 - 1 = x
  OBVIOUS
<1> QED BY <1>3, <1>4, <1>5

LEMMA ChunkType ==
  ASSUME NEW cap, NEW even, NEW c \in Seq(PackUnits(cap, even))
  PROVE  ChunkChars(c) \in Int
<1>1. PICK n \in Nat : n = Len(c) /\ DOMAIN c = 1..n /\ \A i \in 1..n : c[i] \in PackUnits(cap, even)
  OBVIOUS
<1>2. \A i \in 1..n : c[i].size \in Nat
  BY <1>1 DEF PackUnits
<1>3. PICK z : z = [i \in DOMAIN c |-> c[i].size]
  OBVIOUS
<1>4. z \in [1..n -> Nat]
  BY <1>1, <1>2, <1>3
<1>5. z \in Seq(Nat)
  BY <1>4
<1>6. PICK t \in Nat : t = Total(z)
  BY <1>5, TotalNat
<1>7. ChunkChars(c) = t + n - 1
  BY <1>1, <1>3, <1>6 DEF ChunkChars
<1> QED BY <1>7

\* Unit i does not fit the chunk that begins at unit p.
Over(units, cap, h, p, i) == ChunkChars(SubSeq(units, p, i)) + headerAllowance(h) > cap

Begins(f, k, units, cap, h) ==
  \A i \in 1..k : f[i] = IF i = 1 \/ Over(units, cap, h, f[i - 1], i) THEN i ELSE f[i - 1]

\* There is a function that says where the chunk of each unit begins.
LEMMA BeginsExist ==
  ASSUME NEW units, NEW n \in Nat, NEW cap, NEW h
  PROVE  \E f \in [1..n -> Nat] : Begins(f, n, units, cap, h)
<1> DEFINE Upto(f, k) == f \in [1..k -> Nat] /\ Begins(f, k, units, cap, h)
           P == {k \in 0..n : \E f : Upto(f, k)}
<1>1. 0 \in P
  <2>1. PICK f : f = [i \in 1..0 |-> 0]
    OBVIOUS
  <2>2. f \in [1..0 -> Nat]
    BY <2>1
  <2>3. Begins(f, 0, units, cap, h)
    BY DEF Begins
  <2>4. Upto(f, 0)
    BY <2>2, <2>3
  <2>5. 0 \in 0..n
    OBVIOUS
  <2> HIDE DEF Upto
  <2> QED BY <2>4, <2>5
<1>2. ASSUME NEW k \in 1..n, k - 1 \in P PROVE k \in P
  <2>1. PICK f : Upto(f, k - 1)
    BY <1>2
  <2>2. k \in Nat /\ k - 1 \in Nat /\ k \in 0..n /\ 1 <= k
    OBVIOUS
  <2>3. PICK v : v = IF k = 1 \/ Over(units, cap, h, f[k - 1], k) THEN k ELSE f[k - 1]
    OBVIOUS
  <2>4. v \in Nat
    <3>1. k # 1 => k - 1 \in 1..(k - 1)
      BY <2>2
    <3>2. k # 1 => f[k - 1] \in Nat
      BY <2>1, <3>1
    <3> QED BY <2>2, <2>3, <3>2
  <2> DEFINE g == [i \in 1..k |-> IF i = k THEN v ELSE f[i]]
  <2>5. \A i \in 1..k : i = k \/ i \in 1..(k - 1)
    BY <2>2
  <2>6. g \in [1..k -> Nat]
    <3>1. \A i \in 1..(k - 1) : f[i] \in Nat
      BY <2>1
    <3> QED BY <2>4, <2>5, <3>1
  <2>7. g[k] = v /\ \A i \in 1..(k - 1) : g[i] = f[i]
    <3>1. k \in 1..k /\ \A i \in 1..(k - 1) : i \in 1..k /\ i # k
      BY <2>2
    <3> QED BY <3>1
  <2> HIDE DEF g
  <2>8. ASSUME NEW i \in 1..k
        PROVE  g[i] = IF i = 1 \/ Over(units, cap, h, g[i - 1], i) THEN i ELSE g[i - 1]
    <3>1. i = 1 \/ i - 1 \in 1..(k - 1)
      BY <2>2
    <3>2. i = 1 \/ g[i - 1] = f[i - 1]
      BY <2>7, <3>1
    <3>3. CASE i = k
      BY <2>3, <2>7, <3>2, <3>3
    <3>4. CASE i \in 1..(k - 1)
      <4>1. f[i] = IF i = 1 \/ Over(units, cap, h, f[i - 1], i) THEN i ELSE f[i - 1]
        BY <2>1, <3>4 DEF Begins
      <4> QED BY <2>7, <3>2, <3>4, <4>1
    <3> QED BY <2>5, <3>3, <3>4
  <2>9. Upto(g, k)
    BY <2>6, <2>8 DEF Begins
  <2> HIDE DEF Upto
  <2> QED BY <2>2, <2>9
<1> HIDE DEF P
<1>3. 0..n \subseteq P
  BY <1>1, <1>2, UpToAll
<1>4. n \in P
  BY <1>3
<1> QED BY <1>4 DEF P

\* The units that begin a chunk.
Heads(f, units) == {i \in DOMAIN units : f[i] = i}

Numbered(h, chunks) == [i \in DOMAIN chunks |-> [heading |-> h, of |-> Len(chunks), chunk |-> chunks[i]]]

\* packChunks cuts the units where that function says.
LEMMA PackIs ==
  ASSUME NEW U, NEW units \in Seq(U), NEW cap, NEW h
  PROVE  \E f : /\ Begins(f, Len(units), units, cap, h)
                /\ packChunks(units, cap, h) = Numbered(h, Blocks(units, Heads(f, units)))
<1> DEFINE D(g) == [i \in DOMAIN units |->
              IF i = 1 \/ ChunkChars(SubSeq(units, g[i - 1], i)) + headerAllowance(h) > cap THEN i ELSE g[i - 1]]
<1>1. PICK n \in Nat : n = Len(units) /\ DOMAIN units = 1..n
  OBVIOUS
<1>2. PICK f \in [1..n -> Nat] : Begins(f, n, units, cap, h)
  BY BeginsExist
<1>3. f = D(f)
  <2>1. \A i \in 1..n : f[i] = IF i = 1 \/ ChunkChars(SubSeq(units, f[i - 1], i)) + headerAllowance(h) > cap
                               THEN i ELSE f[i - 1]
    BY <1>2 DEF Begins, Over
  <2>2. f = [i \in 1..n |-> f[i]]
    OBVIOUS
  <2> QED BY <1>1, <2>1, <2>2
<1>4. PICK u : u = CHOOSE g : g = D(g)
  OBVIOUS
<1>5. u = D(u)
  BY <1>3, <1>4
<1>6. Begins(u, n, units, cap, h)
  <2> SUFFICES ASSUME NEW i \in 1..n
               PROVE  u[i] = IF i = 1 \/ Over(units, cap, h, u[i - 1], i) THEN i ELSE u[i - 1]
    BY DEF Begins
  <2>1. u[i] = D(u)[i]
    BY <1>5
  <2> QED BY <1>1, <2>1 DEF Over
<1>7. packChunks(units, cap, h) = Numbered(h, Blocks(units, Heads(u, units)))
  BY <1>4 DEF packChunks, Numbered, Heads
<1> QED BY <1>1, <1>6, <1>7

\* A chunk of several units was measured, with its header, from its beginning to its last unit.
LEMMA RunFits ==
  ASSUME NEW U, NEW units \in Seq(U), NEW cap, NEW h, NEW f, Begins(f, Len(units), units, cap, h),
         NEW S, S = Heads(f, units),
         NEW x, NEW a \in Nat, NEW e \in 0..Len(units), Run(x, units, S, a, e), a + 1 < e
  PROVE  ~Over(units, cap, h, a + 1, e) /\ x = SubSeq(units, a + 1, e)
<1>1. PICK n \in Nat : n = Len(units) /\ DOMAIN units = 1..n
  OBVIOUS
<1>2. /\ a < e /\ x = SubSeq(units, a + 1, e)
      /\ (a = 0 \/ a + 1 \in S) /\ \A j \in (a + 2)..e : j \notin S
  BY DEF Run
<1>3. e \in Nat /\ e <= n /\ a + 2 <= e
  BY <1>1
<1>4. \A i \in 1..n : f[i] = IF i = 1 \/ Over(units, cap, h, f[i - 1], i) THEN i ELSE f[i - 1]
  BY <1>1 DEF Begins
<1>5. \A i \in (a + 2)..e : i \in 1..n /\ i # 1 /\ f[i] = f[i - 1] /\ ~Over(units, cap, h, f[i - 1], i)
  <2> TAKE i \in (a + 2)..e
  <2>1. i \in 1..n /\ i # 1
    BY <1>3
  <2>2. f[i] # i
    <3>1. i \notin S
      BY <1>2
    <3> QED BY <1>1, <2>1, <3>1 DEF Heads
  <2> QED BY <1>4, <2>1, <2>2
<1>6. f[a + 1] = a + 1
  <2>1. a + 1 \in 1..n
    BY <1>3
  <2>2. CASE a = 0
    <3>1. a + 1 = 1
      BY <2>2
    <3> QED BY <1>4, <2>1, <3>1
  <2>3. CASE a + 1 \in S
    BY <2>3 DEF Heads
  <2> QED BY <1>2, <2>2, <2>3
<1> DEFINE P == {k \in 0..(e - (a + 1)) : f[a + 1 + k] = a + 1}
<1>7. 0 \in P
  <2>1. 0 \in 0..(e - (a + 1)) /\ a + 1 + 0 = a + 1
    BY <1>3
  <2> QED BY <1>6, <2>1
<1>8. ASSUME NEW k \in 1..(e - (a + 1)), k - 1 \in P PROVE k \in P
  <2>1. a + 1 + k \in (a + 2)..e /\ (a + 1 + k) - 1 = a + 1 + (k - 1) /\ k \in 0..(e - (a + 1))
    BY <1>3
  <2>2. f[a + 1 + k] = f[a + 1 + (k - 1)]
    BY <1>5, <2>1
  <2>3. f[a + 1 + (k - 1)] = a + 1
    BY <1>8
  <2> QED BY <2>1, <2>2, <2>3
<1> HIDE DEF P
<1>9. 0..(e - (a + 1)) \subseteq P
  <2>1. e - (a + 1) \in Nat
    BY <1>3
  <2> QED BY <1>7, <1>8, <2>1, UpToAll
<1>10. f[e - 1] = a + 1
  <2>1. PICK k : k = e - 1 - (a + 1)
    OBVIOUS
  <2>2. k \in 0..(e - (a + 1)) /\ a + 1 + k = e - 1
    BY <1>3, <2>1
  <2>3. k \in P
    BY <1>9, <2>2
  <2>4. f[a + 1 + k] = a + 1
    BY <2>3 DEF P
  <2> QED BY <2>2, <2>4
<1>11. e \in (a + 2)..e
  BY <1>3
<1> QED BY <1>2, <1>5, <1>10, <1>11

\* A segment that, with its header, fits.
Fits(g, cap) ==
  SegmentChars(g) <= IF Len(g.chunk) = 1 THEN Most(cap) + headerAllowance(g.heading) ELSE cap

GoodSegments(cap, even) ==
  {g \in [heading : HeadingSet, of : Nat, chunk : Seq(Units(cap, even))] : Fits(g, cap)}

\* The allowance covers the header a segment gets, with its place among several.
LEMMA HeaderFits ==
  ASSUME NEW h \in HeadingSet, NEW m \in Nat, NEW c \in Int, NEW chunk, ChunkChars(chunk) = c
  PROVE  SegmentChars([heading |-> h, of |-> m, chunk |-> chunk]) <= c + headerAllowance(h)
<1>1. PICK g : g = [heading |-> h, of |-> m, chunk |-> chunk]
  OBVIOUS
<1>2. g.heading = h /\ g.of = m /\ g.chunk = chunk
  BY <1>1
<1>3. HeaderOverhead \in Nat /\ ContWidth \in Nat /\ ContWidth < HeaderOverhead
  BY WidthAssumption
<1>4. CASE h = NoHeading
  <2>1. SegmentChars(g) = c + 0
    BY <1>2, <1>4 DEF SegmentChars
  <2>2. headerAllowance(h) = 0
    BY <1>4 DEF headerAllowance
  <2> QED BY <1>1, <2>1, <2>2
<1>5. CASE h # NoHeading
  <2>1. PICK w \in Nat : w = Width[h]
    BY <1>5, WidthAssumption DEF HeadingSet, LineSet
  <2>2. headerAllowance(h) = w + HeaderOverhead
    BY <1>5, <2>1 DEF headerAllowance
  <2>3. PICK k : k = IF m > 1 THEN ContWidth ELSE 0
    OBVIOUS
  <2>4. k \in Nat /\ k < HeaderOverhead
    BY <1>3, <2>3
  <2>5. SegmentChars(g) = c + (w + 1 + k)
    BY <1>2, <1>5, <2>1, <2>3 DEF SegmentChars
  <2>6. c + (w + 1 + k) <= c + (w + HeaderOverhead)
    BY <1>3, <2>4
  <2> QED BY <1>1, <2>2, <2>5, <2>6
<1> QED BY <1>4, <1>5

LEMMA SeqOfOne ==
  ASSUME NEW V, NEW x \in Seq(V), Len(x) = 1
  PROVE  DOMAIN x = 1..1 /\ x[1] \in V
OBVIOUS

\* A chunk, with its header, fits; alone in its chunk, a unit may exceed the cap by the header.
LEMMA PackedGood ==
  ASSUME NEW cap \in Nat, NEW even \in BOOLEAN, NEW h \in HeadingSet, NEW m \in Nat,
         NEW units \in Seq(PackUnits(cap, even)),
         NEW f, Begins(f, Len(units), units, cap, h),
         NEW S, S = Heads(f, units),
         NEW x, NEW a \in 0..Len(units), NEW e \in 0..Len(units), Run(x, units, S, a, e)
  PROVE  [heading |-> h, of |-> m, chunk |-> x] \in GoodSegments(cap, even)
<1>1. PICK n \in Nat : n = Len(units)
  OBVIOUS
<1>2. a \in Nat /\ e \in Nat /\ a < e /\ e <= n /\ x = SubSeq(units, a + 1, e)
  BY <1>1 DEF Run
<1>3. x \in Seq(PackUnits(cap, even)) /\ Len(x) = e - a
  <2>1. a <= e /\ e <= Len(units)
    BY <1>1, <1>2
  <2>2. x \in Seq(PackUnits(cap, even)) /\ Between(x, units, a, e)
    BY <1>2, <2>1, BetweenIs
  <2> QED BY <2>2 DEF Between
<1>4. PICK c \in Int : c = ChunkChars(x)
  BY <1>3, ChunkType
<1>5. PICK w \in Nat : w = headerAllowance(h)
  BY AllowanceType DEF HeadingSet
<1>6. PICK g : g = [heading |-> h, of |-> m, chunk |-> x]
  OBVIOUS
<1>7. SegmentChars(g) <= c + w
  BY <1>4, <1>5, <1>6, HeaderFits
<1>8. SegmentChars(g) \in Int
  <2>1. g.heading = h /\ g.of = m /\ g.chunk = x
    BY <1>6
  <2>2. h # NoHeading => Width[h] \in Nat
    BY WidthAssumption DEF HeadingSet, LineSet
  <2>3. ContWidth \in Nat
    BY WidthAssumption
  <2> QED BY <1>4, <2>1, <2>2, <2>3 DEF SegmentChars
<1>9. Fits(g, cap)
  <2>0. PICK z \in Int : z = SegmentChars(g)
    BY <1>8
  <2>1. CASE e = a + 1
    <3>0. Len(x) = 1
      BY <1>2, <1>3, <2>1
    <3>1. Len(x) = 1 /\ DOMAIN x = 1..1 /\ x[1] \in PackUnits(cap, even)
      BY <1>3, <3>0, SeqOfOne
    <3>2. x[1].size \in Nat /\ x[1].size <= Most(cap)
      BY <3>1 DEF PackUnits, Units
    <3>3. x[1].size \in Int
      BY <3>2
    <3>4. c = x[1].size
      BY <1>4, <3>1, <3>3, ChunkOne
    <3>5. PICK k \in Nat : k = Most(cap)
      BY AtMost
    <3>6. z <= k + w
      <4>1. c <= k
        BY <3>2, <3>4, <3>5
      <4>2. z <= c + w
        BY <1>7, <2>0
      <4> QED BY <4>1, <4>2
    <3> QED BY <1>5, <1>6, <2>0, <3>1, <3>5, <3>6 DEF Fits
  <2>2. CASE e # a + 1
    <3>1. a + 1 < e /\ Len(x) # 1
      BY <1>2, <1>3, <2>2
    <3>2. ~Over(units, cap, h, a + 1, e) /\ x = SubSeq(units, a + 1, e)
      BY <1>2, <3>1, RunFits
    <3>3. ~(c + w > cap)
      BY <1>4, <1>5, <3>2 DEF Over
    <3>4. z <= cap
      BY <1>7, <2>0, <3>3
    <3> QED BY <1>6, <2>0, <3>1, <3>4 DEF Fits
  <2> QED BY <2>1, <2>2
<1>10. x \in Seq(Units(cap, even))
  BY <1>3 DEF PackUnits
<1>11. g \in [heading : HeadingSet, of : Nat, chunk : Seq(Units(cap, even))]
  BY <1>6, <1>10
<1> QED BY <1>6, <1>9, <1>11 DEF GoodSegments

Places == HeadingSet \X LineSet

Marks(cap, even, h) == [x \in Seq(PackUnits(cap, even)) |-> Under(h, LinesOf(x))]

\* Naming the heading of the lines of units goes part by part.
LEMMA MarksHom ==
  ASSUME NEW cap, NEW even, NEW h \in HeadingSet
  PROVE  IsHom(Marks(cap, even, h), PackUnits(cap, even), Places)
<1>1. PICK U : U = PackUnits(cap, even) /\ Carries(U, LineSet)
  BY Carried
<1>2. PICK m : m = [x \in Seq(U) |-> Under(h, LinesOf(x))]
  OBVIOUS
<1>3. ASSUME NEW x \in Seq(U) PROVE LinesOf(x) \in Seq(LineSet) /\ Under(h, LinesOf(x)) \in Seq(Places)
  <2>1. PICK y : y = LinesOf(x)
    OBVIOUS
  <2>2. y \in Seq(LineSet)
    BY <1>1, <2>1, LinesType
  <2> QED BY <2>1, <2>2, UnderType DEF Places
<1>4. m \in [Seq(U) -> Seq(Places)]
  BY <1>2, <1>3
<1>5. m[<<>>] = <<>>
  <2>1. <<>> \in Seq(LineSet) /\ \A i \in 1..Len(<<>>) : isBlank(<<>>[i])
    OBVIOUS
  <2>2. NonBlank(<<>>) = <<>>
    BY <2>1, NonBlankNone
  <2>3. Tagged(h, <<>>) = <<>>
    BY DEF Tagged
  <2>4. Under(h, <<>>) = <<>>
    BY <2>2, <2>3, UnderIs
  <2>5. <<>> \in Seq(U)
    OBVIOUS
  <2> QED BY <1>2, <2>4, <2>5, LinesNone
<1>6. ASSUME NEW a \in Seq(U), NEW b \in Seq(U) PROVE m[a \o b] = m[a] \o m[b]
  <2>1. a \o b \in Seq(U)
    OBVIOUS
  <2>2. m[a \o b] = Under(h, LinesOf(a \o b)) /\ m[a] = Under(h, LinesOf(a)) /\ m[b] = Under(h, LinesOf(b))
    BY <1>2, <2>1
  <2>3. PICK p, q : p = LinesOf(a) /\ q = LinesOf(b)
    OBVIOUS
  <2>4. p \in Seq(LineSet) /\ q \in Seq(LineSet)
    BY <1>3, <2>3
  <2>5. LinesOf(a \o b) = p \o q
    <3>1. LinesOf(a \o b) = LinesOf(a) \o LinesOf(b)
      BY <1>1, LinesConcat
    <3> QED BY <2>3, <3>1
  <2>6. Under(h, p \o q) = Under(h, p) \o Under(h, q)
    BY <2>4, UnderConcat
  <2> QED BY <2>2, <2>3, <2>5, <2>6
<1>7. IsHom(m, U, Places)
  BY <1>4, <1>5, <1>6 DEF IsHom
<1> QED BY <1>1, <1>2, <1>7 DEF Marks

\* What a list of segments shows.
Showing(gs) == [i \in DOMAIN gs |-> Shown(gs[i])]

LEMMA ShowingType ==
  ASSUME NEW cap, NEW even, NEW gs \in Seq(GoodSegments(cap, even))
  PROVE  /\ Showing(gs) \in Seq(Seq(Places))
         /\ Len(Showing(gs)) = Len(gs) /\ \A i \in 1..Len(gs) : Showing(gs)[i] = Shown(gs[i])
<1>1. PICK n \in Nat : n = Len(gs) /\ DOMAIN gs = 1..n /\ \A i \in 1..n : gs[i] \in GoodSegments(cap, even)
  OBVIOUS
<1>2. ASSUME NEW i \in 1..n PROVE Shown(gs[i]) \in Seq(Places)
  <2>1. PICK h \in HeadingSet, x \in Seq(Units(cap, even)) : h = gs[i].heading /\ x = gs[i].chunk
    BY <1>1 DEF GoodSegments
  <2>2. PICK y \in Seq(LineSet) : y = LinesOf(x)
    BY Carried, LinesType
  <2>3. Under(h, y) \in Seq(HeadingSet \X LineSet)
    BY UnderType
  <2> QED BY <2>1, <2>2, <2>3 DEF Shown, Places
<1>3. PICK v : v = [i \in DOMAIN gs |-> Shown(gs[i])]
  OBVIOUS
<1>4. v \in [1..n -> Seq(Places)]
  BY <1>1, <1>2, <1>3
<1>5. v \in Seq(Seq(Places)) /\ Len(v) = n /\ \A i \in 1..n : v[i] = Shown(gs[i])
  BY <1>1, <1>3, <1>4
<1> QED BY <1>1, <1>3, <1>5 DEF Showing

\* Packing loses no unit, and every chunk is a good segment.
LEMMA PackGood ==
  ASSUME NEW cap \in Nat, NEW even \in BOOLEAN, NEW h \in HeadingSet,
         NEW units \in Seq(PackUnits(cap, even))
  PROVE  /\ packChunks(units, cap, h) \in Seq(GoodSegments(cap, even))
         /\ FlattenSeq(Showing(packChunks(units, cap, h))) = Under(h, LinesOf(units))
<1>1. PICK f : /\ Begins(f, Len(units), units, cap, h)
               /\ packChunks(units, cap, h) = Numbered(h, Blocks(units, Heads(f, units)))
  BY PackIs
<1>2. PICK S : S = Heads(f, units)
  OBVIOUS
<1>3. PICK b : b = Blocks(units, S)
  OBVIOUS
<1>4. b \in Seq(Seq(PackUnits(cap, even))) /\ FlattenSeq(b) = units
  BY <1>3, BlocksAre, BlocksFlat
<1>5. PICK n \in Nat : n = Len(b) /\ DOMAIN b = 1..n /\ \A i \in 1..n : b[i] \in Seq(PackUnits(cap, even))
  BY <1>4
<1>6. PICK g : g = Numbered(h, b)
  OBVIOUS
<1>7. packChunks(units, cap, h) = g
  BY <1>1, <1>2, <1>3, <1>6
<1>8. ASSUME NEW i \in 1..n
      PROVE  g[i] = [heading |-> h, of |-> n, chunk |-> b[i]] /\ g[i] \in GoodSegments(cap, even)
  <2>1. g[i] = [heading |-> h, of |-> n, chunk |-> b[i]]
    BY <1>5, <1>6 DEF Numbered
  <2>2. i \in 1..Len(Blocks(units, S))
    BY <1>3, <1>5
  <2>3. PICK a \in 0..Len(units), e \in 0..Len(units) : Run(b[i], units, S, a, e)
    BY <1>3, <2>2, BlockIs
  <2>4. [heading |-> h, of |-> n, chunk |-> b[i]] \in GoodSegments(cap, even)
    BY <1>1, <1>2, <2>3, PackedGood
  <2> QED BY <2>1, <2>4
<1>9. g \in [1..n -> GoodSegments(cap, even)]
  <2>1. g = [i \in 1..n |-> [heading |-> h, of |-> Len(b), chunk |-> b[i]]]
    BY <1>5, <1>6 DEF Numbered
  <2>2. g = [i \in 1..n |-> g[i]]
    BY <2>1
  <2>3. \A i \in 1..n : g[i] \in GoodSegments(cap, even)
    BY <1>8
  <2> HIDE <2>1
  <2> QED BY <2>2, <2>3
<1>10. g \in Seq(GoodSegments(cap, even)) /\ Len(g) = n
  BY <1>9
<1>11. PICK v : v = Showing(g)
  OBVIOUS
<1>12. v \in Seq(Seq(Places)) /\ Len(v) = n /\ \A i \in 1..n : v[i] = Shown(g[i])
  BY <1>10, <1>11, ShowingType
<1>13. IsImage(v, Marks(cap, even, h), b)
  <2>1. ASSUME NEW i \in 1..n PROVE v[i] = Marks(cap, even, h)[b[i]]
    <3>1. Shown(g[i]) = Under(h, LinesOf(b[i]))
      <4>0. g[i] = [heading |-> h, of |-> n, chunk |-> b[i]]
        BY <1>8
      <4>1. g[i].heading = h /\ g[i].chunk = b[i]
        BY <4>0
      <4> QED BY <4>1 DEF Shown
    <3>2. Marks(cap, even, h)[b[i]] = Under(h, LinesOf(b[i]))
      BY <1>5 DEF Marks
    <3> QED BY <1>12, <3>1, <3>2
  <2> QED BY <1>5, <1>12, <2>1 DEF IsImage
<1>14. FlattenSeq(v) = Marks(cap, even, h)[FlattenSeq(b)]
  BY <1>4, <1>12, <1>13, MarksHom, FlatMap
<1>15. Marks(cap, even, h)[units] = Under(h, LinesOf(units))
  BY DEF Marks
<1> QED BY <1>4, <1>7, <1>10, <1>11, <1>14, <1>15

-----------------------------------------------------------------------------
(* Sections.                                                               *)

\* A section of a summary: one line or more, a heading only on the first.
Sections(even) ==
  {s \in Seq(LineSet) : /\ Len(s) >= 1 /\ \A i \in 2..Len(s) : ~IsHeading(s[i])
                        /\ even => WellFenced(s)}

\* A section trimmed keeps its heading and what is under it.
LEMMA TrimmedSection ==
  ASSUME NEW even \in BOOLEAN, NEW s \in Sections(even), trimBlock(s) # <<>>
  PROVE  /\ trimBlock(s) \in Seq(LineSet) /\ Len(trimBlock(s)) >= 1
         /\ HeadingOf(trimBlock(s)) = HeadingOf(s)
         /\ NonBlank(Body(trimBlock(s))) = NonBlank(Body(s))
<1>1. s \in Seq(LineSet) /\ Len(s) >= 1 /\ \A i \in 2..Len(s) : ~IsHeading(s[i])
  BY DEF Sections
<1>2. PICK t : t = trimBlock(s)
  OBVIOUS
<1>3. t \in Seq(LineSet) /\ t # <<>> /\ NonBlank(t) = NonBlank(s)
  BY <1>1, <1>2, TrimParts, TrimKeeps
<1>4. Len(t) >= 1
  BY <1>3
<1>5. PICK m, k : Edges(s, m, k) /\ t = SubSeq(s, m, k)
  BY <1>1, <1>2, <1>3, TrimIs
<1>6. /\ m \in 1..Len(s) /\ k \in m..Len(s) /\ ~isBlank(s[m]) /\ ~isBlank(s[k])
      /\ \A i \in 1..(m - 1) : isBlank(s[i])
      /\ \A i \in (k + 1)..Len(s) : isBlank(s[i])
  BY <1>5 DEF Edges
<1>7. t[1] = s[m]
  <2>1. PICK p \in Nat : p = m - 1
    BY <1>6
  <2>2. k \in Nat /\ p <= k /\ k <= Len(s) /\ m = p + 1 /\ 1 \in 1..(k - p) /\ p + 1 = m
    BY <1>6, <2>1
  <2>3. Between(t, s, p, k)
    BY <1>1, <1>5, <2>2, BetweenIs
  <2> QED BY <2>2, <2>3 DEF Between
<1>8. CASE IsHeading(s[1])
  <2>1. m = 1
    <3>1. ~isBlank(s[1])
      BY <1>8, HeadingsAre
    <3>2. m # 1 => 1 \in 1..(m - 1)
      BY <1>6
    <3> QED BY <1>6, <3>1, <3>2
  <2>2. t[1] = s[1]
    BY <1>7, <2>1
  <2>3. HeadingOf(s) = s[1] /\ Body(s) = SubSeq(s, 2, Len(s))
    BY <1>1, <1>8, BodyIs
  <2>4. HeadingOf(t) = s[1] /\ Body(t) = SubSeq(t, 2, Len(t)) /\ Body(t) \in Seq(LineSet)
    BY <1>3, <1>4, <1>8, <2>2, BodyIs
  <2>5. NonBlank(SubSeq(t, 2, Len(t))) = NonBlank(SubSeq(s, 2, Len(s)))
    <3>1. PICK r : r = SubSeq(s, k + 1, Len(s))
      OBVIOUS
    <3>2. PICK d : d = SubSeq(s, 2, k)
      OBVIOUS
    <3>3. SubSeq(s, 2, Len(s)) = d \o r /\ d \in Seq(LineSet) /\ r \in Seq(LineSet)
      <4>1. 2 \in 1..(Len(s) + 1) /\ k \in (2 - 1)..Len(s) /\ Len(s) \in k..Len(s)
        BY <1>1, <1>6
      <4> QED BY <1>1, <3>1, <3>2, <4>1, Divided
    <3>4. k \in Nat /\ k <= Len(s) /\ 0 <= k /\ 1 <= k /\ Len(s) \in Nat /\ 0 + 1 = 1
      BY <1>1, <1>6
    <3>5. Between(t, s, 0, k)
      <4>1. t = SubSeq(s, 0 + 1, k) /\ 0 \in Nat
        BY <1>5, <2>1, <3>4
      <4> QED BY <1>1, <3>4, <4>1, BetweenIs
    <3>6. Between(d, s, 1, k)
      <4>1. d = SubSeq(s, 1 + 1, k) /\ 1 \in Nat
        BY <3>2
      <4> QED BY <1>1, <3>4, <4>1, BetweenIs
    <3>7. Between(SubSeq(t, 2, Len(t)), t, 1, Len(t))
      <4>1. SubSeq(t, 2, Len(t)) = SubSeq(t, 1 + 1, Len(t)) /\ 1 \in Nat /\ Len(t) \in Nat
        BY <1>3
      <4> QED BY <1>3, <1>4, <4>1, BetweenIs
    <3>8. SubSeq(t, 2, Len(t)) = d
      <4>1. PICK q : q = SubSeq(t, 2, Len(t))
        OBVIOUS
      <4>2. q \in Seq(LineSet) /\ Between(q, t, 1, Len(t))
        BY <2>4, <3>7, <4>1
      <4>3. Len(t) = k - 0 /\ \A i \in 1..k : t[i] = s[0 + i]
        <5>1. Len(t) = k - 0 /\ \A i \in 1..(k - 0) : t[i] = s[0 + i]
          BY <3>5 DEF Between
        <5> QED BY <3>4, <5>1
      <4>4. Len(q) = Len(t) - 1 /\ \A i \in 1..(Len(t) - 1) : q[i] = t[1 + i]
        BY <4>2 DEF Between
      <4>5. Len(d) = k - 1 /\ \A i \in 1..(k - 1) : d[i] = s[1 + i]
        BY <3>6 DEF Between
      <4>6. Len(t) = k /\ Len(q) = k - 1 /\ Len(q) = Len(d)
        BY <3>4, <4>3, <4>4, <4>5
      <4>7. ASSUME NEW i \in 1..Len(q) PROVE q[i] = d[i]
        <5>1. i \in 1..(k - 1) /\ 1 + i \in 1..k /\ 0 + (1 + i) = 1 + i
          BY <3>4, <4>6
        <5>2. q[i] = t[1 + i] /\ d[i] = s[1 + i] /\ t[1 + i] = s[0 + (1 + i)]
          BY <4>3, <4>4, <4>5, <4>6, <5>1
        <5> QED BY <5>1, <5>2
      <4> QED BY <3>3, <4>1, <4>2, <4>6, <4>7, SeqEqual
    <3>9. NonBlank(r) = <<>>
      <4>1. Between(r, s, k, Len(s))
        BY <1>1, <3>1, <3>4, BetweenIs
      <4>2. \A i \in 1..Len(r) : isBlank(r[i])
        <5> SUFFICES ASSUME NEW i \in 1..Len(r) PROVE isBlank(r[i])
          OBVIOUS
        <5>1. Len(r) = Len(s) - k /\ r[i] = s[k + i]
          BY <4>1 DEF Between
        <5>2. k + i \in (k + 1)..Len(s)
          BY <3>4, <5>1
        <5>3. isBlank(s[k + i])
          BY <1>6, <5>2
        <5> QED BY <5>1, <5>3
      <4> QED BY <3>3, <4>2, NonBlankNone
    <3>10. NonBlank(d \o r) = NonBlank(d) \o <<>>
      BY <3>3, <3>9, NonBlankConcat
    <3>11. NonBlank(d) \in Seq(LineSet)
      BY <3>3, NonBlankType
    <3>12. NonBlank(d) \o <<>> = NonBlank(d)
      BY <3>11
    <3> QED BY <3>3, <3>8, <3>10, <3>12
  <2> QED BY <1>2, <1>3, <1>4, <2>3, <2>4, <2>5
<1>9. CASE ~IsHeading(s[1])
  <2>1. ~IsHeading(s[m])
    BY <1>1, <1>6, <1>9
  <2>2. HeadingOf(s) = NoHeading /\ Body(s) = s
    BY <1>1, <1>9, BodyIs
  <2>3. HeadingOf(t) = NoHeading /\ Body(t) = t
    BY <1>3, <1>4, <1>7, <2>1, BodyIs
  <2> QED BY <1>2, <1>3, <1>4, <2>2, <2>3
<1> QED BY <1>8, <1>9

\* A body has as many fence lines as its section.
LEMMA BodyEven ==
  ASSUME NEW L, NEW s \in Seq(L), Len(s) >= 1, EvenFences(s)
  PROVE  EvenFences(Body(s))
<1>1. CASE Body(s) = s
  BY <1>1
<1>2. CASE IsHeading(s[1]) /\ Body(s) = Tail(s) /\ Tail(s) = SubSeq(s, 2, Len(s)) /\ Tail(s) \in Seq(L)
  <2>1. PICK t \in Seq(L) : t = Tail(s)
    BY <1>2
  <2>2. PICK n \in Nat : n = Len(s) /\ 1 <= n
    OBVIOUS
  <2>3. Between(t, s, 1, n)
    <3>1. 1 \in Nat /\ 1 + 1 = 2 /\ 1 <= n /\ n <= Len(s)
      BY <2>2
    <3> QED BY <1>2, <2>1, <2>2, <3>1, BetweenIs
  <2>4. Len(t) = n - 1
    BY <2>3 DEF Between
  <2>5. ~isFence(s[1])
    BY <1>2, HeadingsAre
  <2>6. FencesUpTo(s, 1) = 0
    <3>1. \A j \in 1..1 : ~isFence(s[j])
      BY <2>5
    <3> QED BY <3>1, FencesNone
  <2>7. PICK k \in 0..(n - 1) : k = n - 1 /\ 1 + k = n /\ k \in Nat
    BY <2>2
  <2>8. FencesUpTo(s, 1 + k) = FencesUpTo(s, 1) + FencesUpTo(t, k)
    <3>1. 1 \in Nat /\ 1 <= n
      BY <2>2
    <3> QED BY <2>3, <2>7, <3>1, FencesBetween
  <2>9. PICK u \in Nat : u = FencesUpTo(t, k)
    BY <2>7, FencesType
  <2>10. FencesUpTo(s, n) = u
    <3>1. 0 + u = u
      OBVIOUS
    <3> QED BY <2>6, <2>7, <2>8, <2>9, <3>1
  <2>11. FencesUpTo(s, n) % 2 = 0
    BY <2>2 DEF EvenFences
  <2>12. EvenFences(t)
    BY <2>4, <2>7, <2>9, <2>10, <2>11 DEF EvenFences
  <2> QED BY <1>2, <2>1, <2>12
<1> QED BY <1>1, <1>2, BodyIs

LEMMA HeadingType ==
  ASSUME NEW s \in Seq(LineSet), Len(s) >= 1
  PROVE  HeadingOf(s) \in HeadingSet /\ Body(s) \in Seq(LineSet)
<1>1. s[1] \in LineSet
  OBVIOUS
<1> QED BY <1>1, BodyIs DEF HeadingSet

LEMMA BodyNoLonger ==
  ASSUME NEW s \in Seq(LineSet), Len(s) >= 1
  PROVE  Chars(Body(s)) <= Chars(s)
<1>1. PICK k \in Int : k = Chars(s)
  BY CharsType
<1>2. k <= k
  OBVIOUS
<1> QED BY <1>1, <1>2, BodyIs, CharsTail

\* A section that keeps to the cap is one good segment.
LEMMA WholeGood ==
  ASSUME NEW cap \in Nat, NEW even \in BOOLEAN, NEW s \in Sections(even),
         trimBlock(s) # <<>>, Chars(trimBlock(s)) <= cap
  PROVE  /\ WholeSegment(s) \in GoodSegments(cap, even)
         /\ Shown(WholeSegment(s)) = Under(HeadingOf(s), Body(s))
<1>1. s \in Seq(LineSet) /\ Len(s) >= 1 /\ (even => WellFenced(s))
  BY DEF Sections
<1>2. PICK t : t = trimBlock(s)
  OBVIOUS
<1>3. t \in Seq(LineSet) /\ Len(t) >= 1 /\ NonBlank(Body(t)) = NonBlank(Body(s))
  BY <1>2, TrimmedSection
<1>4. PICK h \in HeadingSet : h = HeadingOf(s)
  BY <1>1, HeadingType
<1>5. PICK b \in Seq(LineSet) : b = Body(t)
  BY <1>3, HeadingType
<1>6. PICK u : u = Unit(b)
  OBVIOUS
<1>7. PICK c \in Int : c = Chars(b)
  BY <1>5, CharsType
<1>8. u = [lines |-> b, size |-> c, cut |-> FALSE]
  BY <1>6, <1>7 DEF Unit
<1>9. PICK m \in Nat : m = Most(cap) /\ cap <= m
  BY AtMost
<1>10. c <= m
  <2>1. PICK k \in Int : k = Chars(t)
    BY <1>3, CharsType
  <2>2. c <= k
    BY <1>3, <1>5, <1>7, <2>1, BodyNoLonger
  <2>3. k <= cap
    BY <1>2, <2>1
  <2> QED BY <1>9, <2>2, <2>3
<1>11. even => EvenFences(b)
  <2>1. even => EvenFences(s)
    BY <1>1 DEF WellFenced, EvenFences
  <2>2. even => EvenFences(t)
    BY <1>1, <1>2, <2>1, TrimEven
  <2> QED BY <1>3, <1>5, <2>2, BodyEven
<1>12. u \in Units(cap, even)
  BY <1>8, <1>9, <1>10, <1>11 DEF Units
<1>13. PICK g : g = WholeSegment(s)
  OBVIOUS
<1>14. g = [heading |-> h, of |-> 1, chunk |-> <<u>>]
  BY <1>2, <1>4, <1>5, <1>6, <1>13 DEF WholeSegment
<1>15. g.heading = h /\ g.of = 1 /\ g.chunk = <<u>>
  BY <1>14
<1>16. ChunkChars(<<u>>) = c
  <2>1. PICK x : x = <<u>>
    OBVIOUS
  <2>2. Len(x) = 1 /\ DOMAIN x = 1..1 /\ x[1] = u
    BY <2>1
  <2>3. x[1].size = c
    BY <1>8, <2>2
  <2> QED BY <2>1, <2>2, <2>3, ChunkOne
<1>17. SegmentChars(g) <= c + headerAllowance(h)
  <2>1. 1 \in Nat
    OBVIOUS
  <2> QED BY <1>14, <1>16, <2>1, HeaderFits
<1>18. SegmentChars(g) \in Int
  <2>1. h # NoHeading => Width[h] \in Nat
    BY WidthAssumption DEF HeadingSet, LineSet
  <2> QED BY <1>15, <1>16, <2>1 DEF SegmentChars
<1>19. Fits(g, cap)
  <2>1. PICK w \in Nat : w = headerAllowance(h)
    BY AllowanceType DEF HeadingSet
  <2>2. PICK z \in Int : z = SegmentChars(g)
    BY <1>18
  <2>3. z <= m + w
    BY <1>10, <1>17, <2>1, <2>2
  <2>4. Len(g.chunk) = 1
    BY <1>15
  <2> QED BY <1>9, <1>15, <2>1, <2>2, <2>3, <2>4 DEF Fits
<1>20. g \in [heading : HeadingSet, of : Nat, chunk : Seq(Units(cap, even))]
  <2>1. <<u>> \in Seq(Units(cap, even))
    BY <1>12
  <2> QED BY <1>14, <2>1
<1>21. Shown(g) = Under(h, Body(s))
  <2>1. u.lines = b
    BY <1>8
  <2>2. LinesOf(<<u>>) = b
    BY <2>1, LinesOne
  <2>3. Under(h, b) = Under(h, Body(s))
    BY <1>3, <1>5, UnderSame
  <2> QED BY <1>15, <2>2, <2>3 DEF Shown
<1> QED BY <1>4, <1>13, <1>19, <1>20, <1>21 DEF GoodSegments

\* A section with nothing written has nothing to show.
LEMMA EmptySection ==
  ASSUME NEW s \in Seq(LineSet), Len(s) >= 1, trimBlock(s) = <<>>
  PROVE  Under(HeadingOf(s), Body(s)) = <<>>
<1>1. \A i \in 1..Len(s) : isBlank(s[i])
  <2>1. ASSUME NEW m, NEW k, Edges(s, m, k), trimBlock(s) = SubSeq(s, m, k) PROVE FALSE
    <3>1. m \in 1..Len(s) /\ k \in m..Len(s)
      BY <2>1 DEF Edges
    <3>2. PICK p \in Nat : p = m - 1
      BY <3>1
    <3>3. k \in Nat /\ p <= k /\ k <= Len(s) /\ m = p + 1 /\ k - p >= 1
      BY <3>1, <3>2
    <3>4. Between(SubSeq(s, m, k), s, p, k)
      BY <3>3, BetweenIs
    <3>5. Len(SubSeq(s, m, k)) = k - p
      BY <3>4 DEF Between
    <3>6. Len(SubSeq(s, m, k)) = 0
      <4>1. SubSeq(s, m, k) = <<>>
        BY <2>1
      <4>2. Len(<<>>) = 0
        OBVIOUS
      <4> QED BY <4>1, <4>2
    <3> QED BY <3>3, <3>5, <3>6
  <2> QED BY <2>1, TrimIs
<1>2. ~IsHeading(s[1])
  <2>1. isBlank(s[1])
    BY <1>1
  <2> QED BY <2>1, HeadingsAre
<1>3. Body(s) = s
  BY <1>2, BodyIs
<1>4. NonBlank(s) = <<>>
  BY <1>1, NonBlankNone
<1>5. Under(HeadingOf(s), s) = Tagged(HeadingOf(s), <<>>)
  BY <1>4, UnderIs
<1>6. Tagged(HeadingOf(s), <<>>) = <<>>
  BY DEF Tagged
<1> QED BY <1>3, <1>5, <1>6

\* Each way to segment a section makes good segments that show what it holds.
LEMMA SectionGood ==
  ASSUME NEW cap \in Nat, NEW even \in BOOLEAN, NEW s \in Sections(even)
  PROVE  /\ segmentSection(s, cap) \in Seq(GoodSegments(cap, even))
         /\ FlattenSeq(Showing(segmentSection(s, cap))) = Under(HeadingOf(s), Body(s))
<1>1. s \in Seq(LineSet) /\ Len(s) >= 1 /\ (even => WellFenced(s))
  BY DEF Sections
<1>2. CASE trimBlock(s) = <<>>
  <2>1. segmentSection(s, cap) = <<>>
    BY <1>2 DEF segmentSection
  <2>2. Showing(<<>>) = <<>>
    BY DEF Showing
  <2>3. Under(HeadingOf(s), Body(s)) = <<>>
    BY <1>1, <1>2, EmptySection
  <2>4. <<>> \in Seq(GoodSegments(cap, even))
    OBVIOUS
  <2> QED BY <2>1, <2>2, <2>3, <2>4, FlatNone
<1>3. CASE trimBlock(s) # <<>> /\ Chars(trimBlock(s)) <= cap
  <2>1. PICK g : g = WholeSegment(s)
    OBVIOUS
  <2>2. segmentSection(s, cap) = <<g>>
    BY <1>3, <2>1 DEF segmentSection
  <2>3. g \in GoodSegments(cap, even) /\ Shown(g) = Under(HeadingOf(s), Body(s))
    BY <1>3, <2>1, WholeGood
  <2>4. PICK x : x = <<g>>
    OBVIOUS
  <2>5. x \in Seq(GoodSegments(cap, even)) /\ Len(x) = 1 /\ x[1] = g
    BY <2>3, <2>4
  <2>6. PICK v : v = Showing(x)
    OBVIOUS
  <2>7. v \in Seq(Seq(Places)) /\ Len(v) = 1 /\ v[1] = Shown(g)
    BY <2>5, <2>6, ShowingType
  <2>8. v = <<Shown(g)>> /\ Shown(g) \in Seq(Places)
    BY <2>7
  <2>9. FlattenSeq(v) = Shown(g)
    BY <2>8, FlatOne
  <2> QED BY <2>2, <2>3, <2>4, <2>5, <2>6, <2>9
<1>4. CASE trimBlock(s) # <<>> /\ ~(Chars(trimBlock(s)) <= cap)
  <2>1. PICK h \in HeadingSet, b \in Seq(LineSet) : h = HeadingOf(s) /\ b = Body(s)
    BY <1>1, HeadingType
  <2>2. PICK units : units = BodyUnits(b, cap, h)
    OBVIOUS
  <2>3. segmentSection(s, cap) = packChunks(units, cap, h)
    BY <1>4, <2>1, <2>2 DEF segmentSection, BodyUnits, FitAll
  <2>4. even => WellFenced(b)
    BY <1>1, <2>1, BodyWellFenced
  <2>5. units \in Seq(PackUnits(cap, even)) /\ NonBlank(LinesOf(units)) = NonBlank(b)
    BY <2>1, <2>2, <2>4, UnitsGood DEF HeadingSet
  <2>6. /\ packChunks(units, cap, h) \in Seq(GoodSegments(cap, even))
        /\ FlattenSeq(Showing(packChunks(units, cap, h))) = Under(h, LinesOf(units))
    BY <2>1, <2>5, PackGood
  <2>7. Under(h, LinesOf(units)) = Under(h, b)
    BY <2>5, UnderSame
  <2> QED BY <2>1, <2>3, <2>6, <2>7
<1> QED BY <1>2, <1>3, <1>4

LEMMA SeqInto ==
  ASSUME NEW L, NEW s \in Seq(L), NEW M, \A i \in 1..Len(s) : s[i] \in M
  PROVE  s \in Seq(M)
<1>1. PICK n \in Nat : n = Len(s)
  OBVIOUS
<1>2. s = [i \in 1..n |-> s[i]] /\ \A i \in 1..n : s[i] \in M
  BY <1>1
<1>3. s \in [1..n -> M]
  BY <1>2
<1> QED BY <1>3

\* The sections of a summary have no heading inside.
LEMMA SectionsAre ==
  ASSUME NEW raw \in Seq(LineSet)
  PROVE  splitSummarySections(raw) \in Seq(Sections(FALSE))
<1>1. PICK S : S = Positions(raw, LAMBDA l : l \in Headings)
  OBVIOUS
<1>2. PICK n \in Nat : n = Len(raw) /\ DOMAIN raw = 1..n
  OBVIOUS
<1>3. \A i \in 1..n : i \in S <=> IsHeading(raw[i])
  BY <1>1, <1>2 DEF Positions, IsHeading
<1>4. PICK b : b = Blocks(raw, S)
  OBVIOUS
<1>5. splitSummarySections(raw) = b
  BY <1>1, <1>4 DEF splitSummarySections
<1>6. b \in Seq(Seq(LineSet))
  BY <1>4, BlocksAre
<1>7. PICK k \in Nat : k = Len(b) /\ DOMAIN b = 1..k /\ \A i \in 1..k : b[i] \in Seq(LineSet)
  BY <1>6
<1>8. ASSUME NEW i \in 1..k PROVE b[i] \in Sections(FALSE)
  <2>1. i \in 1..Len(Blocks(raw, S))
    BY <1>4, <1>7
  <2>2. PICK a \in 0..Len(raw), e \in 0..Len(raw) : Run(b[i], raw, S, a, e)
    BY <1>4, <2>1, BlockIs
  <2>3. a < e /\ b[i] = SubSeq(raw, a + 1, e) /\ \A j \in (a + 2)..e : j \notin S
    BY <2>2 DEF Run
  <2>4. a \in Nat /\ e \in Nat /\ a <= e /\ e <= Len(raw)
    BY <2>3
  <2>5. Between(b[i], raw, a, e)
    BY <2>3, <2>4, BetweenIs
  <2>6. Len(b[i]) = e - a /\ \A j \in 1..(e - a) : b[i][j] = raw[a + j]
    BY <2>5 DEF Between
  <2>7. Len(b[i]) >= 1
    BY <2>3, <2>4, <2>6
  <2>8. \A j \in 2..Len(b[i]) : ~IsHeading(b[i][j])
    <3> TAKE j \in 2..Len(b[i])
    <3>1. j \in 1..(e - a) /\ a + j \in (a + 2)..e /\ a + j \in 1..n
      BY <1>2, <2>4, <2>6
    <3> QED BY <1>3, <2>3, <2>6, <3>1
  <2> QED BY <1>7, <2>7, <2>8 DEF Sections
<1>9. b \in Seq(Sections(FALSE))
  <2>1. \A i \in 1..Len(b) : b[i] \in Sections(FALSE)
    BY <1>7, <1>8
  <2> QED BY <1>6, <2>1, SeqInto
<1> QED BY <1>5, <1>9

LEMMA SomePicked ==
  ASSUME NEW L, NEW s \in Seq(L), NEW S
  PROVE  Picked(s, S) \in Seq(L)
<1>1. \A i \in 1..Len(s) : i \in S => s[i] \in L
  OBVIOUS
<1> QED BY <1>1, PickedInto

\* What is kept of the sections are sections.
LEMMA KeptAre ==
  ASSUME NEW raw \in Seq(LineSet)
  PROVE  keptSections(raw).sections \in Seq(Sections(FALSE))
<1>1. PICK s : s = splitSummarySections(raw)
  OBVIOUS
<1>2. s \in Seq(Sections(FALSE))
  BY <1>1, SectionsAre
<1>3. \A S : Picked(s, S) \in Seq(Sections(FALSE))
  BY <1>2, SomePicked
<1> QED BY <1>1, <1>2, <1>3 DEF keptSections

IsConcat(z, u, v, m, n) ==
  Len(z) = m + n /\ \A i \in 1..(m + n) : z[i] = IF i <= m THEN u[i] ELSE v[i - m]

LEMMA Concatenated ==
  ASSUME NEW P, NEW u \in Seq(P), NEW v \in Seq(P), NEW m, NEW n, m = Len(u), n = Len(v), NEW z, z = u \o v
  PROVE  z \in Seq(P) /\ IsConcat(z, u, v, m, n)
BY DEF IsConcat

\* What segments show goes part by part.
LEMMA ShowingConcat ==
  ASSUME NEW cap, NEW even, NEW a \in Seq(GoodSegments(cap, even)), NEW b \in Seq(GoodSegments(cap, even))
  PROVE  Showing(a \o b) = Showing(a) \o Showing(b)
<1>1. PICK G : G = GoodSegments(cap, even)
  OBVIOUS
<1>2. PICK m \in Nat, n \in Nat : m = Len(a) /\ n = Len(b)
  OBVIOUS
<1>3. PICK c : c = a \o b
  OBVIOUS
<1>4. c \in Seq(G) /\ Len(c) = m + n /\ \A i \in 1..(m + n) : c[i] = IF i <= m THEN a[i] ELSE b[i - m]
  BY <1>1, <1>2, <1>3
<1>5. PICK u, v, w : u = Showing(a) /\ v = Showing(b) /\ w = Showing(c)
  OBVIOUS
<1>6. u \in Seq(Seq(Places)) /\ Len(u) = m /\ \A i \in 1..m : u[i] = Shown(a[i])
  BY <1>2, <1>5, ShowingType
<1>7. v \in Seq(Seq(Places)) /\ Len(v) = n /\ \A i \in 1..n : v[i] = Shown(b[i])
  BY <1>2, <1>5, ShowingType
<1>8. w \in Seq(Seq(Places)) /\ Len(w) = m + n /\ \A i \in 1..(m + n) : w[i] = Shown(c[i])
  BY <1>1, <1>4, <1>5, ShowingType
<1>9. PICK z : z = u \o v
  OBVIOUS
<1>10. z \in Seq(Seq(Places)) /\ Len(z) = m + n /\ \A i \in 1..(m + n) : z[i] = IF i <= m THEN u[i] ELSE v[i - m]
  <2>1. PICK P : P = Seq(Places)
    OBVIOUS
  <2>2. u \in Seq(P) /\ Len(u) = m /\ v \in Seq(P) /\ Len(v) = n
    BY <1>6, <1>7, <2>1
  <2>3. z \in Seq(P) /\ Len(z) = m + n /\ \A i \in 1..(m + n) : z[i] = IF i <= m THEN u[i] ELSE v[i - m]
    <3>1. z \in Seq(P) /\ IsConcat(z, u, v, m, n)
      BY <1>2, <1>9, <2>2, Concatenated
    <3> QED BY <3>1 DEF IsConcat
  <2> QED BY <2>1, <2>3
<1>11. ASSUME NEW i \in 1..(m + n) PROVE w[i] = z[i]
  <2>1. CASE i <= m
    <3>1. i \in 1..m
      BY <2>1
    <3>2. w[i] = Shown(c[i]) /\ c[i] = a[i] /\ z[i] = u[i]
      BY <1>4, <1>8, <1>10, <2>1
    <3>3. u[i] = Shown(a[i])
      BY <1>6, <3>1
    <3> QED BY <3>2, <3>3
  <2>2. CASE ~(i <= m)
    <3>1. i - m \in 1..n
      BY <2>2
    <3>2. w[i] = Shown(c[i]) /\ c[i] = b[i - m] /\ z[i] = v[i - m]
      BY <1>4, <1>8, <1>10, <2>2
    <3>3. v[i - m] = Shown(b[i - m])
      BY <1>7, <3>1
    <3> QED BY <3>2, <3>3
  <2> QED BY <2>1, <2>2
<1>12. w = z
  BY <1>8, <1>10, <1>11, SeqEqual
<1> QED BY <1>3, <1>5, <1>9, <1>12

AllShown(cap, even) == [x \in Seq(GoodSegments(cap, even)) |-> FlattenSeq(Showing(x))]

LEMMA AllShownHom ==
  ASSUME NEW cap, NEW even
  PROVE  IsHom(AllShown(cap, even), GoodSegments(cap, even), Places)
<1>1. PICK G : G = GoodSegments(cap, even)
  OBVIOUS
<1>2. PICK m : m = [x \in Seq(G) |-> FlattenSeq(Showing(x))]
  OBVIOUS
<1>3. ASSUME NEW x \in Seq(G) PROVE FlattenSeq(Showing(x)) \in Seq(Places)
  <2>1. Showing(x) \in Seq(Seq(Places))
    BY <1>1, ShowingType
  <2> QED BY <2>1, FlatType
<1>4. m \in [Seq(G) -> Seq(Places)]
  BY <1>2, <1>3
<1>5. m[<<>>] = <<>>
  <2>1. <<>> \in Seq(G)
    OBVIOUS
  <2>2. Showing(<<>>) = <<>>
    BY DEF Showing
  <2> QED BY <1>2, <2>1, <2>2, FlatNone
<1>6. ASSUME NEW a \in Seq(G), NEW b \in Seq(G) PROVE m[a \o b] = m[a] \o m[b]
  <2>1. a \o b \in Seq(G)
    OBVIOUS
  <2>2. m[a \o b] = FlattenSeq(Showing(a \o b)) /\ m[a] = FlattenSeq(Showing(a)) /\ m[b] = FlattenSeq(Showing(b))
    BY <1>2, <2>1
  <2>3. PICK u, v : u = Showing(a) /\ v = Showing(b)
    OBVIOUS
  <2>4. u \in Seq(Seq(Places)) /\ v \in Seq(Seq(Places))
    BY <1>1, <2>3, ShowingType
  <2>5. Showing(a \o b) = u \o v
    <3>1. Showing(a \o b) = Showing(a) \o Showing(b)
      BY <1>1, ShowingConcat
    <3> QED BY <2>3, <3>1
  <2>6. FlattenSeq(u \o v) = FlattenSeq(u) \o FlattenSeq(v)
    BY <2>4, FlatConcat
  <2> QED BY <2>2, <2>3, <2>5, <2>6
<1>7. IsHom(m, G, Places)
  BY <1>4, <1>5, <1>6 DEF IsHom
<1> QED BY <1>1, <1>2, <1>7 DEF AllShown

\* What a list of sections holds.
Holdings(sections) == [i \in DOMAIN sections |-> Under(HeadingOf(sections[i]), Body(sections[i]))]

\* What is made of several sections shows what they hold.
LEMMA SectionsGood ==
  ASSUME NEW cap \in Nat, NEW even \in BOOLEAN, NEW sections \in Seq(Sections(even)),
         NEW e, e = [i \in DOMAIN sections |-> segmentSection(sections[i], cap)]
  PROVE  /\ FlattenSeq(e) \in Seq(GoodSegments(cap, even))
         /\ FlattenSeq(Showing(FlattenSeq(e))) = FlattenSeq(Holdings(sections))
<1>1. PICK n \in Nat : n = Len(sections) /\ DOMAIN sections = 1..n /\ \A i \in 1..n : sections[i] \in Sections(even)
  OBVIOUS
<1>2. ASSUME NEW i \in 1..n
      PROVE  /\ e[i] \in Seq(GoodSegments(cap, even))
             /\ FlattenSeq(Showing(e[i])) = Under(HeadingOf(sections[i]), Body(sections[i]))
             /\ Under(HeadingOf(sections[i]), Body(sections[i])) \in Seq(Places)
  <2>1. e[i] = segmentSection(sections[i], cap)
    BY <1>1
  <2>2. sections[i] \in Seq(LineSet) /\ Len(sections[i]) >= 1
    BY <1>1 DEF Sections
  <2>3. PICK h \in HeadingSet, b \in Seq(LineSet) : h = HeadingOf(sections[i]) /\ b = Body(sections[i])
    BY <2>2, HeadingType
  <2>4. Under(h, b) \in Seq(Places)
    BY UnderType DEF Places
  <2>5. /\ segmentSection(sections[i], cap) \in Seq(GoodSegments(cap, even))
        /\ FlattenSeq(Showing(segmentSection(sections[i], cap)))
             = Under(HeadingOf(sections[i]), Body(sections[i]))
    BY <1>1, SectionGood
  <2> QED BY <2>1, <2>3, <2>4, <2>5
<1>3. e \in [1..n -> Seq(GoodSegments(cap, even))]
  <2>1. e = [i \in 1..n |-> e[i]]
    BY <1>1
  <2>2. \A i \in 1..n : e[i] \in Seq(GoodSegments(cap, even))
    BY <1>2
  <2> QED BY <2>1, <2>2
<1>4. e \in Seq(Seq(GoodSegments(cap, even))) /\ Len(e) = n
  BY <1>3
<1>5. PICK w : w = Holdings(sections)
  OBVIOUS
<1>6. \A i \in 1..n : w[i] = Under(HeadingOf(sections[i]), Body(sections[i]))
  BY <1>1, <1>5 DEF Holdings
<1>7. w \in [1..n -> Seq(Places)]
  <2>1. w = [i \in 1..n |-> w[i]]
    BY <1>1, <1>5 DEF Holdings
  <2>2. \A i \in 1..n : w[i] \in Seq(Places)
    BY <1>2, <1>6
  <2> QED BY <2>1, <2>2
<1>8. w \in Seq(Seq(Places)) /\ Len(w) = n
  BY <1>7
<1>9. IsImage(w, AllShown(cap, even), e)
  <2>1. ASSUME NEW i \in 1..n PROVE w[i] = AllShown(cap, even)[e[i]]
    <3>1. AllShown(cap, even)[e[i]] = FlattenSeq(Showing(e[i]))
      BY <1>2 DEF AllShown
    <3> QED BY <1>2, <1>6, <3>1
  <2> QED BY <1>4, <1>8, <2>1 DEF IsImage
<1>10. FlattenSeq(w) = AllShown(cap, even)[FlattenSeq(e)]
  <2>1. PICK G, h : G = GoodSegments(cap, even) /\ h = AllShown(cap, even)
    OBVIOUS
  <2>2. IsHom(h, G, Places) /\ e \in Seq(Seq(G)) /\ IsImage(w, h, e)
    BY <1>4, <1>9, <2>1, AllShownHom
  <2>3. FlattenSeq(w) = h[FlattenSeq(e)]
    BY <1>8, <2>2, FlatMap
  <2> QED BY <2>1, <2>3
<1>11. FlattenSeq(e) \in Seq(GoodSegments(cap, even))
  BY <1>4, FlatType
<1>12. AllShown(cap, even)[FlattenSeq(e)] = FlattenSeq(Showing(FlattenSeq(e)))
  BY <1>11 DEF AllShown
<1> QED BY <1>5, <1>10, <1>11, <1>12

\* Nothing has no known heading.
LEMMA KnownIsWritten == ~keptSections(<<>>).known
<1>1. PICK b : b = splitSummarySections(<<>>)
  OBVIOUS
<1>2. \A i \in 1..Len(b) : FALSE
  <2> SUFFICES ASSUME NEW i \in 1..Len(b) PROVE FALSE
    OBVIOUS
  <2>1. PICK r, S : r = <<>> /\ S = Positions(r, LAMBDA l : l \in Headings)
    OBVIOUS
  <2>2. b = Blocks(r, S) /\ r \in Seq(LineSet) /\ Len(r) = 0
    BY <1>1, <2>1 DEF splitSummarySections
  <2>3. PICK a \in 0..Len(r), e \in 0..Len(r) : Run(b[i], r, S, a, e)
    BY <2>2, BlockIs
  <2>4. a < e
    BY <2>3 DEF Run
  <2> QED BY <2>2, <2>4
<1>3. b \in Seq(Sections(FALSE))
  <2>1. <<>> \in Seq(LineSet)
    OBVIOUS
  <2> QED BY <1>1, <2>1, SectionsAre
<1>4. DOMAIN b = 1..Len(b)
  BY <1>3
<1>5. \A i \in DOMAIN b : FALSE
  BY <1>2, <1>4
<1> QED BY <1>1, <1>5 DEF keptSections

\* What is made of a summary is good, and shows what its kept sections hold.
LEMMA SummaryGood ==
  ASSUME NEW cap \in Nat, NEW text \in Seq(LineSet), keptSections(trimBlock(text)).known,
         NEW sections, sections = keptSections(trimBlock(text)).sections,
         NEW even \in BOOLEAN, even => \A i \in DOMAIN sections : WellFenced(sections[i])
  PROVE  /\ segmentSummary(text, cap) \in Seq(GoodSegments(cap, even))
         /\ FlattenSeq(Showing(segmentSummary(text, cap))) = FlattenSeq(Holdings(sections))
<1>1. PICK raw : raw = trimBlock(text)
  OBVIOUS
<1>2. raw \in Seq(LineSet) /\ raw # <<>>
  BY <1>1, TrimParts, KnownIsWritten
<1>a. PICK X : X = Sections(FALSE)
  OBVIOUS
<1>3. sections \in Seq(X)
  BY <1>1, <1>2, <1>a, KeptAre
<1>4. PICK n \in Nat : n = Len(sections) /\ DOMAIN sections = 1..n
  BY <1>3
<1>5. sections \in Seq(Sections(even))
  <2>1. \A i \in 1..Len(sections) : sections[i] \in Sections(even)
    <3> TAKE i \in 1..Len(sections)
    <3>0. sections[i] \in X
      BY <1>3
    <3>1. sections[i] \in Sections(FALSE)
      BY <1>a, <3>0
    <3>2. even => WellFenced(sections[i])
      BY <1>4
    <3> QED BY <3>1, <3>2 DEF Sections
  <2> QED BY <1>3, <2>1, SeqInto
<1>6. PICK e : e = [i \in DOMAIN sections |-> segmentSection(sections[i], cap)]
  OBVIOUS
<1>7. segmentSummary(text, cap) = FlattenSeq(e)
  BY <1>1, <1>2, <1>6 DEF segmentSummary
<1> QED BY <1>5, <1>6, <1>7, SectionsGood

\* The units of good segments are good.
LEMMA UnitsAre ==
  ASSUME NEW cap, NEW even, NEW gs \in Seq(GoodSegments(cap, even))
  PROVE  UnitsOf(gs) \in Seq(Units(cap, even))
<1>1. PICK n \in Nat : n = Len(gs) /\ DOMAIN gs = 1..n /\ \A i \in 1..n : gs[i] \in GoodSegments(cap, even)
  OBVIOUS
<1>2. \A i \in 1..n : gs[i].chunk \in Seq(Units(cap, even))
  BY <1>1 DEF GoodSegments
<1>3. PICK c : c = [i \in DOMAIN gs |-> gs[i].chunk]
  OBVIOUS
<1>4. c \in [1..n -> Seq(Units(cap, even))]
  BY <1>1, <1>2, <1>3
<1>5. c \in Seq(Seq(Units(cap, even)))
  BY <1>4
<1>6. FlattenSeq(c) \in Seq(Units(cap, even))
  BY <1>5, FlatType
<1> QED BY <1>3, <1>6 DEF UnitsOf

\* Harvest loses no line of a kept section, and truncates only over the cap.
LEMMA SegmentsDoKeepAll ==
  ASSUME lines \in Seq(LineSet), Caps \subseteq Nat
  PROVE  SegmentsKeepAll
<1>1. PICK kept : kept = keptSections(trimBlock(lines))
  OBVIOUS
<1>2. SUFFICES ASSUME kept.known, NEW cap \in Caps
      PROVE  /\ FlattenSeq(Showing(segmentSummary(lines, cap))) = FlattenSeq(Holdings(kept.sections))
             /\ \A i \in DOMAIN UnitsOf(segmentSummary(lines, cap)) :
                  UnitsOf(segmentSummary(lines, cap))[i].cut
                    => Chars(UnitsOf(segmentSummary(lines, cap))[i].lines) > cap
  BY <1>1 DEF SegmentsKeepAll, Showing, Holdings
<1>3. PICK even \in BOOLEAN : ~even
  OBVIOUS
<1>4. cap \in Nat
  OBVIOUS
<1>5. PICK gs : gs = segmentSummary(lines, cap)
  OBVIOUS
<1>6. gs \in Seq(GoodSegments(cap, even)) /\ FlattenSeq(Showing(gs)) = FlattenSeq(Holdings(kept.sections))
  BY <1>1, <1>2, <1>3, <1>4, <1>5, SummaryGood
<1>7. PICK us : us = UnitsOf(gs)
  OBVIOUS
<1>8. us \in Seq(Units(cap, even))
  BY <1>6, <1>7, UnitsAre
<1>9. \A i \in DOMAIN us : us[i] \in Units(cap, even)
  BY <1>8
<1>10. \A i \in DOMAIN us : us[i].cut => Chars(us[i].lines) > cap
  BY <1>9 DEF Units
<1> QED BY <1>5, <1>6, <1>7, <1>10

\* Segments fit the cap, but for a single unit and its header.
LEMMA SegmentsDoFit ==
  ASSUME lines \in Seq(LineSet), Caps \subseteq Nat
  PROVE  SegmentsFit
<1> SUFFICES ASSUME keptSections(trimBlock(lines)).known, NEW cap \in Caps,
                    NEW i \in DOMAIN segmentSummary(lines, cap)
             PROVE  Fits(segmentSummary(lines, cap)[i], cap)
  BY DEF SegmentsFit, Fits, Most
<1>1. PICK even \in BOOLEAN : ~even
  OBVIOUS
<1>2. PICK gs : gs = segmentSummary(lines, cap)
  OBVIOUS
<1>3. gs \in Seq(GoodSegments(cap, even))
  <2>1. PICK sections : sections = keptSections(trimBlock(lines)).sections
    OBVIOUS
  <2>2. cap \in Nat
    OBVIOUS
  <2> QED BY <1>1, <1>2, <2>1, <2>2, SummaryGood
<1>4. gs[i] \in GoodSegments(cap, even)
  BY <1>2, <1>3
<1> QED BY <1>2, <1>4 DEF GoodSegments

\* Sections with whole fences make units with whole fences.
LEMMA FencesDoStayWhole ==
  ASSUME lines \in Seq(LineSet), Caps \subseteq Nat
  PROVE  FencesStayWhole
<1>1. PICK sections : sections = keptSections(trimBlock(lines)).sections
  OBVIOUS
<1>2. SUFFICES ASSUME keptSections(trimBlock(lines)).known,
                      \A i \in DOMAIN sections : WellFenced(sections[i]), NEW cap \in Caps
      PROVE  \A i \in DOMAIN UnitsOf(segmentSummary(lines, cap)) :
               UnitsOf(segmentSummary(lines, cap))[i].cut
                 \/ EvenFences(UnitsOf(segmentSummary(lines, cap))[i].lines)
  BY <1>1 DEF FencesStayWhole, EvenFences
<1>3. PICK even \in BOOLEAN : even
  OBVIOUS
<1>4. cap \in Nat
  OBVIOUS
<1>5. PICK gs : gs = segmentSummary(lines, cap)
  OBVIOUS
<1>6. gs \in Seq(GoodSegments(cap, even))
  BY <1>1, <1>2, <1>4, <1>5, SummaryGood
<1>7. PICK us : us = UnitsOf(gs)
  OBVIOUS
<1>8. us \in Seq(Units(cap, even))
  BY <1>6, <1>7, UnitsAre
<1>9. \A i \in DOMAIN us : us[i] \in Units(cap, even)
  BY <1>8
<1>10. \A i \in DOMAIN us : us[i].cut \/ EvenFences(us[i].lines)
  BY <1>3, <1>9 DEF Units
<1> QED BY <1>5, <1>7, <1>10

-----------------------------------------------------------------------------
(* A block that a summary quotes, from harvest to the next block.          *)

\* A text without blank lines before or behind it is trimmed already.
LEMMA TrimSolid ==
  ASSUME NEW L, NEW s \in Seq(L), Len(s) >= 1, ~isBlank(s[1]), ~isBlank(s[Len(s)])
  PROVE  trimBlock(s) = s
<1>1. PICK n \in Nat : n = Len(s) /\ n >= 1
  OBVIOUS
<1>2. ~(\A i \in 1..Len(s) : isBlank(s[i]))
  BY <1>1
<1>3. PICK m, k : Edges(s, m, k) /\ trimBlock(s) = SubSeq(s, m, k)
  BY <1>2, TrimIs
<1>4. m = 1
  <2>1. m \in 1..n /\ \A i \in 1..(m - 1) : isBlank(s[i])
    BY <1>1, <1>3 DEF Edges
  <2>2. m # 1 => 1 \in 1..(m - 1)
    BY <2>1
  <2> QED BY <2>1, <2>2
<1>5. k = n
  <2>1. k \in 1..n /\ \A i \in (k + 1)..n : isBlank(s[i])
    BY <1>1, <1>3 DEF Edges
  <2>2. k # n => n \in (k + 1)..n
    BY <2>1
  <2> QED BY <1>1, <2>1, <2>2
<1> QED BY <1>1, <1>3, <1>4, <1>5

\* A block taken for itself is stripped of everything.
LEMMA BlockStripped ==
  ASSUME NEW L, NEW text \in Seq(L), {Echo, Guidance, Open, Close} \subseteq L,
         \A i \in 1..Len(text) : ~isFence(text[i]) /\ text[i] # Close
  PROVE  stripNestedMemoryEcho(BlockOf(text)) = <<>>
<1>1. PICK n \in Nat : n = Len(text)
  OBVIOUS
<1>2. PICK t : t = BlockOf(text)
  OBVIOUS
<1>3. /\ t \in Seq(L) /\ Len(t) = n + 4
      /\ t[1] = Echo /\ t[2] = Guidance /\ t[3] = Open /\ t[n + 4] = Close
      /\ \A i \in 1..n : t[3 + i] = text[i]
  <2>1. t \in Seq(L) /\ IsBlock(t, text, n)
    BY <1>1, <1>2, BlockShape
  <2> QED BY <2>1 DEF IsBlock
<1>4. Len(t) \in Nat /\ Len(t) >= 2 /\ DOMAIN t = 1..Len(t)
  BY <1>3
<1>5. ASSUME NEW k \in 1..Len(t) PROVE ~isFence(t[k])
  <2>1. k \in {1, 2, 3, n + 4} \/ (k - 3 \in 1..n /\ 3 + (k - 3) = k)
    BY <1>3
  <2>2. k \in {1, 2, 3, n + 4} => ~isFence(t[k])
    BY <1>3, FormsAre
  <2>3. k - 3 \in 1..n /\ 3 + (k - 3) = k => ~isFence(t[k])
    BY <1>1, <1>3
  <2> QED BY <2>1, <2>2, <2>3
<1>6. ASSUME NEW k \in 4..Len(t), t[k] = Close PROVE k = n + 4
  <2>1. k = n + 4 \/ (k - 3 \in 1..n /\ 3 + (k - 3) = k)
    BY <1>3
  <2>2. k - 3 \in 1..n /\ 3 + (k - 3) = k => t[k] # Close
    BY <1>1, <1>3
  <2> QED BY <1>6, <2>1, <2>2
<1>7. stripFirstEcho(t) = SubSeq(t, 1, 0) \o SubSeq(t, n + 5, n + 4)
  <2>1. 0 \in {0, 1} /\ n + 4 \in (0 + 4)..Len(t) /\ (0 = 1 => t[1] # Echo)
    BY <1>3
  <2>2. t[0 + 1] = Echo /\ t[0 + 2] = Guidance /\ t[0 + 3] = Open
    BY <1>3
  <2>3. \A k \in (0 + 4)..Len(t) : t[k] = Close => k = n + 4
    BY <1>6
  <2>4. stripFirstEcho(t) = SubSeq(t, 1, 0) \o SubSeq(t, (n + 4) + 1, Len(t))
    BY <1>3, <1>4, <1>5, <2>1, <2>2, <2>3, EchoBare
  <2> QED BY <1>3, <2>4
<1>8. stripFirstEcho(t) = <<>>
  <2>1. SubSeq(t, 1, 0) = <<>> /\ SubSeq(t, n + 5, n + 4) = <<>>
    BY <1>3
  <2> QED BY <1>7, <2>1
<1>9. stripFirstEcho(<<>>) = <<>>
  BY StripNothing
<1>10. <<>> # t
  BY <1>4
<1>11. stripNestedMemoryEcho(t) = trim(<<>>)
  BY <1>4, <1>8, <1>9, <1>10, StripOnce
<1> QED BY <1>2, <1>11, TrimNothing

\* A summary that quotes the block of a text: its own section, then the block.
IsQuoting(raw, text, n) ==
  /\ Len(raw) = n + 6 /\ raw[1] = Critical /\ raw[2] = "more"
  /\ raw[3] = Echo /\ raw[4] = Guidance /\ raw[5] = Open /\ raw[n + 6] = Close
  /\ \A i \in 1..n : raw[5 + i] = text[i]

LEMMA QuotingShape ==
  ASSUME NEW L, NEW text \in Seq(L), {Critical, "more", Echo, Guidance, Open, Close} \subseteq L,
         NEW raw, raw = Quoting(text)
  PROVE  raw \in Seq(L) /\ IsQuoting(raw, text, Len(text))
<1>1. PICK n \in Nat : n = Len(text)
  OBVIOUS
<1>2. PICK a : a = <<Critical, "more">>
  OBVIOUS
<1>3. a \in Seq(L) /\ Len(a) = 2 /\ a[1] = Critical /\ a[2] = "more"
  BY <1>2
<1>4. PICK b : b = BlockOf(text)
  OBVIOUS
<1>5. b \in Seq(L) /\ IsBlock(b, text, n)
  BY <1>1, <1>4, BlockShape
<1>6. raw = a \o b
  BY <1>2, <1>4 DEF Quoting
<1>7. raw \in Seq(L) /\ IsJoin(raw, a, b)
  BY <1>3, <1>5, <1>6, Joined
<1>8. Len(raw) = n + 6 /\ raw[1] = a[1] /\ raw[2] = a[2] /\ \A i \in 1..(n + 4) : raw[2 + i] = b[i]
  BY <1>3, <1>5, <1>7 DEF IsJoin, IsBlock
<1>9. raw[3] = b[1] /\ raw[4] = b[2] /\ raw[5] = b[3] /\ raw[n + 6] = b[n + 4]
  <2>1. 1 \in 1..(n + 4) /\ 2 \in 1..(n + 4) /\ 3 \in 1..(n + 4) /\ n + 4 \in 1..(n + 4)
    OBVIOUS
  <2>2. 2 + 1 = 3 /\ 2 + 2 = 4 /\ 2 + 3 = 5 /\ 2 + (n + 4) = n + 6
    OBVIOUS
  <2> QED BY <1>8, <2>1, <2>2
<1>10. ASSUME NEW i \in 1..n PROVE raw[5 + i] = text[i]
  <2>1. 3 + i \in 1..(n + 4) /\ 2 + (3 + i) = 5 + i
    OBVIOUS
  <2>2. b[3 + i] = text[i]
    BY <1>5 DEF IsBlock
  <2> QED BY <1>8, <2>1, <2>2
<1> QED BY <1>1, <1>3, <1>5, <1>7, <1>8, <1>9, <1>10 DEF IsQuoting, IsBlock

\* Of the lines a block and its quotes are made of, two are headings.
LEMMA HeadsAre ==
  /\ IsHeading(Critical) /\ IsHeading(Echo) /\ Critical # Echo
  /\ \A l \in {Guidance, Open, Close, "more"} : ~IsHeading(l)
BY DEF IsHeading, Headings, Critical, Echo, Guidance, Open, Close

\* Its one section with the block's heading is the block.
LEMMA QuotedSection ==
  ASSUME NEW text \in Seq(LineSet), \A i \in 1..Len(text) : ~IsHeading(text[i]),
         {Critical, "more", Echo, Guidance, Open, Close} \subseteq LineSet,
         NEW raw, raw = Quoting(text), NEW b, b = splitSummarySections(raw),
         NEW i \in 1..Len(b), HeadingOf(b[i]) = Echo
  PROVE  b[i] = BlockOf(text)
<1>1. PICK n \in Nat : n = Len(text)
  OBVIOUS
<1>2. raw \in Seq(LineSet) /\ IsQuoting(raw, text, n)
  BY <1>1, QuotingShape
<1>3. /\ Len(raw) = n + 6 /\ DOMAIN raw = 1..(n + 6) /\ raw[1] = Critical /\ raw[2] = "more"
      /\ raw[3] = Echo /\ raw[4] = Guidance /\ raw[5] = Open /\ raw[n + 6] = Close
      /\ \A j \in 1..n : raw[5 + j] = text[j]
  BY <1>2 DEF IsQuoting
<1>4. ASSUME NEW k \in 1..(n + 6), IsHeading(raw[k]) PROVE k = 1 \/ k = 3
  <2>1. k \in {1, 2, 3, 4, 5, n + 6} \/ (k - 5 \in 1..n /\ 5 + (k - 5) = k)
    OBVIOUS
  <2>2. k - 5 \in 1..n /\ 5 + (k - 5) = k => ~IsHeading(raw[k])
    BY <1>1, <1>3
  <2>3. k \notin {2, 4, 5, n + 6}
    BY <1>3, <1>4, HeadsAre
  <2> QED BY <1>4, <2>1, <2>2, <2>3
<1>5. PICK S : S = Positions(raw, LAMBDA l : l \in Headings)
  OBVIOUS
<1>6. \A k \in 1..(n + 6) : k \in S <=> IsHeading(raw[k])
  BY <1>3, <1>5 DEF Positions, IsHeading
<1>a. S \subseteq 1..(n + 6)
  BY <1>3, <1>5 DEF Positions
<1>7. b = Blocks(raw, S)
  BY <1>5 DEF splitSummarySections
<1>8. PICK a \in 0..Len(raw), e \in 0..Len(raw) : Run(b[i], raw, S, a, e) /\ (e = Len(raw) \/ e + 1 \in S)
  BY <1>2, <1>7, BlockIs
<1>9. a < e /\ b[i] = SubSeq(raw, a + 1, e) /\ a \in Nat /\ e \in Nat /\ a <= e /\ e <= n + 6
  BY <1>3, <1>8 DEF Run
<1>10. /\ b[i] \in Seq(LineSet) /\ Len(b[i]) = e - a
       /\ \A j \in 1..(e - a) : b[i][j] = raw[a + j]
  <2>1. PICK x : x = SubSeq(raw, a + 1, e)
    OBVIOUS
  <2>2. a \in Nat /\ e \in Nat /\ a <= e /\ e <= Len(raw)
    BY <1>3, <1>9
  <2>3. x \in Seq(LineSet) /\ Between(x, raw, a, e)
    BY <1>2, <2>1, <2>2, BetweenIs
  <2> QED BY <1>9, <2>1, <2>3 DEF Between
<1>11. raw[a + 1] = Echo
  <2>1. Len(b[i]) >= 1 /\ 1 \in 1..(e - a)
    BY <1>9, <1>10
  <2>2. b[i][1] = Echo
    <3>1. Echo # NoHeading
      BY HeadsAre, HeadingsAre
    <3> QED BY <1>10, <2>1, <3>1, BodyIs
  <2> QED BY <1>10, <2>1, <2>2
<1>12. a = 2
  <2>1. a + 1 \in 1..(n + 6) /\ IsHeading(raw[a + 1])
    BY <1>9, <1>11, HeadsAre
  <2>2. a + 1 = 1 \/ a + 1 = 3
    BY <1>4, <2>1
  <2>3. a + 1 # 1
    BY <1>3, <1>11, HeadsAre
  <2> QED BY <1>9, <2>2, <2>3
<1>13. e = n + 6
  <2>1. ASSUME e + 1 \in S PROVE FALSE
    <3>1. e + 1 \in 1..(n + 6)
      BY <1>a, <2>1
    <3>2. e + 1 = 1 \/ e + 1 = 3
      BY <1>4, <1>6, <2>1, <3>1
    <3> QED BY <1>9, <1>12, <3>2
  <2> QED BY <1>3, <1>8, <2>1
<1>14. PICK t : t = BlockOf(text)
  OBVIOUS
<1>15. /\ t \in Seq(LineSet) /\ Len(t) = n + 4
       /\ t[1] = Echo /\ t[2] = Guidance /\ t[3] = Open /\ t[n + 4] = Close
       /\ \A j \in 1..n : t[3 + j] = text[j]
  <2>1. t \in Seq(LineSet) /\ IsBlock(t, text, n)
    BY <1>1, <1>14, BlockShape
  <2> QED BY <2>1 DEF IsBlock
<1>16. Len(b[i]) = n + 4 /\ \A j \in 1..(n + 4) : b[i][j] = raw[2 + j]
  BY <1>10, <1>12, <1>13
<1>17. ASSUME NEW j \in 1..(n + 4) PROVE b[i][j] = t[j]
  <2>1. j \in {1, 2, 3, n + 4} \/ (j - 3 \in 1..n /\ 3 + (j - 3) = j /\ 5 + (j - 3) = 2 + j)
    OBVIOUS
  <2>2. j \in {1, 2, 3, n + 4} => raw[2 + j] = t[j]
    <3>1. 2 + (n + 4) = n + 6
      OBVIOUS
    <3> QED BY <1>3, <1>15, <3>1
  <2>3. j - 3 \in 1..n /\ 3 + (j - 3) = j /\ 5 + (j - 3) = 2 + j => raw[2 + j] = t[j]
    BY <1>3, <1>15
  <2> QED BY <1>16, <2>1, <2>2, <2>3
<1>18. b[i] = t
  BY <1>10, <1>15, <1>16, <1>17, SeqEqual
<1> QED BY <1>14, <1>18

\* The segments of a section have its heading.
LEMMA SegmentsHeaded ==
  ASSUME NEW s, NEW cap, NEW g, g = segmentSection(s, cap), NEW i \in DOMAIN g
  PROVE  g[i].heading = HeadingOf(s)
<1>1. CASE trimBlock(s) = <<>>
  <2>1. g = <<>>
    BY <1>1 DEF segmentSection
  <2> QED BY <2>1
<1>2. CASE trimBlock(s) # <<>> /\ Chars(trimBlock(s)) <= cap
  <2>1. g = <<WholeSegment(s)>>
    BY <1>2 DEF segmentSection
  <2>2. g[i] = WholeSegment(s)
    BY <2>1
  <2> QED BY <2>2 DEF WholeSegment
<1>3. CASE trimBlock(s) # <<>> /\ ~(Chars(trimBlock(s)) <= cap)
  <2>1. PICK h, b, units : h = HeadingOf(s) /\ b = Body(s) /\ units = BodyUnits(b, cap, h)
    OBVIOUS
  <2>2. g = packChunks(units, cap, h)
    BY <1>3, <2>1 DEF segmentSection, BodyUnits, FitAll
  <2>3. \A j \in DOMAIN packChunks(units, cap, h) : packChunks(units, cap, h)[j].heading = h
    BY DEF packChunks
  <2> QED BY <2>1, <2>2, <2>3
<1> QED BY <1>1, <1>2, <1>3

\* A block that fits the cap is one segment, stored as it is.
LEMMA BlockStored ==
  ASSUME NEW text \in Seq(LineSet), {Echo, Guidance, Open, Close} \subseteq LineSet,
         NEW cap, NEW s, s = BlockOf(text), Chars(s) <= cap
  PROVE  /\ segmentSection(s, cap) = <<WholeSegment(s)>>
         /\ StoredText(WholeSegment(s)) = s
<1>1. PICK n \in Nat : n = Len(text)
  OBVIOUS
<1>2. s \in Seq(LineSet) /\ Len(s) = n + 4 /\ s[1] = Echo /\ s[n + 4] = Close
  <2>1. s \in Seq(LineSet) /\ IsBlock(s, text, n)
    BY <1>1, BlockShape
  <2> QED BY <2>1 DEF IsBlock
<1>3. trimBlock(s) = s
  <2>1. ~isBlank(s[1]) /\ ~isBlank(s[Len(s)]) /\ Len(s) >= 1
    BY <1>2, FormsAre
  <2> QED BY <1>2, <2>1, TrimSolid
<1>4. s # <<>>
  BY <1>2
<1>5. segmentSection(s, cap) = <<WholeSegment(s)>>
  BY <1>3, <1>4 DEF segmentSection
<1>6. HeadingOf(s) = Echo /\ Echo # NoHeading /\ Body(s) = SubSeq(s, 2, Len(s)) /\ Body(s) \in Seq(LineSet)
  <2>1. Len(s) >= 1 /\ IsHeading(s[1])
    BY <1>2, HeadsAre
  <2> QED BY <1>2, <2>1, BodyIs
<1>7. PICK u : u = Unit(Body(s))
  OBVIOUS
<1>8. u.lines = Body(s)
  BY <1>7 DEF Unit
<1>9. PICK g : g = WholeSegment(s)
  OBVIOUS
<1>10. g.heading = Echo /\ g.of = 1 /\ g.chunk = <<u>>
  BY <1>3, <1>6, <1>7, <1>9 DEF WholeSegment
<1>11. LinesOf(<<u>>) = Body(s)
  BY <1>6, <1>8, LinesOne
<1>12. StoredText(g) = <<Echo>> \o Body(s)
  <2>1. g.heading # NoHeading /\ ~(g.of > 1)
    BY <1>6, <1>10
  <2> QED BY <1>10, <1>11, <2>1 DEF StoredText
<1>13. <<Echo>> \o Body(s) = s
  <2>1. PICK t, h : h = <<Echo>> /\ t = h \o Body(s)
    OBVIOUS
  <2>2. h \in Seq(LineSet) /\ Len(h) = 1 /\ h[1] = Echo
    BY <2>1
  <2>3. t \in Seq(LineSet) /\ IsJoin(t, h, Body(s))
    BY <1>6, <2>1, <2>2, Joined
  <2>4. Len(Body(s)) = n + 3 /\ \A j \in 1..(n + 3) : Body(s)[j] = s[1 + j]
    <3>1. 1 \in Nat /\ n + 4 \in Nat /\ 1 <= n + 4 /\ n + 4 <= Len(s) /\ 1 + 1 = 2
      BY <1>2
    <3>2. Between(SubSeq(s, 1 + 1, n + 4), s, 1, n + 4)
      BY <1>2, <3>1, BetweenIs
    <3>3. (n + 4) - 1 = n + 3
      OBVIOUS
    <3> QED BY <1>2, <1>6, <3>1, <3>2, <3>3 DEF Between
  <2>5. Len(t) = n + 4 /\ t[1] = s[1]
    BY <1>2, <2>2, <2>3, <2>4 DEF IsJoin
  <2>6. ASSUME NEW j \in 1..(n + 4) PROVE t[j] = s[j]
    <3>1. j = 1 \/ (j - 1 \in 1..(n + 3) /\ 1 + (j - 1) = j)
      OBVIOUS
    <3>2. ASSUME NEW k \in 1..(n + 3), 1 + k = j PROVE t[j] = s[j]
      <4>1. k \in 1..Len(Body(s))
        BY <2>4
      <4>2. t[1 + k] = Body(s)[k]
        BY <2>2, <2>3, <4>1 DEF IsJoin
      <4> QED BY <2>4, <3>2, <4>2
    <3> QED BY <2>5, <3>1, <3>2
  <2>7. t = s
    BY <1>2, <2>3, <2>5, <2>6, SeqEqual
  <2> QED BY <2>1, <2>7
<1> QED BY <1>5, <1>9, <1>12, <1>13

\* The good segments of which, if they are a block's, nothing is shown.
Silent(cap) ==
  {g \in GoodSegments(cap, FALSE) : g.heading = Echo => stripNestedMemoryEcho(StoredText(g)) = <<>>}

\* The sections that are, if their heading is a block's, this block.
AsQuoted(text) == {s \in Sections(FALSE) : HeadingOf(s) = Echo => s = BlockOf(text)}

\* What is made of such a section.
LEMMA SectionSilent ==
  ASSUME NEW text \in Seq(LineSet), {Echo, Guidance, Open, Close} \subseteq LineSet,
         \A i \in 1..Len(text) : ~isFence(text[i]) /\ text[i] # Close,
         NEW cap \in Nat, Chars(BlockOf(text)) <= cap, NEW s \in AsQuoted(text)
  PROVE  segmentSection(s, cap) \in Seq(Silent(cap))
<1>1. s \in Sections(FALSE) /\ (HeadingOf(s) = Echo => s = BlockOf(text))
  BY DEF AsQuoted
<1>2. PICK g : g = segmentSection(s, cap)
  OBVIOUS
<1>a. PICK G : G = GoodSegments(cap, FALSE)
  OBVIOUS
<1>3. g \in Seq(G)
  <2>1. FALSE \in BOOLEAN
    OBVIOUS
  <2> QED BY <1>1, <1>2, <1>a, <2>1, SectionGood
<1>4. DOMAIN g = 1..Len(g)
  BY <1>3
<1>5. ASSUME NEW i \in 1..Len(g) PROVE g[i] \in Silent(cap)
  <2>1. g[i] \in G
    BY <1>3
  <2>2. ASSUME g[i].heading = Echo PROVE stripNestedMemoryEcho(StoredText(g[i])) = <<>>
    <3>1. i \in DOMAIN g
      BY <1>4
    <3>2. HeadingOf(s) = Echo
      BY <1>2, <2>2, <3>1, SegmentsHeaded
    <3>3. s = BlockOf(text)
      BY <1>1, <3>2
    <3>4. g = <<WholeSegment(s)>> /\ StoredText(WholeSegment(s)) = s
      BY <1>2, <3>3, BlockStored
    <3>5. g[i] = WholeSegment(s)
      BY <3>1, <3>4
    <3>6. stripNestedMemoryEcho(s) = <<>>
      BY <3>3, BlockStripped
    <3> QED BY <3>4, <3>5, <3>6
  <2> QED BY <1>a, <2>1, <2>2 DEF Silent
<1>6. g \in Seq(Silent(cap))
  BY <1>3, <1>5, SeqInto
<1> QED BY <1>2, <1>6

\* What is made of the sections of a summary that quotes a block.
LEMMA QuotingSilent ==
  ASSUME NEW text \in Seq(LineSet), {Critical, "more", Echo, Guidance, Open, Close} \subseteq LineSet,
         \A i \in 1..Len(text) : ~isFence(text[i]) /\ ~IsHeading(text[i]) /\ text[i] # Close,
         NEW cap \in Nat, Chars(BlockOf(text)) <= cap,
         NEW i \in DOMAIN segmentSummary(Quoting(text), cap)
  PROVE  segmentSummary(Quoting(text), cap)[i] \in Silent(cap) \/ segmentSummary(Quoting(text), cap)[i].heading # Echo
<1>1. PICK raw : raw = Quoting(text)
  OBVIOUS
<1>2. PICK n \in Nat : n = Len(text)
  OBVIOUS
<1>3. /\ raw \in Seq(LineSet) /\ Len(raw) = n + 6
      /\ raw[1] = Critical /\ raw[n + 6] = Close
  <2>1. raw \in Seq(LineSet) /\ IsQuoting(raw, text, n)
    BY <1>1, <1>2, QuotingShape
  <2> QED BY <2>1 DEF IsQuoting
<1>4. trimBlock(raw) = raw /\ raw # <<>>
  <2>1. ~isBlank(raw[1])
    BY <1>3, HeadsAre, HeadingsAre
  <2>2. ~isBlank(raw[Len(raw)]) /\ Len(raw) >= 1
    BY <1>3, FormsAre
  <2>3. trimBlock(raw) = raw
    BY <1>3, <2>1, <2>2, TrimSolid
  <2>4. raw # <<>>
    BY <1>3
  <2> QED BY <2>3, <2>4
<1>5. PICK X : X = AsQuoted(text)
  OBVIOUS
<1>6. PICK b : b = splitSummarySections(raw)
  OBVIOUS
<1>7. b \in Seq(X)
  <2>1. PICK Y : Y = Sections(FALSE)
    OBVIOUS
  <2>2. b \in Seq(Y)
    BY <1>3, <1>6, <2>1, SectionsAre
  <2>3. ASSUME NEW j \in 1..Len(b) PROVE b[j] \in X
    <3>1. b[j] \in Y
      BY <2>2
    <3>2. HeadingOf(b[j]) = Echo => b[j] = BlockOf(text)
      BY <1>1, <1>6, QuotedSection
    <3> QED BY <1>5, <2>1, <3>1, <3>2 DEF AsQuoted
  <2> QED BY <2>2, <2>3, SeqInto
<1>8. PICK kept : kept = keptSections(raw)
  OBVIOUS
<1>9. kept.sections \in Seq(X)
  <2>1. \A S : Picked(b, S) \in Seq(X)
    BY <1>7, SomePicked
  <2> QED BY <1>6, <1>7, <1>8, <2>1 DEF keptSections
<1>10. PICK r : r = segmentSummary(raw, cap)
  OBVIOUS
<1>11. CASE ~kept.known
  <2>1. r = <<[heading |-> NoHeading, of |-> 1, chunk |-> <<Unit(raw)>>]>>
    BY <1>4, <1>8, <1>10, <1>11 DEF segmentSummary
  <2>2. i \in DOMAIN r
    BY <1>1, <1>10
  <2>3. r[i].heading = NoHeading
    BY <2>1, <2>2
  <2>4. Echo # NoHeading
    BY HeadsAre, HeadingsAre
  <2> QED BY <1>1, <1>10, <2>3, <2>4
<1>12. CASE kept.known
  <2>1. PICK e : e = [j \in DOMAIN kept.sections |-> segmentSection(kept.sections[j], cap)]
    OBVIOUS
  <2>2. r = FlattenSeq(e)
    BY <1>4, <1>8, <1>10, <1>12, <2>1 DEF segmentSummary
  <2>3. PICK m \in Nat : m = Len(kept.sections) /\ DOMAIN kept.sections = 1..m
    BY <1>9
  <2>4. ASSUME NEW j \in 1..m PROVE e[j] \in Seq(Silent(cap))
    <3>1. kept.sections[j] \in X
      BY <1>9, <2>3
    <3>2. \A k \in 1..Len(text) : ~isFence(text[k]) /\ text[k] # Close
      OBVIOUS
    <3>3. segmentSection(kept.sections[j], cap) \in Seq(Silent(cap))
      BY <1>5, <3>1, <3>2, SectionSilent
    <3> QED BY <2>1, <2>3, <3>3
  <2>5. e \in [1..m -> Seq(Silent(cap))]
    <3>1. e = [j \in 1..m |-> e[j]]
      BY <2>1, <2>3
    <3> QED BY <2>4, <3>1
  <2>6. e \in Seq(Seq(Silent(cap)))
    BY <2>5
  <2>7. r \in Seq(Silent(cap))
    BY <2>2, <2>6, FlatType
  <2>8. i \in DOMAIN r
    BY <1>1, <1>10
  <2>9. r[i] \in Silent(cap)
    BY <2>7, <2>8
  <2> QED BY <1>1, <1>10, <2>9
<1> QED BY <1>11, <1>12

\* A block that a summary quotes is not shown again, where it fits and holds no
\* heading, fence or closing tag.
LEMMA HarvestedVanish ==
  ASSUME lines \in Seq(LineSet), {Critical, "more", Echo, Guidance, Open, Close} \subseteq LineSet,
         Caps \subseteq Nat
  PROVE  HarvestedQuotesVanish
<1> SUFFICES ASSUME \A l \in ToSet(lines) : ~isFence(l) /\ l \notin Headings \cup {Close},
                    NEW cap \in Caps, Chars(BlockOf(lines)) <= cap,
                    NEW i \in DOMAIN segmentSummary(Quoting(lines), cap),
                    segmentSummary(Quoting(lines), cap)[i].heading = Echo
             PROVE  stripNestedMemoryEcho(StoredText(segmentSummary(Quoting(lines), cap)[i])) = <<>>
  BY DEF HarvestedQuotesVanish
<1>1. \A j \in 1..Len(lines) : lines[j] \in ToSet(lines)
  BY DEF ToSet
<1>2. \A j \in 1..Len(lines) : ~isFence(lines[j]) /\ ~IsHeading(lines[j]) /\ lines[j] # Close
  BY <1>1 DEF IsHeading
<1>3. segmentSummary(Quoting(lines), cap)[i] \in Silent(cap)
  BY <1>2, QuotingSilent
<1> QED BY <1>3 DEF Silent

-----------------------------------------------------------------------------
(* The states of Texts.                                                    *)

vars == <<lines, messages, form>>

TypeOK ==
  /\ lines \in Seq(SummaryLines \cup BlockLines)
  /\ messages \in Seq(MessageLines)
  /\ form \in ({"row"} \X Rows) \cup ({"draft"} \X Drafts) \cup {<<>>}

\* Inputs are grown from the lines, messages and entries they are to be of.
LEMMA TypeInvariant == Spec => []TypeOK
<1>1. Init => TypeOK
  BY DEF Init, TypeOK
<1>2. TypeOK /\ [Next]_<<lines, messages, form>> => TypeOK'
  <2> SUFFICES ASSUME TypeOK, [Next]_<<lines, messages, form>> PROVE TypeOK'
    OBVIOUS
  <2>1. CASE AddLine(SummaryLines, MaxSummary)
    BY <2>1 DEF TypeOK, AddLine
  <2>2. CASE AddLine(BlockLines, MaxBlock)
    BY <2>2 DEF TypeOK, AddLine
  <2>3. CASE AddMessage
    BY <2>3 DEF TypeOK, AddMessage
  <2>4. CASE ChooseForm
    BY <2>4 DEF TypeOK, ChooseForm
  <2>5. CASE UNCHANGED <<lines, messages, form>>
    BY <2>5 DEF TypeOK
  <2> QED BY <2>1, <2>2, <2>3, <2>4, <2>5 DEF Next
<1> QED BY <1>1, <1>2, PTL DEF Spec

\* A snapshot of another session keeps to its budget, keeps no message whole at
\* both ends or at one and in part at the other, and counts the messages of which
\* it shows nothing, or one less where the head ends with a whole message or has
\* none (selectSnapshotSegments, takeBefore), for every conversation and budget.
THEOREM SnapshotsAreSound == Spec => []SnapshotSound
<1>1. TypeOK => SnapshotSound
  <2> SUFFICES ASSUME TypeOK PROVE SnapshotSound
    OBVIOUS
  <2>1. messages \in Lines
    BY SnapshotAssumption DEF TypeOK, Lines
  <2>2. ASSUME NEW b \in Bytes, NEW s, s = selectSnapshotSegments(messages, b)
        PROVE  /\ s.bytes <= b /\ Uncounts(messages, s)
               /\ \A p \in ToSet(s.head), q \in ToSet(s.tail) :
                    p.line = q.line => Whole(messages, p.line) \notin {p, q}
    <3>1. b \in Nat
      BY SnapshotAssumption
    <3> QED BY <2>1, <2>2, <3>1, SnapshotOf, OmittedOf
  <2>3. SnapshotFits
    BY <2>2 DEF SnapshotFits
  <2>4. EndsDisjoint
    BY <2>2 DEF EndsDisjoint
  <2>5. OmissionsCounted
    <3>1. DOMAIN messages = 1..Len(messages)
      BY <2>1, WidthsType
    <3> QED BY <2>2, <3>1 DEF OmissionsCounted, Uncounts, Unshown
  <2> QED BY <2>3, <2>4, <2>5 DEF SnapshotSound
<1> QED BY <1>1, TypeInvariant, PTL

\* Normalizing an injected block changes only runs of blank lines and trailing
\* blanks, outside fences, and a second time nothing (normalizeBlockWhitespace).
\* A block quoted in one stored piece is stripped from the prose or the fence
\* around it, up to the next fence (stripNestedMemoryEcho); one that a summary
\* quotes is stripped after harvest if it fits the cap and holds no heading, fence
\* or closing tag.  For every text of the block, and every cap.
THEOREM BlocksAreSound == Spec => []BlockSound
<1>1. TypeOK => BlockSound
  <2> SUFFICES ASSUME TypeOK PROVE BlockSound
    OBVIOUS
  <2>0. /\ Len(lines) \in Nat /\ lines = [i \in 1..Len(lines) |-> lines[i]]
        /\ \A i \in 1..Len(lines) : lines[i] \in SummaryLines \cup BlockLines
    BY DEF TypeOK
  <2>1. lines \in Seq(Quotable)
    <3>1. \A i \in 1..Len(lines) : lines[i] \in Quotable
      BY <2>0 DEF Quotable
    <3>2. lines \in [1..Len(lines) -> Quotable]
      BY <2>0, <3>1
    <3> QED BY <2>0, <3>2
  <2>2. BlockNormal
    BY <2>1, BlocksAreNormal
  <2>3. QuotesVanish
    BY <2>1, EchoesDoVanish
  <2>4. HarvestedQuotesVanish
    <3>1. lines \in Seq(LineSet)
      <4>1. \A i \in 1..Len(lines) : lines[i] \in LineSet
        BY <2>0, SegmentAssumption DEF LineSet
      <4>2. lines \in [1..Len(lines) -> LineSet]
        BY <2>0, <4>1
      <4> QED BY <2>0, <4>2
    <3>2. {Critical, "more", Echo, Guidance, Open, Close} \subseteq LineSet
      BY SegmentAssumption DEF LineSet, Headings
    <3> QED BY <3>1, <3>2, SegmentAssumption, HarvestedVanish
  <2> QED BY <2>2, <2>3, <2>4 DEF BlockSound
<1> QED BY <1>1, TypeInvariant, PTL

\* What the settings page accepts of a draft the host accepts and serves
\* unchanged, and a row that is opened and saved as it is keeps what the plugin
\* sees of it (entryOf, openEdit, normalizeTable), for texts of every form.
THEOREM FormsRoundTrip == Spec => []FormRoundTrip
<1>1. TypeOK => FormRoundTrip
  <2> SUFFICES ASSUME TypeOK PROVE FormRoundTrip
    OBVIOUS
  <2>1. DraftSurvives
    <3> SUFFICES ASSUME form # <<>>, form[1] = "draft", ~Entry!draftErrors(form[2], FALSE)
                 PROVE  LET d == form[2]
                            e == Entry!entryOf(d)
                            again == Entry!openEdit(d.alias, Entry!normalizeTable(e))
                        IN  /\ ~Entry!Rejected(d.alias, e)
                            /\ Entry!normalizeTable(e) # Entry!Dropped
                            /\ Entry!entryOf(again) = e
                            /\ again.kind = d.kind /\ again.description = Entry!trim(d.description)
      BY DEF DraftSurvives
    <3>1. form[2] \in Draft
      BY FormAssumption DEF TypeOK, Draft
    <3> QED BY <3>1, DraftOf
  <2>2. EditKeepsEntry
    <3> SUFFICES ASSUME form # <<>>, form[1] = "row", ~Entry!Rejected("good", form[2])
                 PROVE  LET entry == Entry!normalizeTable(form[2])
                            draft == Entry!openEdit("good", entry)
                        IN  /\ ~Entry!draftErrors(draft, FALSE)
                            /\ Entry!normalizeTable(Entry!entryOf(draft)) = entry
                            /\ form[2].autoInclude # "absent" =>
                                 entry.autoInclude = (form[2].autoInclude = "true")
      BY DEF EditKeepsEntry
    <3>1. form[2] \in Row
      BY FormAssumption DEF TypeOK, Row
    <3> QED BY <3>1, RowOf
  <2> QED BY <2>1, <2>2 DEF FormRoundTrip
<1> QED BY <1>1, TypeInvariant, PTL

\* Whatever the lines and the caps, what harvest stores of a summary with known
\* headings is every line of the sections it keeps that is not blank, under its
\* heading and in order, but for a unit over the cap, of which a marker tells that
\* only the beginning is kept.  Segments of several units fit the cap with their
\* header, one of a single unit may exceed it by its header (or by its marker, where
\* the cap leaves that no room), and no fence is torn that matches and holds neither
\* a bullet nor a blank line.  A summary without a known heading is one segment.
THEOREM SegmentsAreSound == Spec => []SegmentsSound
<1>1. TypeOK => SegmentsSound
  <2> SUFFICES ASSUME TypeOK PROVE SegmentsSound
    OBVIOUS
  <2>1. lines \in Seq(LineSet)
    <3>1. \A i \in 1..Len(lines) : lines[i] \in LineSet
      <4>1. \A i \in 1..Len(lines) : lines[i] \in SummaryLines \cup BlockLines
        BY DEF TypeOK
      <4> QED BY <4>1, SegmentAssumption DEF LineSet
    <3>2. Len(lines) \in Nat /\ lines = [i \in 1..Len(lines) |-> lines[i]]
      BY DEF TypeOK
    <3>3. lines \in [1..Len(lines) -> LineSet]
      BY <3>1, <3>2
    <3> QED BY <3>2, <3>3
  <2>2. Caps \subseteq Nat
    BY SegmentAssumption
  <2>3. SegmentsKeepAll
    BY <2>1, <2>2, SegmentsDoKeepAll
  <2>4. SegmentsFit
    BY <2>1, <2>2, SegmentsDoFit
  <2>5. FencesStayWhole
    BY <2>1, <2>2, FencesDoStayWhole
  <2> QED BY <2>3, <2>4, <2>5 DEF SegmentsSound
<1> QED BY <1>1, TypeInvariant, PTL
=============================================================================
