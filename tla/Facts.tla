-------------------------------- MODULE Facts --------------------------------
(***************************************************************************)
(* Facts about sequences, natural numbers and finite sets that the proofs  *)
(* of this project share.                                                  *)
(***************************************************************************)
EXTENDS Integers, Sequences, FiniteSetsExt, FiniteSetTheorems, WellFoundedInduction, TLAPS

-----------------------------------------------------------------------------
(* Sequences built as functions and as suffixes.                           *)

(* A function on 1..n is a sequence of length n.                           *)
LEMMA FunctionIsSeq ==
    ASSUME NEW S, NEW n \in Nat, NEW f \in [1..n -> S]
    PROVE  f \in Seq(S) /\ Len(f) = n /\ DOMAIN f = 1..n
OBVIOUS

(* The elements of a sequence followed by a function on 1..n: how admission *)
(* appends to snd_buf.                                                     *)
LEMMA ConcatFunction ==
    ASSUME NEW S, NEW s \in Seq(S), NEW n \in Nat, NEW f \in [1..n -> S]
    PROVE  /\ s \o f \in Seq(S)
           /\ Len(s \o f) = Len(s) + n
           /\ \A i \in 1..(Len(s) + n) :
                (s \o f)[i] = IF i <= Len(s) THEN s[i] ELSE f[i - Len(s)]
BY FunctionIsSeq

(* The elements of a sequence that one more joins.                         *)
LEMMA AppendElements ==
    ASSUME NEW S, NEW s \in Seq(S), NEW x \in S
    PROVE  \A i \in 1..Len(Append(s, x)) : Append(s, x)[i] = x \/ (i \in 1..Len(s) /\ Append(s, x)[i] = s[i])
OBVIOUS

(* The elements of a suffix: what shrink_buf() leaves.                     *)
LEMMA Suffix ==
    ASSUME NEW S, NEW s \in Seq(S), NEW c \in 0..Len(s)
    PROVE  /\ SubSeq(s, c + 1, Len(s)) \in Seq(S)
           /\ Len(SubSeq(s, c + 1, Len(s))) = Len(s) - c
           /\ \A i \in 1..(Len(s) - c) : SubSeq(s, c + 1, Len(s))[i] = s[c + i]
OBVIOUS

(* The elements of two sequences put together.                             *)
LEMMA ConcatElements ==
    ASSUME NEW T, NEW s \in Seq(T), NEW t \in Seq(T)
    PROVE  /\ s \o t \in Seq(T) /\ Len(s \o t) = Len(s) + Len(t)
           /\ \A i \in 1..(Len(s) + Len(t)) : (s \o t)[i] = IF i <= Len(s) THEN s[i] ELSE t[i - Len(s)]
OBVIOUS

-----------------------------------------------------------------------------
(* Least and greatest elements.                                            *)

(* A set of naturals that is not empty has a least element.  Applied to    *)
(* the counterexamples of a claim, this is induction.                      *)
LEMMA LeastNatural ==
    ASSUME NEW T, T \subseteq Nat, T # {}
    PROVE  \E x \in T : \A y \in T : x <= y
<1>1. PICK x \in T : \A y \in T : ~ (<<y, x>> \in OpToRel(<, Nat))
  BY NatLessThanWellFounded, WFMin, Zenon
<1>2. \A a, b \in Nat : <<b, a>> \in OpToRel(<, Nat) <=> b < a
  BY DEF OpToRel
<1>3. ASSUME NEW y \in T PROVE x <= y
  <2>1. x \in Nat /\ y \in Nat
    OBVIOUS
  <2>2. ~(y < x)
    BY <1>1, <1>2, <2>1
  <2> QED
    BY <2>1, <2>2
<1> QED
  BY <1>3

(* Min picks the least element.                                            *)
LEMMA MinLeast ==
    ASSUME NEW T, T \subseteq Nat, T # {}
    PROVE  Min(T) \in T /\ \A x \in T : Min(T) <= x
<1>1. \E x \in T : \A y \in T : x <= y
  BY LeastNatural
<1> QED
  BY <1>1 DEF Min

(* Max picks the greatest element of a set that is bounded.                *)
LEMMA MaxGreatest ==
    ASSUME NEW T, T \subseteq Nat, T # {}, NEW n \in Nat, \A x \in T : x <= n
    PROVE  Max(T) \in T /\ \A x \in T : Max(T) >= x
<1> DEFINE U == {y \in Nat : n - y \in T}
<1>1. U # {}
  <2>1. PICK x \in T : TRUE
    OBVIOUS
  <2>2. x \in Nat /\ x <= n
    BY <2>1
  <2>3. n - x \in Nat /\ n - (n - x) = x
    BY <2>2
  <2> QED
    BY <2>1, <2>3
<1>2. PICK u \in U : \A v \in U : u <= v
  <2> HIDE DEF U
  <2>1. U \subseteq Nat
    BY DEF U
  <2> QED
    BY <1>1, <2>1, LeastNatural
<1>3. ASSUME NEW x \in T PROVE n - u >= x
  <2>1. x \in Nat /\ x <= n /\ u \in Nat
    OBVIOUS
  <2>2. n - x \in Nat /\ n - (n - x) = x
    BY <2>1
  <2>3. n - x \in U
    BY <2>2
  <2> QED
    BY <1>2, <2>1, <2>3
<1>4. n - u \in T
  OBVIOUS
<1>5. \E x \in T : \A y \in T : x >= y
  BY <1>3, <1>4
<1> QED
  BY <1>5 DEF Max

(* The remainder of a number below the modulus.                            *)
LEMMA ModSmall ==
    ASSUME NEW m \in Nat, NEW x \in Nat, x < m
    PROVE  x % m = x
OBVIOUS

-----------------------------------------------------------------------------
(* The sum of a sequence.                                                  *)

SumOf(s) ==
    LET upto[i \in 0..Len(s)] == IF i = 0 THEN 0 ELSE upto[i - 1] + s[i]
    IN  upto[Len(s)]

(* The sums of the first terms. *)
Sums(s, f) == f \in [0..Len(s) -> Nat] /\ f[0] = 0 /\ \A i \in 1..Len(s) : f[i] = f[i - 1] + s[i]

(* They exist: there is no least number of terms whose sums do not. *)
LEMMA SumsExist ==
    ASSUME NEW s \in Seq(Nat)
    PROVE  \E f : Sums(s, f)
<1> DEFINE Good(n, f) == f \in [0..n -> Nat] /\ f[0] = 0 /\ \A i \in 1..n : f[i] = f[i - 1] + s[i]
           Bad == {n \in 0..Len(s) : ~\E f : Good(n, f)}
<1>1. Len(s) \in Nat /\ \A i \in 1..Len(s) : s[i] \in Nat
  OBVIOUS
<1>2. CASE Bad = {}
  <2>1. \E f : Good(Len(s), f)
    <3>1. Len(s) \in 0..Len(s)
      BY <1>1
    <3> HIDE DEF Good
    <3> QED
      BY <1>2, <3>1
  <2> QED
    BY <2>1 DEF Sums
<1>3. CASE Bad # {}
  <2>1. PICK n \in Bad : \A m \in Bad : n <= m
    <3>1. Bad \subseteq Nat
      BY <1>1
    <3> HIDE DEF Bad
    <3> QED
      BY <1>3, <3>1, LeastNatural
  <2>2. n # 0
    <3>1. Good(0, [i \in 0..0 |-> 0])
      OBVIOUS
    <3> QED
      BY <2>1, <3>1
  <2>3. n - 1 \in 0..Len(s) /\ n - 1 \notin Bad /\ n \in 1..Len(s)
    <3>1. Bad \subseteq 0..Len(s)
      OBVIOUS
    <3> HIDE DEF Bad
    <3>2. n \in 1..Len(s) /\ n - 1 \in 0..Len(s)
      BY <1>1, <2>1, <2>2, <3>1
    <3>3. ~(n <= n - 1)
      BY <3>2
    <3> QED
      BY <2>1, <3>2, <3>3
  <2>4. PICK f : Good(n - 1, f)
    BY <2>3
  <2> DEFINE g == [i \in 0..n |-> IF i = n THEN f[n - 1] + s[n] ELSE f[i]]
  <2>5. Good(n, g)
    <3>1. \A i \in 0..n - 1 : f[i] \in Nat
      BY <2>4
    <3>2. g \in [0..n -> Nat]
      BY <1>1, <2>3, <3>1
    <3>3. g[0] = 0
      BY <2>3, <2>4
    <3>4. ASSUME NEW i \in 1..n PROVE g[i] = g[i - 1] + s[i]
      BY <2>3, <2>4, SMTT(60)
    <3> QED
      BY <3>2, <3>3, <3>4
  <2> QED
    BY <2>1, <2>5
<1> QED
  BY <1>2, <1>3

(* SumOf is the last of them. *)
LEMMA SumIs ==
    ASSUME NEW s \in Seq(Nat)
    PROVE  \E f : Sums(s, f) /\ SumOf(s) = f[Len(s)]
<1> DEFINE Body(f) == [i \in 0..Len(s) |-> IF i = 0 THEN 0 ELSE f[i - 1] + s[i]]
           upto == CHOOSE f : f = Body(f)
<1>1. PICK f : Sums(s, f)
  BY SumsExist
<1>2. f = Body(f)
  BY <1>1 DEF Sums
<1>3. upto = Body(upto)
  BY <1>2
<1>4. SumOf(s) = upto[Len(s)]
  BY DEF SumOf
<1> HIDE DEF upto
<1> DEFINE Bad == {n \in 0..Len(s) : upto[n] # f[n]}
<1>5. CASE Bad = {}
  BY <1>1, <1>4, <1>5
<1>6. CASE Bad # {}
  <2>1. PICK n \in Bad : \A m \in Bad : n <= m
    <3>1. Bad \subseteq Nat
      OBVIOUS
    <3> HIDE DEF Bad
    <3> QED
      BY <1>6, <3>1, LeastNatural
  <2>2. upto[0] = 0 /\ f[0] = 0
    BY <1>1, <1>3 DEF Sums
  <2>3. n \in 1..Len(s) /\ n - 1 \in 0..Len(s) /\ n - 1 \notin Bad
    <3>1. Bad \subseteq 0..Len(s) /\ n # 0
      BY <2>2
    <3> HIDE DEF Bad
    <3>2. n \in 1..Len(s) /\ n - 1 \in 0..Len(s)
      BY <2>1, <3>1
    <3>3. ~(n <= n - 1)
      BY <3>2
    <3> QED
      BY <2>1, <3>2, <3>3
  <2>4. upto[n - 1] = f[n - 1]
    BY <2>3
  <2>5. upto[n] = upto[n - 1] + s[n]
    <3>1. Body(upto)[n] = upto[n - 1] + s[n]
      BY <2>3
    <3> HIDE DEF Body
    <3> QED
      BY <1>3, <3>1
  <2>6. f[n] = f[n - 1] + s[n]
    BY <1>1, <2>3 DEF Sums
  <2> QED
    BY <2>1, <2>4, <2>5, <2>6
<1> QED
  BY <1>5, <1>6

(* Sums of the same terms are the same, whether or not another comes first. *)
Agree(s, t, f, g) ==
    \A k \in 0..1, n \in Nat :
      n <= Len(s) /\ n + k <= Len(t) /\ (\A i \in 1..n : s[i] = t[i + k])
        => \A i \in 0..n : g[i + k] = g[k] + f[i]

(* Any two sums do. *)
LEMMA SumsAgree ==
    ASSUME NEW s \in Seq(Nat), NEW t \in Seq(Nat), NEW f, NEW g, Sums(s, f), Sums(t, g)
    PROVE  Agree(s, t, f, g)
<1> SUFFICES ASSUME NEW k \in 0..1, NEW n \in Nat, n <= Len(s), n + k <= Len(t), \A i \in 1..n : s[i] = t[i + k]
             PROVE  \A i \in 0..n : g[i + k] = g[k] + f[i]
  BY DEF Agree
<1> DEFINE Bad == {i \in 0..n : g[i + k] # g[k] + f[i]}
<1>0. Len(s) \in Nat /\ Len(t) \in Nat /\ k \in Nat /\ k \in 0..Len(t)
      /\ \A i \in 0..n : i \in 0..Len(s) /\ i + k \in 0..Len(t)
  OBVIOUS
<1>1. /\ f[0] = 0 /\ g[k] \in Nat
      /\ \A i \in 0..n : f[i] \in Nat /\ g[i + k] \in Nat
  BY <1>0 DEF Sums
<1>2. CASE Bad = {}
  BY <1>2
<1>3. CASE Bad # {}
  <2>1. Bad \subseteq 0..n /\ Bad \subseteq Nat
    OBVIOUS
  <2>2. PICK i \in Bad : \A j \in Bad : i <= j
    <3> HIDE DEF Bad
    <3> QED
      BY <1>3, <2>1, LeastNatural
  <2>3. i # 0
    BY <1>1
  <2>4. i \in 1..n /\ i - 1 \in 0..n /\ i - 1 \notin Bad
    <3> HIDE DEF Bad
    <3>1. i \in 1..n /\ i - 1 \in 0..n /\ ~(i <= i - 1)
      BY <2>1, <2>2, <2>3
    <3> QED
      BY <2>2, <3>1
  <2>5. g[(i - 1) + k] = g[k] + f[i - 1]
    BY <2>4
  <2>6. f[i] = f[i - 1] + s[i]
    BY <1>1, <2>4 DEF Sums
  <2>7. g[i + k] = g[(i - 1) + k] + t[i + k]
    <3>1. i + k \in 1..Len(t) /\ (i + k) - 1 = (i - 1) + k
      BY <1>0, <2>4
    <3>2. g[i + k] = g[(i + k) - 1] + t[i + k]
      BY <3>1 DEF Sums
    <3> QED
      BY <3>1, <3>2
  <2>8. s[i] = t[i + k] /\ s[i] \in Nat
    <3> HIDE DEF Bad
    <3>1. s[i] = t[i + k]
      BY <2>4
    <3>2. i \in 1..Len(s)
      BY <1>0, <2>4
    <3> QED
      BY <3>1, <3>2
  <2>9. g[i + k] = g[k] + f[i]
    <3>1. f[i - 1] \in Nat /\ g[k] \in Nat
      BY <1>1, <2>4
    <3> QED
      BY <2>5, <2>6, <2>7, <2>8, <3>1, SMTT(60)
  <2> QED
    BY <2>2, <2>9
<1> QED
  BY <1>2, <1>3

(* What a term adds to a sum. *)
LEMMA SumOfFacts ==
    /\ SumOf(<<>>) = 0
    /\ \A s \in Seq(Nat) : SumOf(s) \in Nat
    /\ \A s \in Seq(Nat), x \in Nat : SumOf(Append(s, x)) = SumOf(s) + x
    /\ \A s \in Seq(Nat) : s # <<>> => SumOf(s) = Head(s) + SumOf(Tail(s))
<1>1. SumOf(<<>>) = 0
  <2>1. <<>> \in Seq(Nat) /\ Len(<<>>) = 0
    OBVIOUS
  <2>2. PICK f : Sums(<<>>, f) /\ SumOf(<<>>) = f[Len(<<>>)]
    BY <2>1, SumIs
  <2> QED
    BY <2>1, <2>2 DEF Sums
<1>2. ASSUME NEW s \in Seq(Nat) PROVE SumOf(s) \in Nat
  <2>1. PICK f : Sums(s, f) /\ SumOf(s) = f[Len(s)]
    BY SumIs
  <2> QED
    BY <2>1 DEF Sums
<1>3. ASSUME NEW s \in Seq(Nat), NEW x \in Nat PROVE SumOf(Append(s, x)) = SumOf(s) + x
  <2> DEFINE t == Append(s, x)
             n == Len(s)
  <2>1. t \in Seq(Nat) /\ Len(t) = n + 1 /\ t[n + 1] = x /\ n \in Nat /\ \A i \in 1..n : s[i] = t[i + 0]
    OBVIOUS
  <2> HIDE DEF t
  <2>2. PICK f : Sums(s, f) /\ SumOf(s) = f[n]
    BY SumIs
  <2>3. PICK g : Sums(t, g) /\ SumOf(t) = g[n + 1]
    BY <2>1, SumIs
  <2> DEFINE k == 0
  <2>4. k \in 0..1 /\ n <= Len(s) /\ n + k <= Len(t) /\ \A i \in 1..n : s[i] = t[i + k]
    BY <2>1
  <2>5. \A i \in 0..n : g[i + k] = g[k] + f[i]
    <3>1. Agree(s, t, f, g)
      BY <2>1, <2>2, <2>3, SumsAgree
    <3> HIDE DEF k, n
    <3> QED
      BY <2>1, <2>4, <3>1 DEF Agree
  <2>6. g[n + 0] = g[0] + f[n] /\ g[0] = 0 /\ f[n] \in Nat /\ n + 0 = n
    BY <2>1, <2>2, <2>3, <2>5, SMTT(60) DEF Sums
  <2>7. g[n + 1] = g[n] + x
    <3>1. n + 1 \in 1..Len(t) /\ (n + 1) - 1 = n
      BY <2>1
    <3>2. g[n + 1] = g[(n + 1) - 1] + t[n + 1]
      BY <2>3, <3>1 DEF Sums
    <3> QED
      BY <2>1, <3>1, <3>2
  <2> QED
    BY <2>2, <2>3, <2>6, <2>7 DEF t
<1>4. ASSUME NEW s \in Seq(Nat), s # <<>> PROVE SumOf(s) = Head(s) + SumOf(Tail(s))
  <2> DEFINE t == Tail(s)
             n == Len(t)
  <2>1. t \in Seq(Nat) /\ Len(s) = n + 1 /\ s[1] = Head(s) /\ s[1] \in Nat /\ n \in Nat /\ \A i \in 1..n : t[i] = s[i + 1]
    BY <1>4
  <2> HIDE DEF t
  <2>2. PICK f : Sums(t, f) /\ SumOf(t) = f[n]
    BY <2>1, SumIs
  <2>3. PICK g : Sums(s, g) /\ SumOf(s) = g[n + 1]
    BY <2>1, SumIs
  <2> DEFINE k == 1
  <2>4. k \in 0..1 /\ n <= Len(t) /\ n + k <= Len(s) /\ \A i \in 1..n : t[i] = s[i + k]
    BY <2>1
  <2>5. \A i \in 0..n : g[i + k] = g[k] + f[i]
    <3>1. Agree(t, s, f, g)
      BY <2>1, <2>2, <2>3, SumsAgree
    <3> HIDE DEF k, n
    <3> QED
      BY <2>1, <2>4, <3>1 DEF Agree
  <2>6. g[n + 1] = g[1] + f[n] /\ f[n] \in Nat
    BY <2>1, <2>2, <2>5 DEF Sums
  <2>7. g[1] = s[1]
    <3>1. 1 \in 1..Len(s) /\ 1 - 1 = 0
      BY <2>1
    <3>2. g[1] = g[1 - 1] + s[1] /\ g[0] = 0
      BY <2>3, <3>1 DEF Sums
    <3> QED
      BY <2>1, <3>1, <3>2
  <2> QED
    BY <2>1, <2>2, <2>3, <2>6, <2>7 DEF t
<1> QED
  BY <1>1, <1>2, <1>3, <1>4

-----------------------------------------------------------------------------
(* The sum of a function over a finite set.                                *)

(* What SumFunction folds: it takes the elements out one by one. *)
Picked(T) == CHOOSE x \in T : TRUE
Folds(w, f) == f = [T \in SUBSET (DOMAIN w) |-> IF T = {} THEN 0 ELSE w[Picked(T)] + f[T \ {Picked(T)}]]

(* Smaller sets come first. *)
LEMMA PickedLeaves ==
    ASSUME NEW T, IsFiniteSet(T), T # {}
    PROVE  /\ Picked(T) \in T /\ IsFiniteSet(T \ {Picked(T)})
           /\ Cardinality(T \ {Picked(T)}) = Cardinality(T) - 1
           /\ Cardinality(T) \in Nat /\ Cardinality(T) > 0
<1>1. Picked(T) \in T
  BY DEF Picked
<1>2. /\ IsFiniteSet(T \ {Picked(T)}) /\ Cardinality(T \ {Picked(T)}) = Cardinality(T) - 1
      /\ Cardinality(T) \in Nat /\ Cardinality(T \ {Picked(T)}) \in Nat
  BY <1>1, FS_RemoveElement, FS_CardinalityType
<1> QED
  BY <1>1, <1>2

(* The fold exists: there is no least size of sets for which it does not. *)
LEMMA FoldExists ==
    ASSUME NEW S, IsFiniteSet(S), NEW w \in [S -> Nat]
    PROVE  \E f : Folds(w, f)
<1> DEFINE Sub(n) == {T \in SUBSET S : Cardinality(T) <= n}
           Good(n, f) == /\ f \in [Sub(n) -> Nat]
                         /\ \A T \in Sub(n) : f[T] = IF T = {} THEN 0 ELSE w[Picked(T)] + f[T \ {Picked(T)}]
           Bad == {n \in Nat : ~\E f : Good(n, f)}
<1>1. \A T \in SUBSET S : IsFiniteSet(T) /\ Cardinality(T) \in Nat /\ Cardinality(T) <= Cardinality(S)
  BY FS_Subset, FS_CardinalityType
<1>2. \A T \in SUBSET S : T # {} => /\ Picked(T) \in T /\ T \ {Picked(T)} \in SUBSET S /\ w[Picked(T)] \in Nat
                                    /\ Cardinality(T \ {Picked(T)}) = Cardinality(T) - 1 /\ Cardinality(T) > 0
  BY <1>1, PickedLeaves
<1>3. CASE Bad = {}
  <2>1. Cardinality(S) \in Nat
    BY FS_CardinalityType
  <2>2. PICK f : Good(Cardinality(S), f)
    <3> HIDE DEF Good
    <3> QED
      BY <1>3, <2>1
  <2>3. Sub(Cardinality(S)) = SUBSET S
    BY <1>1
  <2>4. f \in [SUBSET S -> Nat] /\ \A T \in SUBSET S : f[T] = IF T = {} THEN 0 ELSE w[Picked(T)] + f[T \ {Picked(T)}]
    <3> HIDE DEF Sub
    <3> QED
      BY <2>2, <2>3
  <2>5. DOMAIN w = S
    OBVIOUS
  <2>6. f = [T \in SUBSET S |-> IF T = {} THEN 0 ELSE w[Picked(T)] + f[T \ {Picked(T)}]]
    BY <2>4
  <2> QED
    BY <2>5, <2>6 DEF Folds
<1>4. CASE Bad # {}
  <2>1. PICK n \in Bad : \A m \in Bad : n <= m
    <3>1. Bad \subseteq Nat
      OBVIOUS
    <3> HIDE DEF Bad
    <3> QED
      BY <1>4, <3>1, LeastNatural
  <2>2. n \in Nat /\ ~\E f : Good(n, f)
    BY <2>1
  <2>3. n # 0
    <3> DEFINE z == [T \in Sub(0) |-> 0]
    <3>1. ASSUME NEW T \in Sub(0) PROVE T = {}
      <4>1. T \in SUBSET S /\ Cardinality(T) <= 0
        OBVIOUS
      <4> HIDE DEF Sub
      <4>2. ~(Cardinality(T) > 0)
        BY <1>1, <4>1
      <4> QED
        BY <1>2, <4>1, <4>2
    <3>2. z \in [Sub(0) -> Nat] /\ \A T \in Sub(0) : z[T] = 0
      <4> HIDE DEF Sub
      <4> QED
        OBVIOUS
    <3>3. Good(0, z)
      <4> HIDE DEF Sub, z
      <4> QED
        BY <3>1, <3>2
    <3> HIDE DEF Good
    <3> QED
      BY <2>2, <3>3
  <2>4. n - 1 \in Nat /\ n - 1 \notin Bad
    <3>1. n - 1 \in Nat /\ ~(n <= n - 1)
      BY <2>2, <2>3
    <3> HIDE DEF Bad
    <3> QED
      BY <2>1, <3>1
  <2>5. PICK f : Good(n - 1, f)
    <3> HIDE DEF Good
    <3> QED
      BY <2>4
  <2> DEFINE g == [T \in Sub(n) |-> IF T = {} THEN 0 ELSE w[Picked(T)] + f[T \ {Picked(T)}]]
  <2>6. \A T \in Sub(n) : T # {} => /\ T \ {Picked(T)} \in Sub(n - 1) /\ T \ {Picked(T)} \in Sub(n)
                                    /\ f[T \ {Picked(T)}] \in Nat
    <3>1. \A T \in Sub(n) : T # {} => T \ {Picked(T)} \in Sub(n - 1) /\ T \ {Picked(T)} \in Sub(n)
      BY <1>1, <1>2, <2>2
    <3>2. \A T \in Sub(n - 1) : f[T] \in Nat
      BY <2>5
    <3> HIDE DEF Sub
    <3> QED
      BY <3>1, <3>2
  <2>7. ASSUME NEW T \in Sub(n - 1) PROVE T \in Sub(n) /\ g[T] = f[T]
    <3>1. T \in Sub(n)
      BY <1>1, <2>2
    <3>2. f[T] = IF T = {} THEN 0 ELSE w[Picked(T)] + f[T \ {Picked(T)}]
      BY <2>5
    <3> HIDE DEF Sub
    <3> QED
      BY <3>1, <3>2
  <2>8. \A T \in Sub(n) : T # {} => w[Picked(T)] \in Nat
    BY <1>2
  <2>9. Good(n, g)
    <3>1. g \in [Sub(n) -> Nat]
      <4> HIDE DEF Sub
      <4> QED
        BY <2>6, <2>8
    <3>2. ASSUME NEW T \in Sub(n) PROVE g[T] = IF T = {} THEN 0 ELSE w[Picked(T)] + g[T \ {Picked(T)}]
      <4>1. CASE T = {}
        <5> HIDE DEF Sub
        <5> QED
          BY <4>1
      <4>2. CASE T # {}
        <5>1. g[T] = w[Picked(T)] + f[T \ {Picked(T)}]
          <6> HIDE DEF Sub
          <6> QED
            BY <4>2
        <5>2. g[T \ {Picked(T)}] = f[T \ {Picked(T)}]
          <6> HIDE DEF Sub, g
          <6> QED
            BY <2>6, <2>7, <4>2
        <5> HIDE DEF Sub, g
        <5> QED
          BY <4>2, <5>1, <5>2
      <4> QED
        BY <4>1, <4>2
    <3> HIDE DEF Sub, g
    <3> QED
      BY <3>1, <3>2
  <2> HIDE DEF Good
  <2> QED
    BY <2>2, <2>9
<1> QED
  BY <1>3, <1>4

(* SumFunction is such a fold. *)
LEMMA SumFolds ==
    ASSUME NEW S, IsFiniteSet(S), NEW w \in [S -> Nat]
    PROVE  \E f : Folds(w, f) /\ SumFunction(w) = f[S]
<1> DEFINE f == CHOOSE g : Folds(w, g)
<1>1. Folds(w, f)
  BY FoldExists
<1>2. SumFunction(w) = f[DOMAIN w]
  BY DEF SumFunction, SumFunctionOnSet, FoldFunctionOnSet, MapThenFoldSet, Folds, Picked
<1>3. DOMAIN w = S
  OBVIOUS
<1> HIDE DEF f
<1> QED
  BY <1>1, <1>2, <1>3

(* A sum changes by what one of its terms does. *)
LEMMA SumChanges ==
    ASSUME NEW S, IsFiniteSet(S), NEW w \in [S -> Nat], NEW v \in [S -> Nat], NEW x \in S,
           \A s \in S : s # x => v[s] = w[s]
    PROVE  SumFunction(w) \in Nat /\ SumFunction(v) = SumFunction(w) + v[x] - w[x]
<1>1. PICK f : Folds(w, f) /\ SumFunction(w) = f[S]
  BY SumFolds
<1>2. PICK g : Folds(v, g) /\ SumFunction(v) = g[S]
  BY SumFolds
<1> DEFINE Right(T) == /\ f[T] \in Nat /\ g[T] \in Nat
                       /\ g[T] = IF x \in T THEN f[T] + v[x] - w[x] ELSE f[T]
           Wrong == {T \in SUBSET S : ~Right(T)}
           Bad == {Cardinality(T) : T \in Wrong}
<1>3. \A T \in SUBSET S : /\ f[T] = IF T = {} THEN 0 ELSE w[Picked(T)] + f[T \ {Picked(T)}]
                          /\ g[T] = IF T = {} THEN 0 ELSE v[Picked(T)] + g[T \ {Picked(T)}]
  <2>1. DOMAIN w = S /\ DOMAIN v = S
    OBVIOUS
  <2>2. \A T \in SUBSET S : f[T] = IF T = {} THEN 0 ELSE w[Picked(T)] + f[T \ {Picked(T)}]
    BY <1>1, <2>1 DEF Folds
  <2>3. \A T \in SUBSET S : g[T] = IF T = {} THEN 0 ELSE v[Picked(T)] + g[T \ {Picked(T)}]
    BY <1>2, <2>1 DEF Folds
  <2> QED
    BY <2>2, <2>3
<1>4. \A T \in SUBSET S : IsFiniteSet(T) /\ Cardinality(T) \in Nat
  BY FS_Subset, FS_CardinalityType
<1>5. v[x] \in Nat /\ w[x] \in Nat
  OBVIOUS
<1>6. CASE Bad = {}
  <2>1. Right(S)
    <3>1. S \in SUBSET S
      OBVIOUS
    <3> HIDE DEF Right
    <3> QED
      BY <1>6, <3>1
  <2> QED
    BY <1>1, <1>2, <2>1
<1>7. CASE Bad # {}
  <2>1. PICK n \in Bad : \A m \in Bad : n <= m
    <3>1. Bad \subseteq Nat
      <4> HIDE DEF Right
      <4> QED
        BY <1>4
    <3> HIDE DEF Bad
    <3> QED
      BY <1>7, <3>1, LeastNatural
  <2>2. PICK T \in Wrong : n = Cardinality(T)
    <3> HIDE DEF Wrong
    <3> QED
      BY <2>1
  <2>3. T \in SUBSET S /\ ~Right(T) /\ \A U \in SUBSET S : ~Right(U) => Cardinality(T) <= Cardinality(U)
    <3> HIDE DEF Right
    <3> QED
      BY <2>1, <2>2
  <2>4. T # {}
    <3>1. Right({})
      BY <1>3
    <3> HIDE DEF Right
    <3> QED
      BY <2>3, <3>1
  <2> DEFINE c == Picked(T)
             U == T \ {c}
  <2>5. c \in T /\ U \in SUBSET S /\ Cardinality(U) = Cardinality(T) - 1 /\ Cardinality(T) \in Nat
    BY <1>4, <2>3, <2>4, PickedLeaves
  <2>6. f[T] = w[c] + f[U] /\ g[T] = v[c] + g[U]
    BY <1>3, <2>3, <2>4
  <2>7. w[c] \in Nat /\ v[c] \in Nat /\ (c # x => v[c] = w[c]) /\ (x \in U <=> x \in T /\ x # c)
    BY <2>3, <2>5
  <2> HIDE DEF c, U
  <2>8. Right(U)
    <3>1. ~(Cardinality(T) <= Cardinality(U))
      BY <2>5
    <3> HIDE DEF Right
    <3> QED
      BY <2>3, <2>5, <3>1
  <2>9. f[U] \in Nat /\ g[U] \in Nat /\ g[U] = IF x \in U THEN f[U] + v[x] - w[x] ELSE f[U]
    BY <2>8
  <2> DEFINE fu == f[U]
             gu == g[U]
             wc == w[c]
             vc == v[c]
             wx == w[x]
             vx == v[x]
  <2>10. (c = x => wc = wx /\ vc = vx) /\ fu \in Nat /\ gu \in Nat /\ wc \in Nat /\ vc \in Nat /\ wx \in Nat /\ vx \in Nat
    BY <1>5, <2>7, <2>9
  <2>11. gu = (IF x \in U THEN fu + vx - wx ELSE fu) /\ (c # x => vc = wc) /\ (x \in U <=> x \in T /\ x # c)
    BY <2>7, <2>9
  <2> HIDE DEF fu, gu, wc, vc, wx, vx
  <2>12. /\ wc + fu \in Nat /\ vc + gu \in Nat
         /\ vc + gu = IF x \in T THEN wc + fu + vx - wx ELSE wc + fu
    BY <2>5, <2>10, <2>11
  <2>13. Right(T)
    BY <2>6, <2>12 DEF fu, gu, wc, vc, wx, vx
  <2> HIDE DEF Right
  <2> QED
    BY <2>3, <2>13
<1> QED
  BY <1>6, <1>7

(* A sum of nothing but zeros. *)
LEMMA SumZero ==
    ASSUME NEW S, IsFiniteSet(S)
    PROVE  SumFunction([s \in S |-> 0]) = 0
<1> DEFINE w == [s \in S |-> 0]
<1>1. w \in [S -> Nat] /\ DOMAIN w = S /\ \A s \in S : w[s] = 0
  OBVIOUS
<1> HIDE DEF w
<1>2. PICK f : Folds(w, f) /\ SumFunction(w) = f[S]
  BY <1>1, SumFolds
<1>3. \A T \in SUBSET S : f[T] = IF T = {} THEN 0 ELSE w[Picked(T)] + f[T \ {Picked(T)}]
  BY <1>1, <1>2 DEF Folds
<1>4. \A T \in SUBSET S : IsFiniteSet(T) /\ Cardinality(T) \in Nat
  BY FS_Subset, FS_CardinalityType
<1> DEFINE Wrong == {T \in SUBSET S : f[T] # 0}
           Bad == {Cardinality(T) : T \in Wrong}
<1>5. CASE Bad = {}
  BY <1>2, <1>5 DEF w
<1>6. CASE Bad # {}
  <2>1. PICK n \in Bad : \A m \in Bad : n <= m
    <3>1. Bad \subseteq Nat
      BY <1>4
    <3> HIDE DEF Bad
    <3> QED
      BY <1>6, <3>1, LeastNatural
  <2>2. PICK T \in Wrong : n = Cardinality(T)
    BY <2>1
  <2>3. T \in SUBSET S /\ f[T] # 0 /\ \A U \in SUBSET S : f[U] # 0 => Cardinality(T) <= Cardinality(U)
    BY <2>1, <2>2
  <2>4. T # {}
    BY <1>3, <2>3
  <2> DEFINE c == Picked(T)
             U == T \ {c}
  <2>5. c \in T /\ U \in SUBSET S /\ Cardinality(U) = Cardinality(T) - 1 /\ Cardinality(T) \in Nat
    BY <1>4, <2>3, <2>4, PickedLeaves
  <2>6. f[T] = w[c] + f[U] /\ w[c] = 0
    BY <1>1, <1>3, <2>3, <2>4, <2>5
  <2> HIDE DEF c, U
  <2>7. f[U] = 0
    <3>1. ~(Cardinality(T) <= Cardinality(U))
      BY <2>5
    <3> QED
      BY <2>3, <2>5, <3>1
  <2> QED
    BY <2>3, <2>6, <2>7
<1> QED
  BY <1>5, <1>6 DEF w
=============================================================================
