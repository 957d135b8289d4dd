------------------------ MODULE AgentWorkflow_proofs ------------------------
(***************************************************************************)
(* What a search, the merge of its results and the cut keep, and that the  *)
(* agents implement AnswerContract: the lemmas about lists, scores and     *)
(* sorting come first.                                                     *)
(***************************************************************************)
EXTENDS AgentWorkflow, WellFoundedInduction, FiniteSetTheorems, SequenceTheorems, TLAPS

-----------------------------------------------------------------------------
(* What is kept of a list *)

(* A set of naturals has a least one: what stands in for induction over    *)
(* data.                                                                   *)
LEMMA LeastNumber ==
    ASSUME NEW T \in SUBSET Nat, T # {}
    PROVE  \E x \in T : \A y \in T : x <= y
<1> DEFINE R == OpToRel(<, Nat)
<1>1. IsWellFoundedOn(R, Nat)
  BY NatLessThanWellFounded
<1>2. \E x \in T : \A y \in T : ~ (<<y, x>> \in R)
  <2> HIDE DEF R
  <2> QED
    BY <1>1, WFMin
<1>3. \A x, y \in T : ~ (<<y, x>> \in R) => x <= y
  BY DEF OpToRel
<1> QED
  BY <1>2, <1>3

(* Whatever holds of 0 and of every successor holds of all naturals, said  *)
(* of sets so that it can be cited.                                        *)
LEMMA Induction ==
    ASSUME NEW S \in SUBSET Nat, 0 \in S, \A n \in S : n + 1 \in S
    PROVE  S = Nat
<1> SUFFICES ASSUME Nat \ S # {} PROVE FALSE
  OBVIOUS
<1>1. PICK x \in Nat \ S : \A y \in Nat \ S : x <= y
  BY LeastNumber
<1>2. x # 0 /\ x - 1 \in Nat
  BY <1>1
<1>3. x - 1 \in S
  BY <1>1, <1>2
<1>4. x - 1 + 1 \in S
  BY <1>3
<1>5. x - 1 + 1 = x
  BY <1>1
<1> QED
  BY <1>4, <1>5

(* What the recursion of Kept is after: what is kept of every prefix. *)
KeepsUpTo(kept, S, s, T) ==
    /\ kept \in [0..Len(s) -> Seq(S)]
    /\ kept[0] = <<>>
    /\ \A n \in 1..Len(s) :
          kept[n] = IF s[n] \in T THEN Append(kept[n - 1], s[n]) ELSE kept[n - 1]
    /\ Kept(s, T) = kept[Len(s)]

(* The recursive function of Kept exists, so that Kept is what its         *)
(* equations say.                                                          *)
LEMMA KeptSolved ==
    ASSUME NEW S, NEW s \in Seq(S), NEW T
    PROVE  \E kept : KeepsUpTo(kept, S, s, T)
<1> DEFINE Rhs(f, n) == IF n = 0 THEN <<>>
                        ELSE IF s[n] \in T THEN Append(f[n - 1], s[n])
                        ELSE f[n - 1]
           Solves(f, n) == /\ f \in [0..n -> Seq(S)]
                           /\ \A k \in 0..n : f[k] = Rhs(f, k)
           Solved == {n \in Nat : n <= Len(s) => \E f : Solves(f, n)}
<1>1. 0 \in Solved
  <2>1. Solves([k \in 0..0 |-> <<>>], 0)
    OBVIOUS
  <2> HIDE DEF Solves
  <2> QED
    BY <2>1
<1>2. ASSUME NEW n \in Solved PROVE n + 1 \in Solved
  <2>1. SUFFICES ASSUME n + 1 <= Len(s) PROVE \E f : Solves(f, n + 1)
    <3> HIDE DEF Solves
    <3> QED
      OBVIOUS
  <2>2. PICK f : Solves(f, n)
    <3> HIDE DEF Solves
    <3> QED
      BY <1>2, <2>1
  <2> DEFINE g == [k \in 0..n + 1 |-> IF k = n + 1 THEN Rhs(f, n + 1) ELSE f[k]]
  <2>3. n \in Nat /\ s[n + 1] \in S /\ f[n] \in Seq(S)
    BY <2>1, <2>2
  <2>4. Rhs(f, n + 1) \in Seq(S)
    BY <2>3
  <2>5. g \in [0..n + 1 -> Seq(S)]
    <3> HIDE DEF Rhs
    <3> QED
      BY <2>2, <2>3, <2>4
  <2>6. ASSUME NEW k \in 0..n + 1 PROVE g[k] = Rhs(g, k)
    <3>1. Rhs(g, k) = Rhs(f, k)
      BY <2>3
    <3>2. g[k] = Rhs(f, k)
      <4> HIDE DEF Rhs
      <4> QED
        BY <2>2, <2>3
    <3> QED
      BY <3>1, <3>2
  <2>7. Solves(g, n + 1)
    <3> HIDE DEF g, Rhs
    <3> QED
      BY <2>5, <2>6
  <2> HIDE DEF Solves
  <2> QED
    BY <2>7
<1>3. PICK f : Solves(f, Len(s))
  <2> HIDE DEF Solves
  <2>1. Solved = Nat
    <3>1. Solved \in SUBSET Nat
      OBVIOUS
    <3> HIDE DEF Solved
    <3> QED
      BY <1>1, <1>2, <3>1, Induction
  <2> QED
    BY <2>1, LenProperties
<1>4. f = [n \in 0..Len(s) |-> Rhs(f, n)]
  <2> HIDE DEF Rhs
  <2> QED
    BY <1>3
<1> DEFINE kept == CHOOSE g : g = [n \in 0..Len(s) |-> Rhs(g, n)]
<1>5. kept = [n \in 0..Len(s) |-> Rhs(kept, n)]
  BY <1>4
<1>6. Kept(s, T) = kept[Len(s)]
  BY DEF Kept
<1> HIDE DEF kept
<1>7. \A n \in 0..Len(s) : kept[n] = Rhs(kept, n)
  <2> HIDE DEF Rhs
  <2> QED
    BY <1>5
<1> DEFINE Typed == {n \in Nat : n <= Len(s) => kept[n] \in Seq(S)}
<1>8. Typed = Nat
  <2>1. 0 \in Typed
    BY <1>5
  <2>2. ASSUME NEW n \in Typed PROVE n + 1 \in Typed
    <3>1. CASE n + 1 <= Len(s)
      <4>1. n \in Nat /\ kept[n] \in Seq(S) /\ s[n + 1] \in S
        BY <3>1
      <4>2. kept[n + 1] = Rhs(kept, n + 1)
        <5> HIDE DEF Rhs
        <5> QED
          BY <1>7, <3>1, <4>1
      <4>3. Rhs(kept, n + 1) \in Seq(S)
        BY <4>1
      <4> HIDE DEF Rhs
      <4> QED
        BY <4>1, <4>2, <4>3
    <3>2. CASE ~(n + 1 <= Len(s))
      BY <3>2
    <3> QED
      BY <3>1, <3>2
  <2>3. Typed \in SUBSET Nat
    OBVIOUS
  <2> HIDE DEF Typed
  <2> QED
    BY <2>1, <2>2, <2>3, Induction
<1>9. kept \in [0..Len(s) -> Seq(S)]
  <2>1. \A n \in 0..Len(s) : kept[n] \in Seq(S)
    BY <1>8
  <2> HIDE DEF Rhs
  <2> QED
    BY <1>5, <2>1
<1>10. kept[0] = <<>>
  BY <1>5, LenProperties
<1>11. ASSUME NEW n \in 1..Len(s)
       PROVE  kept[n] = IF s[n] \in T THEN Append(kept[n - 1], s[n]) ELSE kept[n - 1]
  BY <1>7
<1> QED
  BY <1>6, <1>9, <1>10, <1>11 DEF KeepsUpTo

(* If the elements to keep are those after place d, what is kept is the    *)
(* rest of the list from there.                                            *)
LEMMA KeptSuffix ==
    ASSUME NEW S, NEW s \in Seq(S), NEW T, NEW d \in 0..Len(s),
           \A n \in 1..Len(s) : s[n] \in T <=> n > d
    PROVE  /\ Kept(s, T) \in Seq(S) /\ Len(Kept(s, T)) = Len(s) - d
           /\ \A p \in 1..Len(s) - d : Kept(s, T)[p] = s[d + p]
<1>0. PICK kept : KeepsUpTo(kept, S, s, T)
  BY KeptSolved
<1>1. /\ kept \in [0..Len(s) -> Seq(S)]
      /\ kept[0] = <<>>
      /\ \A n \in 1..Len(s) :
            kept[n] = IF s[n] \in T THEN Append(kept[n - 1], s[n]) ELSE kept[n - 1]
      /\ Kept(s, T) = kept[Len(s)]
  BY <1>0 DEF KeepsUpTo
<1> DEFINE Suffix(n) == /\ Len(kept[n]) = IF n <= d THEN 0 ELSE n - d
                        /\ \A p \in 1..n - d : kept[n][p] = s[d + p]
           Suffixes == {n \in Nat : n <= Len(s) => Suffix(n)}
<1>2. Len(s) \in Nat
  BY LenProperties
<1>3. 0 \in Suffixes
  BY <1>1
<1>4. ASSUME NEW n \in Suffixes PROVE n + 1 \in Suffixes
  <2>1. SUFFICES ASSUME n + 1 <= Len(s) PROVE Suffix(n + 1)
    <3> HIDE DEF Suffix
    <3> QED
      OBVIOUS
  <2>2. n \in Nat /\ kept[n] \in Seq(S) /\ s[n + 1] \in S /\ Suffix(n)
    BY <1>4, <2>1, <1>1
  <2>3. n + 1 \in 1..Len(s) /\ (n + 1) - 1 = n
    BY <1>2, <2>1, <2>2
  <2>4. CASE n + 1 <= d
    <3>1. s[n + 1] \notin T
      BY <2>3, <2>4
    <3>2. kept[n + 1] = kept[n]
      BY <1>1, <2>3, <3>1
    <3> QED
      BY <2>2, <2>4, <3>2
  <2>5. CASE n + 1 > d
    <3>1. kept[n + 1] = Append(kept[n], s[n + 1])
      BY <1>1, <2>3, <2>5
    <3>2. Len(kept[n]) = n - d
      BY <2>2, <2>5
    <3> DEFINE k == kept[n]
               x == s[n + 1]
    <3>5. k \in Seq(S) /\ x \in S /\ n \in Nat /\ d \in Nat
      BY <2>2, <1>2
    <3>6. kept[n + 1] = Append(k, x) /\ Len(k) = n - d
      BY <3>1, <3>2
    <3> HIDE DEF k, x, Suffix
    <3>7. /\ Len(kept[n + 1]) = Len(k) + 1
          /\ kept[n + 1][Len(k) + 1] = x
          /\ \A p \in 1..Len(k) : kept[n + 1][p] = k[p]
      <4>1. /\ Len(Append(k, x)) = Len(k) + 1
            /\ Append(k, x)[Len(k) + 1] = x
            /\ \A p \in 1..Len(k) : Append(k, x)[p] = k[p]
        BY <3>5
      <4> QED
        BY <4>1, <3>6
    <3>3. Len(kept[n + 1]) = n + 1 - d
      BY <3>5, <3>6, <3>7
    <3>4. ASSUME NEW p \in 1..n + 1 - d PROVE kept[n + 1][p] = s[d + p]
      <4>1. CASE p = n + 1 - d
        <5>1. p = Len(k) + 1 /\ d + p = n + 1
          BY <4>1, <3>5, <3>6
        <5> QED
          BY <5>1, <3>7 DEF x
      <4>2. CASE p # n + 1 - d
        <5>1. p \in 1..n - d
          BY <4>2, <3>5
        <5>2. k[p] = s[d + p]
          BY <5>1, <2>2 DEF k, Suffix
        <5> QED
          BY <5>1, <5>2, <3>6, <3>7
      <4> QED
        BY <4>1, <4>2
    <3> QED
      BY <2>5, <3>3, <3>4 DEF Suffix
  <2> QED
    BY <2>2, <2>4, <2>5
<1>5. Suffixes = Nat
  <2>1. Suffixes \in SUBSET Nat
    OBVIOUS
  <2> HIDE DEF Suffixes
  <2> QED
    BY <1>3, <1>4, <2>1, Induction
<1>6. Suffix(Len(s))
  <2> HIDE DEF Suffix
  <2> QED
    BY <1>2, <1>5
<1> QED
  BY <1>1, <1>2, <1>6

(* Kept drops elements and nothing else: what is kept stands at some       *)
(* places of the list, in their order, and all elements to keep are among  *)
(* them.                                                                   *)
LEMMA KeptPlaces ==
    ASSUME NEW S, NEW s \in Seq(S), NEW T
    PROVE  /\ Kept(s, T) \in Seq(S)
           /\ \E at : /\ at \in [1..Len(Kept(s, T)) -> 1..Len(s)]
                      /\ \A p \in 1..Len(Kept(s, T)) :
                            Kept(s, T)[p] = s[at[p]] /\ s[at[p]] \in T
                      /\ \A p, q \in 1..Len(Kept(s, T)) : p < q => at[p] < at[q]
                      /\ \A i \in 1..Len(s) : s[i] \in T =>
                            \E p \in 1..Len(Kept(s, T)) : at[p] = i
<1>0. PICK kept : KeepsUpTo(kept, S, s, T)
  BY KeptSolved
<1>1. /\ kept \in [0..Len(s) -> Seq(S)]
      /\ kept[0] = <<>>
      /\ \A n \in 1..Len(s) :
            kept[n] = IF s[n] \in T THEN Append(kept[n - 1], s[n]) ELSE kept[n - 1]
      /\ Kept(s, T) = kept[Len(s)]
  BY <1>0 DEF KeepsUpTo
<1> DEFINE Places(k, n, at) == /\ at \in [1..Len(k) -> 1..n]
                               /\ \A p \in 1..Len(k) : k[p] = s[at[p]] /\ s[at[p]] \in T
                               /\ \A p, q \in 1..Len(k) : p < q => at[p] < at[q]
                               /\ \A i \in 1..n : s[i] \in T => \E p \in 1..Len(k) : at[p] = i
           Placed == {n \in Nat : n <= Len(s) => \E at : Places(kept[n], n, at)}
<1>2. Len(s) \in Nat
  BY LenProperties
<1>3. 0 \in Placed
  <2>1. Places(<<>>, 0, [p \in {} |-> 0])
    OBVIOUS
  <2> HIDE DEF Places
  <2> QED
    BY <1>1, <2>1
<1>4. ASSUME NEW n \in Placed PROVE n + 1 \in Placed
  <2>1. SUFFICES ASSUME n + 1 <= Len(s) PROVE \E at : Places(kept[n + 1], n + 1, at)
    <3> HIDE DEF Places
    <3> QED
      OBVIOUS
  <2>2. n \in Nat
    OBVIOUS
  <2>3. PICK at : Places(kept[n], n, at)
    <3> HIDE DEF Places
    <3> QED
      BY <1>4, <2>1, <1>2
  <2>4. n + 1 \in 1..Len(s) /\ (n + 1) - 1 = n /\ kept[n] \in Seq(S) /\ s[n + 1] \in S
    <3> HIDE DEF Places, Placed
    <3>1. n \in 0..Len(s) /\ n + 1 \in 1..Len(s)
      BY <1>2, <2>1, <2>2
    <3> QED
      BY <1>1, <1>2, <2>2, <3>1
  <2>5. CASE s[n + 1] \notin T
    <3>1. kept[n + 1] = kept[n]
      BY <1>1, <2>4, <2>5
    <3>2. Places(kept[n], n + 1, at)
      BY <2>2, <2>3, <2>5
    <3> HIDE DEF Places
    <3> QED
      BY <3>1, <3>2
  <2>6. CASE s[n + 1] \in T
    <3> DEFINE m == Len(kept[n])
               new == [p \in 1..m + 1 |-> IF p = m + 1 THEN n + 1 ELSE at[p]]
    <3>1. kept[n + 1] = Append(kept[n], s[n + 1])
      BY <1>1, <2>4, <2>6
    <3>2. m \in Nat
      BY <2>4
    <3>3. /\ Len(kept[n + 1]) = m + 1
          /\ kept[n + 1][m + 1] = s[n + 1]
          /\ \A p \in 1..m : kept[n + 1][p] = kept[n][p]
      BY <3>1, <2>4
    <3> HIDE DEF m
    <3>4. new \in [1..m + 1 -> 1..n + 1]
      BY <2>2, <2>3, <3>2 DEF m
    <3>5. \A p \in 1..m + 1 : kept[n + 1][p] = s[new[p]] /\ s[new[p]] \in T
      BY <2>3, <2>6, <3>2, <3>3 DEF m
    <3>6. ASSUME NEW p \in 1..m + 1, NEW q \in 1..m + 1, p < q PROVE new[p] < new[q]
      <4>1. p \in 1..m /\ at \in [1..m -> 1..n]
        BY <2>3, <3>2, <3>6 DEF m
      <4>4. new[p] = at[p] /\ at[p] \in 1..n
        BY <3>2, <4>1
      <4>2. CASE q = m + 1
        BY <4>2, <4>4, <2>2, <3>2
      <4>3. CASE q # m + 1
        <5>1. q \in 1..m /\ new[q] = at[q]
          BY <4>3, <3>2
        <5> QED
          BY <2>3, <3>6, <4>1, <4>4, <5>1 DEF m
      <4> QED
        BY <4>2, <4>3
    <3>7. ASSUME NEW i \in 1..n + 1, s[i] \in T PROVE \E p \in 1..m + 1 : new[p] = i
      <4>1. CASE i = n + 1
        BY <4>1, <3>2
      <4>2. CASE i # n + 1
        <5>1. PICK p \in 1..m : at[p] = i
          BY <4>2, <2>2, <2>3, <3>7 DEF m
        <5> QED
          BY <5>1, <3>2
      <4> QED
        BY <4>1, <4>2
    <3>8. Places(kept[n + 1], n + 1, new)
      <4> HIDE DEF new
      <4> QED
        BY <3>3, <3>4, <3>5, <3>6, <3>7
    <3> HIDE DEF Places
    <3> QED
      BY <3>8
  <2> QED
    BY <2>5, <2>6
<1>5. Placed = Nat
  <2>1. Placed \in SUBSET Nat
    OBVIOUS
  <2> HIDE DEF Placed
  <2> QED
    BY <1>3, <1>4, <2>1, Induction
<1>6. PICK at : Places(kept[Len(s)], Len(s), at)
  <2> HIDE DEF Places
  <2> QED
    BY <1>2, <1>5
<1>7. Kept(s, T) \in Seq(S) /\ Places(Kept(s, T), Len(s), at)
  <2> HIDE DEF Places
  <2> QED
    BY <1>1, <1>2, <1>6
<1> QED
  BY <1>7

-----------------------------------------------------------------------------
(* Scores, and sorting by them *)

(* A score: numerator and denominator. *)
Fraction == Int \X (Nat \ {0})

(* Multiplying by a positive number keeps the order. *)
LEMMA Scales ==
    ASSUME NEW a \in Int, NEW b \in Int, NEW k \in Nat \ {0}
    PROVE  a <= b <=> a * k <= b * k
<1>1. a <= b => a * k <= b * k
  OBVIOUS
<1>2. b + 1 <= a => b * k + k <= a * k
  OBVIOUS
<1> QED
  BY <1>1, <1>2

(* The order of scores, compared crosswise, is transitive. *)
LEMMA AtMost ==
    ASSUME NEW x \in Fraction, NEW y \in Fraction, NEW z \in Fraction,
           ~Greater(x, y), ~Greater(y, z)
    PROVE  ~Greater(x, z)
<1>1. /\ x[1] \in Int /\ x[2] \in Nat \ {0} /\ y[1] \in Int /\ y[2] \in Nat \ {0}
      /\ z[1] \in Int /\ z[2] \in Nat \ {0}
  BY DEF Fraction
<1>2. x[1] * y[2] <= y[1] * x[2] /\ y[1] * z[2] <= z[1] * y[2]
  BY <1>1 DEF Greater
<1>3. (x[1] * y[2]) * z[2] <= (y[1] * x[2]) * z[2]
  BY <1>1, <1>2, Scales
<1>4. (y[1] * z[2]) * x[2] <= (z[1] * y[2]) * x[2]
  BY <1>1, <1>2, Scales
<1>5. (x[1] * z[2]) * y[2] <= (z[1] * x[2]) * y[2]
  BY <1>1, <1>3, <1>4
<1>6. x[1] * z[2] <= z[1] * x[2]
  BY <1>1, <1>5, Scales
<1> QED
  BY <1>1, <1>6 DEF Greater

(* No score is above itself, and of two at most one is above the other. *)
LEMMA GreaterOrder ==
    ASSUME NEW x \in Fraction, NEW y \in Fraction
    PROVE  ~Greater(x, x) /\ (Greater(x, y) => ~Greater(y, x))
<1>1. x[1] \in Int /\ x[2] \in Nat \ {0} /\ y[1] \in Int /\ y[2] \in Nat \ {0}
  BY DEF Fraction
<1> QED
  BY <1>1 DEF Greater

(* The places of a list. *)
LEMMA ListPlaces ==
    ASSUME NEW S, NEW s \in Seq(S)
    PROVE  /\ Len(s) \in Nat /\ DOMAIN s = 1..Len(s)
           /\ IsFiniteSet(DOMAIN s) /\ Cardinality(DOMAIN s) = Len(s)
           /\ \A i \in DOMAIN s : s[i] \in S
<1>1. Len(s) \in Nat /\ DOMAIN s = 1..Len(s) /\ \A i \in DOMAIN s : s[i] \in S
  BY LenProperties
<1>2. IsFiniteSet(1..Len(s)) /\ Cardinality(1..Len(s)) = IF 1 > Len(s) THEN 0 ELSE Len(s) - 1 + 1
  BY <1>1, FS_Interval
<1> QED
  BY <1>1, <1>2

(* What stands at the places of a list of scored chunks. *)
LEMMA ScoredPlaces ==
    ASSUME NEW s \in Seq(Scored), NEW i \in DOMAIN s
    PROVE  i \in Nat /\ s[i] \in Scored /\ s[i].chunk \in Chunks /\ s[i].score \in Fraction
<1>1. i \in Nat /\ s[i] \in Scored
  BY ListPlaces
<1> QED
  BY <1>1 DEF Scored, Fraction

(* The places of s whose elements go before that of i in the sorted list. *)
Before(s, i) == {j \in DOMAIN s : \/ Greater(s[j].score, s[i].score)
                                  \/ j < i /\ ~Greater(s[i].score, s[j].score)}

(* That is a strict total order of the places, and nothing goes before a   *)
(* greater score.                                                          *)
LEMMA BeforeOrder ==
    ASSUME NEW s \in Seq(Scored), NEW i \in DOMAIN s, NEW j \in DOMAIN s
    PROVE  /\ i \notin Before(s, i)
           /\ i # j => i \in Before(s, j) \/ j \in Before(s, i)
           /\ j \in Before(s, i) => Before(s, j) \subseteq Before(s, i)
           /\ j \in Before(s, i) => ~Greater(s[i].score, s[j].score)
<1>1. DOMAIN s \subseteq Nat /\ \A k \in DOMAIN s : s[k].score \in Fraction
  BY ScoredPlaces
<1>2. i \notin Before(s, i)
  BY <1>1, GreaterOrder DEF Before
<1>3. i # j => i \in Before(s, j) \/ j \in Before(s, i)
  BY <1>1, GreaterOrder DEF Before
<1>4. j \in Before(s, i) => ~Greater(s[i].score, s[j].score)
  BY <1>1, GreaterOrder DEF Before
<1>5. ASSUME j \in Before(s, i), NEW k \in Before(s, j) PROVE k \in Before(s, i)
  <2> DEFINE x == s[i].score
             y == s[j].score
             z == s[k].score
  <2>1. k \in DOMAIN s /\ x \in Fraction /\ y \in Fraction /\ z \in Fraction
    BY <1>1 DEF Before
  <2>2. ~Greater(x, y) /\ (j < i \/ Greater(y, x))
    BY <1>4, <1>5 DEF Before
  <2>3. ~Greater(y, z) /\ (k < j \/ Greater(z, y))
    BY <2>1, <1>5, GreaterOrder DEF Before
  <2>4. ~Greater(x, z)
    <3> HIDE DEF x, y, z
    <3> QED
      BY <2>1, <2>2, <2>3, AtMost
  <2>5. CASE Greater(y, x) \/ Greater(z, y)
    <3>1. Greater(z, x)
      <4> HIDE DEF x, y, z
      <4>1. CASE Greater(y, x)
        BY <4>1, <2>1, <2>3, AtMost
      <4>2. CASE Greater(z, y)
        BY <4>2, <2>1, <2>2, AtMost
      <4> QED
        BY <2>5, <4>1, <4>2
    <3> QED
      BY <2>1, <3>1 DEF Before
  <2>6. CASE j < i /\ k < j
    <3>1. k < i
      BY <2>6, <1>1, <2>1
    <3> QED
      BY <2>1, <2>4, <3>1 DEF Before
  <2> QED
    BY <2>2, <2>3, <2>5, <2>6
<1> QED
  BY <1>2, <1>3, <1>4, <1>5

(* Place counts what goes before, so it is a place of the list, and a      *)
(* later one for what comes later.                                         *)
LEMMA PlaceOrder ==
    ASSUME NEW s \in Seq(Scored), NEW i \in DOMAIN s
    PROVE  /\ Place(s, i) = 1 + Cardinality(Before(s, i))
           /\ IsFiniteSet(Before(s, i)) /\ Cardinality(Before(s, i)) \in Nat
           /\ Place(s, i) \in 1..Len(s)
           /\ \A j \in DOMAIN s : j \in Before(s, i) => Place(s, j) < Place(s, i)
<1>1. Len(s) \in Nat /\ DOMAIN s = 1..Len(s)
  BY ListPlaces
<1>2. IsFiniteSet(DOMAIN s) /\ Cardinality(DOMAIN s) = Len(s)
  BY ListPlaces
<1>3. \A k : Place(s, k) = 1 + Cardinality(Before(s, k))
  BY DEF Place, Before
<1>4. ASSUME NEW k \in DOMAIN s
      PROVE  IsFiniteSet(Before(s, k)) /\ Cardinality(Before(s, k)) \in Nat
  <2>1. Before(s, k) \in SUBSET DOMAIN s
    BY DEF Before
  <2> QED
    BY <1>2, <2>1, FS_Subset, FS_CardinalityType
<1>5. Cardinality(Before(s, i)) < Len(s)
  <2>1. Before(s, i) \in SUBSET DOMAIN s /\ Before(s, i) # DOMAIN s
    BY BeforeOrder DEF Before
  <2>2. Cardinality(Before(s, i)) <= Len(s) /\ Cardinality(Before(s, i)) # Len(s)
    BY <1>2, <2>1, FS_Subset
  <2> QED
    BY <1>1, <1>4, <2>2
<1>6. ASSUME NEW j \in DOMAIN s, j \in Before(s, i) PROVE Place(s, j) < Place(s, i)
  <2>1. Before(s, j) \in SUBSET Before(s, i) /\ Before(s, j) # Before(s, i)
    BY <1>6, BeforeOrder
  <2>2. /\ Cardinality(Before(s, j)) <= Cardinality(Before(s, i))
        /\ Cardinality(Before(s, j)) # Cardinality(Before(s, i))
    BY <1>4, <2>1, FS_Subset
  <2> QED
    BY <1>3, <1>4, <2>2
<1> QED
  BY <1>1, <1>3, <1>4, <1>5, <1>6

(* at says where the elements of the sorted list come from; all of them    *)
(* are there.                                                              *)
Sorts(at, s) ==
    /\ at \in [DOMAIN s -> DOMAIN s]
    /\ \A p \in DOMAIN s : SortDesc(s)[p] = s[at[p]] /\ Place(s, at[p]) = p
    /\ \A i \in DOMAIN s : \E p \in DOMAIN s : at[p] = i

(* SortDesc loses and doubles nothing: different elements get different    *)
(* places, and a finite list has no other places (sort by score,           *)
(* hybrid_search).                                                         *)
LEMMA SortPlaces ==
    ASSUME NEW s \in Seq(Scored)
    PROVE  \E at : Sorts(at, s)
<1> DEFINE D == DOMAIN s
           place == [i \in D |-> Place(s, i)]
           at == [p \in D |-> CHOOSE i \in D : Place(s, i) = p]
<1>1. Len(s) \in Nat /\ D = 1..Len(s) /\ IsFiniteSet(D)
  BY ListPlaces
<1>3. place \in [D -> D]
  BY <1>1, PlaceOrder
<1>4. ASSUME NEW i \in D, NEW j \in D, Place(s, i) = Place(s, j) PROVE i = j
  <2>1. Place(s, i) \in Nat /\ Place(s, j) \in Nat
    BY <1>1, PlaceOrder
  <2>2. ~(Place(s, i) < Place(s, j)) /\ ~(Place(s, j) < Place(s, i))
    BY <1>4, <2>1
  <2> QED
    BY <2>2, BeforeOrder, PlaceOrder
<1>5. place \in Injection(D, D)
  BY <1>3, <1>4 DEF Injection, IsInjective
<1>6. place \in Surjection(D, D)
  <2> HIDE DEF place, D
  <2> QED
    BY <1>1, <1>5, FS_Injection
<1>7. \A p \in D : \E i \in D : Place(s, i) = p
  BY <1>6 DEF Surjection
<1>8. at \in [D -> D] /\ \A p \in D : Place(s, at[p]) = p
  BY <1>7
<1>9. \A p \in D : SortDesc(s)[p] = s[at[p]]
  BY DEF SortDesc
<1>10. ASSUME NEW i \in D PROVE \E p \in D : at[p] = i
  <2>1. Place(s, i) \in D /\ at[Place(s, i)] \in D /\ Place(s, at[Place(s, i)]) = Place(s, i)
    BY <1>3, <1>8
  <2> QED
    BY <1>4, <2>1
<1> HIDE DEF at
<1> QED
  BY <1>8, <1>9, <1>10 DEF Sorts

(* t is what a cut after k leaves of s, best first: fewer than k elements  *)
(* are above any of its own, and what was cut off is above none.           *)
Leads(at, t, s, k) ==
    /\ t \in Seq(Scored)
    /\ Len(t) = IF Len(s) < k THEN Len(s) ELSE k
    /\ DOMAIN t \subseteq DOMAIN s /\ at \in [DOMAIN t -> DOMAIN s]
    /\ \A p \in DOMAIN t : t[p] = s[at[p]]
    /\ \A p, q \in DOMAIN t : p < q => at[p] # at[q] /\ ~Greater(t[q].score, t[p].score)
    /\ \A p \in DOMAIN t : Cardinality({j \in DOMAIN s : Greater(s[j].score, t[p].score)}) < k
    /\ \A i \in DOMAIN s : (\A p \in DOMAIN t : at[p] # i) =>
          /\ Len(t) = k
          /\ \A p \in DOMAIN t : ~Greater(s[i].score, t[p].score)

(* The sorted list, cut after k, holds k best elements (reranked[:top_k]). *)
LEMMA TopLeads ==
    ASSUME NEW s \in Seq(Scored), NEW k \in Nat
    PROVE  \E at : Leads(at, Top(SortDesc(s), k), s, k)
<1> DEFINE n == Len(s)
           u == SortDesc(s)
           m == IF n < k THEN n ELSE k
           t == Top(u, k)
<1>1. n \in Nat /\ DOMAIN s = 1..n /\ m \in 0..n
  BY ListPlaces
<1>2. PICK at : Sorts(at, s)
  BY SortPlaces
<1>3. /\ at \in [1..n -> 1..n]
      /\ \A p \in 1..n : u[p] = s[at[p]] /\ Place(s, at[p]) = p
      /\ \A i \in 1..n : \E p \in 1..n : at[p] = i
  BY <1>1, <1>2 DEF Sorts
<1>4. u \in Seq(Scored) /\ Len(u) = n
  <2>1. u = [p \in 1..n |-> u[p]]
    BY <1>1 DEF SortDesc
  <2>2. \A p \in 1..n : u[p] \in Scored
    BY <1>1, <1>3, ScoredPlaces
  <2> HIDE DEF u, n
  <2>3. u \in [1..n -> Scored]
    BY <2>1, <2>2
  <2> QED
    BY <1>1, <2>3
<1>5. t \in Seq(Scored) /\ Len(t) = m /\ \A p \in 1..m : t[p] = u[p]
  <2>1. t = SubSeq(u, 1, m)
    BY <1>4 DEF Top
  <2> HIDE DEF t, u, n
  <2>2. \A i \in 1..m : u[i] \in Scored
    BY <1>1, <1>4
  <2> HIDE DEF m
  <2>3. /\ SubSeq(u, 1, m) \in Seq(Scored)
        /\ Len(SubSeq(u, 1, m)) = IF 1 <= m THEN m - 1 + 1 ELSE 0
        /\ \A i \in 1..m - 1 + 1 : SubSeq(u, 1, m)[i] = u[1 + i - 1]
    BY <1>1, <2>2, SubSeqProperties
  <2> QED
    BY <1>1, <2>1, <2>3
<1>6. DOMAIN t = 1..m
  BY <1>5, ListPlaces
<1> HIDE DEF t, u, n
<1> DEFINE top == [p \in 1..m |-> at[p]]
<1>7. /\ top \in [1..m -> 1..n] /\ 1..m \subseteq 1..n
      /\ \A p \in 1..m : top[p] = at[p] /\ t[p] = s[at[p]] /\ Place(s, at[p]) = p
  <2>1. 1..m \subseteq 1..n
    BY <1>1
  <2> HIDE DEF m
  <2> QED
    BY <2>1, <1>3, <1>5
<1>8. ASSUME NEW p \in 1..n, NEW q \in 1..n, p < q
      PROVE  at[p] # at[q] /\ ~Greater(s[at[q]].score, s[at[p]].score)
  <2>1. at[p] \in DOMAIN s /\ at[q] \in DOMAIN s /\ Place(s, at[p]) = p /\ Place(s, at[q]) = q
    BY <1>1, <1>3
  <2>2. at[p] # at[q]
    BY <2>1, <1>8
  <2>3. at[q] \notin Before(s, at[p])
    BY <2>1, <1>8, PlaceOrder
  <2>4. at[p] \in Before(s, at[q])
    BY <2>1, <2>2, <2>3, BeforeOrder
  <2> QED
    BY <2>1, <2>2, <2>4, BeforeOrder
<1>9. ASSUME NEW p \in 1..m
      PROVE  Cardinality({j \in DOMAIN s : Greater(s[j].score, t[p].score)}) < k
  <2> DEFINE above == {j \in DOMAIN s : Greater(s[j].score, t[p].score)}
  <2>1. at[p] \in DOMAIN s /\ t[p] = s[at[p]] /\ Place(s, at[p]) = p
    BY <1>1, <1>3, <1>7
  <2>2. above \in SUBSET Before(s, at[p])
    BY <2>1 DEF Before
  <2> HIDE DEF above
  <2>3. /\ IsFiniteSet(Before(s, at[p])) /\ Cardinality(Before(s, at[p])) \in Nat
        /\ p = 1 + Cardinality(Before(s, at[p]))
    BY <2>1, PlaceOrder
  <2>4. Cardinality(above) <= Cardinality(Before(s, at[p])) /\ IsFiniteSet(above)
    BY <2>2, <2>3, FS_Subset
  <2>5. Cardinality(above) \in Nat
    BY <2>4, FS_CardinalityType
  <2>6. Cardinality(above) < k
    BY <1>1, <2>3, <2>4, <2>5
  <2> QED
    BY <2>6 DEF above
<1>10. ASSUME NEW i \in 1..n, \A p \in 1..m : at[p] # i
       PROVE  m = k /\ \A p \in 1..m : ~Greater(s[i].score, t[p].score)
  <2>1. PICK q \in 1..n : at[q] = i
    BY <1>3
  <2>2. q > m
    BY <1>1, <1>10, <2>1
  <2>3. m = k
    BY <1>1, <2>1, <2>2
  <2>4. ASSUME NEW p \in 1..m PROVE ~Greater(s[i].score, t[p].score)
    <3>1. p \in 1..n /\ p < q
      BY <1>1, <2>2
    <3> QED
      BY <1>7, <1>8, <2>1, <3>1
  <2> QED
    BY <2>3, <2>4
<1>11. Leads(top, t, s, k)
  <2>1. \A p, q \in 1..m : p < q => top[p] # top[q] /\ ~Greater(t[q].score, t[p].score)
    BY <1>7, <1>8
  <2>2. \A i \in 1..n : (\A p \in 1..m : top[p] # i) =>
            m = k /\ \A p \in 1..m : ~Greater(s[i].score, t[p].score)
    BY <1>7, <1>10
  <2>3. \A p \in 1..m : t[p] = s[top[p]]
    BY <1>7
  <2>4. m = IF Len(s) < k THEN Len(s) ELSE k
    BY DEF n
  <2>5. /\ top \in [1..m -> 1..n] /\ 1..m \subseteq 1..n
    BY <1>7
  <2> HIDE DEF top, m
  <2> QED
    BY <1>1, <1>5, <1>6, <1>9, <2>1, <2>2, <2>3, <2>4, <2>5 DEF Leads
<1> QED
  BY <1>11 DEF t, u

-----------------------------------------------------------------------------
(* One search *)

(* Min and Max of a finite set of integers. *)
LEMMA Extremes ==
    ASSUME NEW S \in SUBSET Int, IsFiniteSet(S), S # {}
    PROVE  /\ Min(S) \in S /\ Max(S) \in S
           /\ \A y \in S : Min(S) <= y /\ y <= Max(S)
<1> DEFINE Bounded(T) == \E x, z \in T : \A y \in T : x <= y /\ y <= z
           Sizes == {n \in Nat : \A T \in SUBSET Int :
                        IsFiniteSet(T) /\ Cardinality(T) = n + 1 => Bounded(T)}
<1>1. 0 \in Sizes
  <2> SUFFICES ASSUME NEW T \in SUBSET Int, IsFiniteSet(T), Cardinality(T) = 1 PROVE Bounded(T)
    OBVIOUS
  <2>1. PICK x : T = {x}
    BY FS_Singleton
  <2> QED
    BY <2>1
<1>2. ASSUME NEW n \in Sizes PROVE n + 1 \in Sizes
  <2> SUFFICES ASSUME NEW T \in SUBSET Int, IsFiniteSet(T), Cardinality(T) = n + 1 + 1
               PROVE  Bounded(T)
    OBVIOUS
  <2>1. T # {}
    BY FS_EmptySet
  <2>2. PICK t \in T : TRUE
    BY <2>1
  <2>3. /\ T \ {t} \in SUBSET Int /\ IsFiniteSet(T \ {t})
        /\ Cardinality(T \ {t}) = n + 1
    <3> HIDE DEF Bounded, Sizes
    <3>1. IsFiniteSet(T \ {t}) /\ Cardinality(T \ {t}) = Cardinality(T) - 1
      BY <2>2, FS_RemoveElement
    <3>2. n \in Nat
      BY DEF Sizes
    <3> QED
      BY <3>1, <3>2
  <2>4. Bounded(T \ {t})
    <3> HIDE DEF Bounded
    <3> QED
      BY <2>3
  <2>5. PICK x, z \in T \ {t} : \A y \in T \ {t} : x <= y /\ y <= z
    BY <2>4
  <2> DEFINE low == IF x <= t THEN x ELSE t
             high == IF t <= z THEN z ELSE t
  <2>6. x \in Int /\ z \in Int /\ t \in Int /\ low \in T /\ high \in T
    OBVIOUS
  <2>7. ASSUME NEW y \in T PROVE low <= y /\ y <= high
    <3>1. y \in Int /\ (y = t \/ (x <= y /\ y <= z))
      BY <2>5
    <3> QED
      BY <2>6, <3>1
  <2> HIDE DEF low, high
  <2> QED
    BY <2>6, <2>7
<1>3. Sizes = Nat
  <2>1. Sizes \in SUBSET Nat
    OBVIOUS
  <2> HIDE DEF Sizes
  <2> QED
    BY <1>1, <1>2, <2>1, Induction
<1>4. Cardinality(S) \in Nat /\ Cardinality(S) # 0
  BY FS_CardinalityType, FS_EmptySet
<1>5. Cardinality(S) - 1 \in Sizes
  <2> HIDE DEF Sizes
  <2> QED
    BY <1>3, <1>4
<1>6. Bounded(S)
  <2> HIDE DEF Bounded
  <2> QED
    BY <1>4, <1>5
<1> QED
  BY <1>6 DEF Min, Max

(* _minmax divides by zero for no values: equal ones are all 1. *)
LEMMA MinMaxType ==
    ASSUME NEW P, IsFiniteSet(P), NEW f \in [P -> Int], NEW c \in P
    PROVE  MinMax({f[d] : d \in P}, f[c]) \in Int \X (Nat \ {0})
<1> DEFINE S == {f[d] : d \in P}
<1>1. IsFiniteSet(S)
  <2>1. f \in Surjection(P, S)
    BY DEF Surjection
  <2> HIDE DEF S
  <2> QED
    BY <2>1, FS_Surjection
<1>2. S \in SUBSET Int /\ f[c] \in S
  OBVIOUS
<1> HIDE DEF S
<1>3. /\ Min(S) \in Int /\ Max(S) \in Int /\ Min(S) <= Max(S)
  BY <1>1, <1>2, Extremes
<1> QED
  BY <1>2, <1>3 DEF MinMax, S

(* The blend of two normalized scores is a score. *)
LEMMA BlendType ==
    ASSUME NEW Q, IsFiniteSet(Q), NEW rr \in [Q -> Int],
           NEW P, IsFiniteSet(P), NEW fusion \in [P -> Int], NEW c \in P \cap Q
    PROVE  Blend(rr, fusion, c) \in Fraction
<1>1. Weight[1] \in Int /\ Weight[2] \in Nat \ {0}
  BY RankingAssumption
<1> DEFINE r == MinMax({rr[d] : d \in DOMAIN rr}, rr[c])
           f == MinMax({fusion[d] : d \in DOMAIN fusion}, fusion[c])
<1>2. r \in Int \X (Nat \ {0}) /\ f \in Int \X (Nat \ {0})
  BY MinMaxType
<1>3. Weight[1] # Weight[2] =>
        Blend(rr, fusion, c) = <<Weight[1] * r[1] * f[2] + (Weight[2] - Weight[1]) * f[1] * r[2],
                                 Weight[2] * r[2] * f[2]>>
  BY DEF Blend
<1> HIDE DEF r, f
<1>4. r[1] \in Int /\ r[2] \in Nat \ {0} /\ f[1] \in Int /\ f[2] \in Nat \ {0}
  BY <1>2
<1>5. Weight[1] * r[1] * f[2] + (Weight[2] - Weight[1]) * f[1] * r[2] \in Int
  BY <1>1, <1>4
<1>6. Weight[2] * r[2] * f[2] \in Nat \ {0}
  BY <1>1, <1>4
<1>7. CASE Weight[1] = Weight[2]
  <2>1. Blend(rr, fusion, c) = <<rr[c], 1>>
    BY <1>7 DEF Blend
  <2> QED
    BY <2>1 DEF Fraction
<1>8. CASE Weight[1] # Weight[2]
  BY <1>3, <1>5, <1>6, <1>8 DEF Fraction
<1> QED
  BY <1>7, <1>8

(* The sum of reciprocal ranks is a number. *)
LEMMA FusionType ==
    ASSUME NEW dense \in Seq(Chunks), NEW sparse \in Seq(Chunks), NEW c
    PROVE  Fusion(dense, sparse, c) \in Int
<1>1. ASSUME NEW list \in Seq(Chunks) PROVE Reciprocal(list, c) \in Int
  <2>1. CASE c \in Listed(list)
    <3> DEFINE at == CHOOSE i \in DOMAIN list : list[i] = c
    <3>1. at \in DOMAIN list /\ DOMAIN list = 1..Len(list) /\ Len(list) \in Nat
      BY <2>1, ListPlaces DEF Listed
    <3>2. Reciprocal(list, c) = RrfUnit \div (RrfK + at - 1)
      BY <2>1 DEF Reciprocal
    <3> HIDE DEF at
    <3> QED
      BY <3>1, <3>2, RankingAssumption
  <2>2. CASE c \notin Listed(list)
    BY <2>2 DEF Reciprocal
  <2> QED
    BY <2>1, <2>2
<1> QED
  BY <1>1 DEF Fusion

(* A list without repetition. *)
Distinct(s) == \A i, j \in DOMAIN s : s[i] = s[j] => i = j

(* Both searches return chunks in scope, each once. *)
LEMMA SearchLists ==
    ASSUME NEW S \in SUBSET Chunks, NEW k \in Nat
    PROVE  /\ \A dense \in VectorSearch(S, k) : dense \in Seq(S) /\ Distinct(dense)
           /\ \A sparse \in KeywordSearch(S, k) : sparse \in Seq(S) /\ Distinct(sparse)
<1>1. IsFiniteSet(S) /\ Cardinality(S) \in Nat
  BY RankingAssumption, FS_Subset, FS_CardinalityType
<1>2. ASSUME NEW n \in Nat, NEW s \in Rankings(S, n) PROVE s \in Seq(S) /\ Distinct(s)
  BY DEF Rankings, Distinct
<1>3. (IF Cardinality(S) < k THEN Cardinality(S) ELSE k) \in Nat
  BY <1>1
<1> QED
  BY <1>2, <1>3 DEF VectorSearch, KeywordSearch

(* The candidates are the chunks of both lists, each once. *)
LEMMA CandidatesUnite ==
    ASSUME NEW S, NEW dense \in Seq(S), NEW sparse \in Seq(S), Distinct(dense), Distinct(sparse)
    PROVE  /\ Candidates(dense, sparse) \in Seq(S) /\ Distinct(Candidates(dense, sparse))
           /\ Listed(Candidates(dense, sparse)) \subseteq Listed(dense) \cup Listed(sparse)
<1> DEFINE fresh == Listed(sparse) \ Listed(dense)
           rest == Kept(sparse, fresh)
           all == dense \o rest
           n == Len(dense)
           m == Len(rest)
<1>1. rest \in Seq(S)
  BY KeptPlaces
<1>2. PICK at : /\ at \in [1..m -> 1..Len(sparse)]
                /\ \A p \in 1..m : rest[p] = sparse[at[p]] /\ sparse[at[p]] \in fresh
                /\ \A p, q \in 1..m : p < q => at[p] < at[q]
  <2> HIDE DEF fresh
  <2> QED
    BY KeptPlaces
<1>3. /\ n \in Nat /\ DOMAIN dense = 1..n /\ m \in Nat
      /\ Len(sparse) \in Nat /\ DOMAIN sparse = 1..Len(sparse)
  BY <1>1, ListPlaces
<1>4. Candidates(dense, sparse) = all
  BY DEF Candidates
<1> HIDE DEF fresh, rest
<1>5. /\ all \in Seq(S) /\ Len(all) = n + m /\ DOMAIN all = 1..n + m
      /\ \A i \in 1..n + m : all[i] = IF i <= n THEN dense[i] ELSE rest[i - n]
  <2>1. /\ all \in Seq(S) /\ Len(all) = n + m
        /\ \A i \in 1..n + m : all[i] = IF i <= n THEN dense[i] ELSE rest[i - n]
    BY <1>1, ConcatProperties
  <2> HIDE DEF all
  <2> QED
    BY <2>1, ListPlaces
<1> HIDE DEF all
<1>6. ASSUME NEW i \in 1..n + m
      PROVE  \/ i \in 1..n /\ all[i] = dense[i] /\ all[i] \in Listed(dense)
             \/ i - n \in 1..m /\ all[i] = rest[i - n] /\ all[i] \in fresh
  <2>1. CASE i <= n
    BY <2>1, <1>3, <1>5 DEF Listed
  <2>2. CASE i > n
    <3>1. i - n \in 1..m
      BY <2>2, <1>3
    <3>2. all[i] = rest[i - n]
      BY <2>2, <1>3, <1>5
    <3>3. rest[i - n] \in fresh
      BY <3>1, <1>2
    <3> QED
      BY <3>1, <3>2, <3>3
  <2> QED
    BY <2>1, <2>2, <1>3
<1>7. ASSUME NEW p \in 1..m, NEW q \in 1..m, rest[p] = rest[q] PROVE p = q
  <2>1. at[p] = at[q]
    BY <1>2, <1>3, <1>7 DEF Distinct
  <2> HIDE DEF m
  <2>2. at[p] \in 1..Len(sparse) /\ p \in Nat /\ q \in Nat
    BY <1>2, <1>3
  <2>3. at[p] \in Nat
    BY <2>2, <1>3
  <2>4. ~(p < q) /\ ~(q < p)
    BY <2>1, <2>3, <1>2
  <2> QED
    BY <2>2, <2>4
<1>8. Distinct(all)
  <2> SUFFICES ASSUME NEW i \in 1..n + m, NEW j \in 1..n + m, all[i] = all[j] PROVE i = j
    BY <1>5 DEF Distinct
  <2>1. CASE i \in 1..n /\ j \in 1..n /\ all[i] = dense[i] /\ all[j] = dense[j]
    BY <2>1, <1>3 DEF Distinct
  <2>2. CASE i - n \in 1..m /\ j - n \in 1..m /\ all[i] = rest[i - n] /\ all[j] = rest[j - n]
    <3>1. i - n = j - n
      BY <2>2, <1>7
    <3> QED
      BY <3>1, <1>3
  <2>3. ~(all[i] \in Listed(dense) /\ all[i] \in fresh)
    BY DEF fresh
  <2> QED
    BY <2>1, <2>2, <2>3, <1>6
<1>9. Listed(all) \subseteq Listed(dense) \cup Listed(sparse)
  <2>1. Listed(all) = {all[i] : i \in 1..n + m}
    BY <1>5 DEF Listed
  <2>2. \A i \in 1..n + m : all[i] \in Listed(dense) \cup Listed(sparse)
    BY <1>6 DEF fresh
  <2> QED
    BY <2>1, <2>2
<1> QED
  BY <1>4, <1>5, <1>8, <1>9

(* A list has finitely many elements, at most one for each place. *)
LEMMA ListedFinite ==
    ASSUME NEW S, NEW s \in Seq(S)
    PROVE  IsFiniteSet(Listed(s)) /\ Listed(s) \subseteq S /\ Cardinality(Listed(s)) <= Len(s)
<1>1. s \in [DOMAIN s -> Listed(s)]
  BY LenProperties DEF Listed
<1>2. s \in Surjection(DOMAIN s, Listed(s))
  BY <1>1 DEF Listed, Surjection
<1>3. IsFiniteSet(DOMAIN s) /\ Cardinality(DOMAIN s) = Len(s) /\ \A i \in DOMAIN s : s[i] \in S
  BY ListPlaces
<1> QED
  BY <1>2, <1>3, FS_Surjection DEF Listed

(* A list of scored chunks that has each chunk once. *)
Unique(s) == \A i, j \in DOMAIN s : s[i].chunk = s[j].chunk => i = j

(* The candidates with their scores: each chunk once, all in scope. *)
LEMMA ScoresType ==
    ASSUME NEW S \in SUBSET Chunks, NEW dense \in Seq(S), NEW sparse \in Seq(S),
           Distinct(dense), Distinct(sparse),
           NEW rr \in Rerank(Listed(dense) \cup Listed(sparse), RerankScores)
    PROVE  /\ Scores(dense, sparse, rr) \in Seq(Scored) /\ Unique(Scores(dense, sparse, rr))
           /\ ChunksOf(Scores(dense, sparse, rr)) \subseteq S
<1> DEFINE all == Candidates(dense, sparse)
           P == Listed(all)
           fusion == [c \in P |-> Fusion(dense, sparse, c)]
           n == Len(all)
           scored == [i \in 1..n |-> [chunk |-> all[i], score |-> Blend(rr, fusion, all[i])]]
<1>1. all \in Seq(S) /\ Distinct(all) /\ P \subseteq Listed(dense) \cup Listed(sparse)
  BY CandidatesUnite
<1>2. n \in Nat /\ DOMAIN all = 1..n /\ \A i \in 1..n : all[i] \in S /\ all[i] \in P
  BY <1>1, ListPlaces DEF Listed
<1>3. Scores(dense, sparse, rr) = scored
  BY <1>2 DEF Scores
<1>4. IsFiniteSet(P)
  BY <1>1, ListedFinite
<1>5. rr \in [Listed(dense) \cup Listed(sparse) -> Int]
  BY WorkflowAssumption DEF Rerank
<1>6. dense \in Seq(Chunks) /\ sparse \in Seq(Chunks)
  OBVIOUS
<1>7. fusion \in [P -> Int]
  BY <1>6, FusionType
<1>8. IsFiniteSet(Listed(dense) \cup Listed(sparse))
  BY ListedFinite, FS_Union
<1>9. ASSUME NEW i \in 1..n PROVE scored[i] \in Scored /\ scored[i].chunk = all[i]
  <2> HIDE DEF fusion, P, n
  <2>1. all[i] \in P \cap (Listed(dense) \cup Listed(sparse)) /\ all[i] \in Chunks
    BY <1>1, <1>2
  <2>2. Blend(rr, fusion, all[i]) \in Fraction
    BY <1>4, <1>5, <1>7, <1>8, <2>1, BlendType
  <2> QED
    BY <2>1, <2>2 DEF Scored, Fraction
<1> HIDE DEF scored
<1>10. scored \in Seq(Scored) /\ DOMAIN scored = 1..n
  <2>1. scored = [i \in 1..n |-> scored[i]]
    BY DEF scored
  <2>2. scored \in [1..n -> Scored]
    BY <1>9, <2>1
  <2> HIDE DEF n
  <2> QED
    BY <1>2, <2>2
<1>11. Unique(scored)
  BY <1>1, <1>2, <1>9, <1>10 DEF Unique, Distinct
<1>12. ChunksOf(scored) \subseteq S
  BY <1>2, <1>9, <1>10 DEF ChunksOf
<1> QED
  BY <1>3, <1>10, <1>11, <1>12

-----------------------------------------------------------------------------
(* Merging the results of the subqueries *)

(* What one more subquery makes of the merged results. *)
Merges(old, results, new) ==
    /\ new \in Seq(Scored) /\ Unique(new) /\ DOMAIN old \subseteq DOMAIN new
    /\ \A i \in DOMAIN old :
          new[i].chunk = old[i].chunk /\ ~Greater(old[i].score, new[i].score)
    /\ \A i \in DOMAIN new :
          \/ i \in DOMAIN old /\ new[i] = old[i]
          \/ \E j \in DOMAIN results : new[i] = results[j]
    /\ \A j \in DOMAIN results : \E i \in DOMAIN new :
          new[i].chunk = results[j].chunk /\ ~Greater(results[j].score, new[i].score)

(* A chunk found again keeps its place and its best score, a new one is appended. *)
LEMMA MergeInMerges ==
    ASSUME NEW old \in Seq(Scored), Unique(old), NEW results \in Seq(Scored), Unique(results)
    PROVE  Merges(old, results, MergeIn(old, results))
<1> DEFINE n == Len(old)
           Better(m) == {s \in Listed(results) : s.chunk = m.chunk /\ Greater(s.score, m.score)}
           kept == [i \in 1..n |-> IF Better(old[i]) = {} THEN old[i]
                                   ELSE CHOOSE s \in Better(old[i]) : TRUE]
           fresh == {s \in Listed(results) : s.chunk \notin ChunksOf(old)}
           rest == Unmerged(old, results)
           m == Len(rest)
           new == kept \o rest
<1>1. n \in Nat /\ DOMAIN old = 1..n
  BY ListPlaces
<1>2. Len(results) \in Nat /\ DOMAIN results = 1..Len(results)
  BY ListPlaces
<1>3. MergeIn(old, results) = new
  BY <1>1 DEF MergeIn
<1>4. rest \in Seq(Scored)
  BY KeptPlaces DEF Unmerged
<1>5. PICK at : /\ at \in [1..m -> 1..Len(results)]
                /\ \A p \in 1..m : rest[p] = results[at[p]] /\ results[at[p]] \in fresh
                /\ \A p, q \in 1..m : p < q => at[p] < at[q]
                /\ \A i \in 1..Len(results) : results[i] \in fresh => \E p \in 1..m : at[p] = i
  <2>1. rest = Kept(results, fresh)
    BY DEF Unmerged
  <2> HIDE DEF fresh, rest
  <2> QED
    BY <2>1, KeptPlaces
<1>6. m \in Nat
  BY <1>4, ListPlaces
<1> HIDE DEF rest
<1>7. ASSUME NEW i \in 1..n
      PROVE  /\ kept[i] \in Scored /\ kept[i].chunk = old[i].chunk
             /\ ~Greater(old[i].score, kept[i].score)
             /\ kept[i] = old[i] \/ \E j \in DOMAIN results : kept[i] = results[j]
             /\ \A j \in DOMAIN results : results[j].chunk = old[i].chunk =>
                   ~Greater(results[j].score, kept[i].score)
  <2>1. old[i] \in Scored /\ old[i].score \in Fraction
    BY <1>1, ScoredPlaces
  <2>2. CASE Better(old[i]) = {}
    <3>1. kept[i] = old[i]
      BY <2>2
    <3>2. \A j \in DOMAIN results : results[j].chunk = old[i].chunk =>
             ~Greater(results[j].score, old[i].score)
      BY <2>2 DEF Listed
    <3> QED
      BY <2>1, <3>1, <3>2, GreaterOrder
  <2>3. CASE Better(old[i]) # {}
    <3>1. kept[i] \in Better(old[i])
      BY <2>3
    <3>2. PICK j \in DOMAIN results : kept[i] = results[j]
      BY <3>1 DEF Listed
    <3>3. kept[i].chunk = old[i].chunk /\ Greater(kept[i].score, old[i].score)
      BY <3>1
    <3>4. kept[i] \in Scored /\ kept[i].score \in Fraction
      BY <3>2, ScoredPlaces
    <3>5. ASSUME NEW l \in DOMAIN results, results[l].chunk = old[i].chunk
          PROVE  ~Greater(results[l].score, kept[i].score)
      <4>1. l = j
        BY <3>2, <3>3, <3>5 DEF Unique
      <4> QED
        BY <4>1, <3>2, <3>4, GreaterOrder
    <3> HIDE DEF kept, Better
    <3> QED
      BY <2>1, <3>2, <3>3, <3>4, <3>5, GreaterOrder
  <2> QED
    BY <2>2, <2>3
<1>8. kept \in Seq(Scored) /\ Len(kept) = n
  <2>1. kept = [i \in 1..n |-> kept[i]]
    OBVIOUS
  <2> HIDE DEF kept
  <2>2. kept \in [1..n -> Scored]
    BY <1>7, <2>1
  <2> HIDE DEF n
  <2> QED
    BY <1>1, <2>2
<1> HIDE DEF kept
<1>9. /\ new \in Seq(Scored) /\ Len(new) = n + m
      /\ \A i \in 1..n + m : new[i] = IF i <= n THEN kept[i] ELSE rest[i - n]
  <2> HIDE DEF n, m
  <2> QED
    BY <1>4, <1>8, ConcatProperties DEF m
<1> HIDE DEF new
<1>10. DOMAIN new = 1..n + m
  BY <1>9, ListPlaces
<1>11. ASSUME NEW i \in 1..n
       PROVE  i \in DOMAIN new /\ new[i] = kept[i]
  <2> HIDE DEF n, m
  <2> QED
    BY <1>1, <1>6, <1>9, <1>10
<1>12. ASSUME NEW p \in 1..m
       PROVE  n + p \in DOMAIN new /\ new[n + p] = rest[p]
  <2> HIDE DEF n, m
  <2> QED
    BY <1>1, <1>6, <1>9, <1>10
<1>13. ASSUME NEW i \in DOMAIN new
       PROVE  i \in 1..n \/ (i - n \in 1..m /\ i = n + (i - n))
  <2> HIDE DEF n, m
  <2> QED
    BY <1>1, <1>6, <1>10
<1>14. ASSUME NEW p \in 1..m
       PROVE  \E j \in DOMAIN results : rest[p] = results[j]
  BY <1>2, <1>5
<1>15. ASSUME NEW p \in 1..m, NEW i \in 1..n PROVE rest[p].chunk # old[i].chunk
  <2>1. rest[p] \in fresh
    BY <1>5
  <2> QED
    BY <1>1, <2>1 DEF ChunksOf
<1>16. ASSUME NEW p \in 1..m, NEW q \in 1..m, rest[p].chunk = rest[q].chunk PROVE p = q
  <2>1. at[p] \in 1..Len(results) /\ at[q] \in 1..Len(results)
    BY <1>5
  <2>2. at[p] = at[q]
    BY <1>2, <1>5, <1>16, <2>1 DEF Unique
  <2>3. at[p] \in Nat /\ p \in Nat /\ q \in Nat
    BY <1>2, <1>6, <2>1
  <2>4. ~(p < q) /\ ~(q < p)
    BY <1>5, <2>2, <2>3
  <2> QED
    BY <2>3, <2>4
<1>17. Unique(new)
  <2> SUFFICES ASSUME NEW i \in DOMAIN new, NEW j \in DOMAIN new, new[i].chunk = new[j].chunk
               PROVE  i = j
    BY DEF Unique
  <2>1. CASE i \in 1..n /\ j \in 1..n
    <3>1. old[i].chunk = old[j].chunk
      BY <2>1, <1>7, <1>11
    <3> QED
      BY <2>1, <3>1, <1>1 DEF Unique
  <2>2. CASE i \in 1..n /\ j - n \in 1..m /\ j = n + (j - n)
    <3> DEFINE p == j - n
    <3>1. p \in 1..m /\ j = n + p
      BY <2>2
    <3> HIDE DEF p
    <3>2. new[j] = rest[p] /\ new[i].chunk = old[i].chunk
      BY <2>2, <3>1, <1>7, <1>11, <1>12
    <3> QED
      BY <2>2, <3>1, <3>2, <1>15
  <2>3. CASE j \in 1..n /\ i - n \in 1..m /\ i = n + (i - n)
    <3> DEFINE p == i - n
    <3>1. p \in 1..m /\ i = n + p
      BY <2>3
    <3> HIDE DEF p
    <3>2. new[i] = rest[p] /\ new[j].chunk = old[j].chunk
      BY <2>3, <3>1, <1>7, <1>11, <1>12
    <3> QED
      BY <2>3, <3>1, <3>2, <1>15
  <2>4. CASE i - n \in 1..m /\ i = n + (i - n) /\ j - n \in 1..m /\ j = n + (j - n)
    <3> DEFINE p == i - n
               q == j - n
    <3>1. p \in 1..m /\ i = n + p /\ q \in 1..m /\ j = n + q
      BY <2>4
    <3> HIDE DEF p, q
    <3>2. new[i] = rest[p] /\ new[j] = rest[q]
      BY <3>1, <1>12
    <3>3. p = q
      BY <3>1, <3>2, <1>16
    <3> QED
      BY <3>1, <3>3
  <2> QED
    BY <1>13, <2>1, <2>2, <2>3, <2>4
<1>18. ASSUME NEW j \in DOMAIN results
       PROVE  \E i \in DOMAIN new :
                 new[i].chunk = results[j].chunk /\ ~Greater(results[j].score, new[i].score)
  <2>1. CASE results[j].chunk \in ChunksOf(old)
    <3>1. PICK i \in 1..n : old[i].chunk = results[j].chunk
      BY <1>1, <2>1 DEF ChunksOf
    <3> QED
      BY <3>1, <1>7, <1>11
  <2>2. CASE results[j].chunk \notin ChunksOf(old)
    <3>1. results[j] \in fresh
      BY <2>2 DEF Listed
    <3>2. PICK p \in 1..m : at[p] = j
      BY <1>2, <1>5, <3>1
    <3>3. new[n + p] = results[j] /\ n + p \in DOMAIN new
      BY <1>5, <1>12, <3>2
    <3>4. results[j].score \in Fraction
      BY ScoredPlaces
    <3> QED
      BY <3>3, <3>4, GreaterOrder
  <2> QED
    BY <2>1, <2>2
<1>19. ASSUME NEW i \in DOMAIN new
       PROVE  \/ i \in DOMAIN old /\ new[i] = old[i]
              \/ \E j \in DOMAIN results : new[i] = results[j]
  <2>1. CASE i \in 1..n
    BY <2>1, <1>1, <1>7, <1>11
  <2>2. CASE i - n \in 1..m /\ i = n + (i - n)
    BY <2>2, <1>12, <1>14
  <2> QED
    BY <2>1, <2>2, <1>13
<1>20. \A i \in DOMAIN old :
          i \in DOMAIN new /\ new[i].chunk = old[i].chunk /\ ~Greater(old[i].score, new[i].score)
  BY <1>1, <1>7, <1>11
<1> HIDE DEF fresh, m, n
<1> QED
  BY <1>3, <1>9, <1>17, <1>18, <1>19, <1>20 DEF Merges

(* What one more subquery makes of the best scores offered. *)
Offers(all, off, new) ==
    /\ new \in [Chunks -> Fraction \cup {None}]
    /\ \A c \in Chunks : off[c] # None => new[c] # None /\ ~Greater(off[c], new[c])
    /\ \A j \in DOMAIN all :
          new[all[j].chunk] # None /\ ~Greater(all[j].score, new[all[j].chunk])
    /\ \A c \in Chunks :
          new[c] = off[c] \/ \E j \in DOMAIN all : all[j].chunk = c /\ new[c] = all[j].score

(* m has c with a score of at least x. *)
Holds(m, c, x) == \E i \in DOMAIN m : m[i].chunk = c /\ ~Greater(x, m[i].score)

(* The places of m whose chunk is not c and whose score is at least x. *)
Beating(m, c, x) == {i \in DOMAIN m : m[i].chunk # c /\ ~Greater(x, m[i].score)}

(* What was merged so far lacks a better score of a chunk only if FinalTopK  *)
(* other chunks are at least as good.                                      *)
BestSoFar(m, off) ==
    /\ Unique(m)
    /\ \A i \in DOMAIN m : off[m[i].chunk] # None /\ ~Greater(m[i].score, off[m[i].chunk])
    /\ \A c \in Chunks : off[c] # None =>
          Holds(m, c, off[c]) \/ Cardinality(Beating(m, c, off[c])) >= FinalTopK

(* None is no score and no answer of the policy. *)
LEMMA NoneIsNoFraction == None \notin Fraction /\ None \notin BOOLEAN
  BY WorkflowAssumption DEF Fraction

(* The history variable offers what the subquery found. *)
LEMMA SearchOffers ==
    ASSUME NEW all \in Seq(Scored), Unique(all), NEW off \in [Chunks -> Fraction \cup {None}]
    PROVE  LET Score(c) == (CHOOSE s \in Listed(all) : s.chunk = c).score IN
           Offers(all, off,
                  [c \in Chunks |->
                     IF c \notin ChunksOf(all) THEN off[c]
                     ELSE IF off[c] = None THEN Score(c)
                     ELSE IF Greater(Score(c), off[c]) THEN Score(c) ELSE off[c]])
<1> DEFINE Score(c) == (CHOOSE s \in Listed(all) : s.chunk = c).score
           new == [c \in Chunks |->
                     IF c \notin ChunksOf(all) THEN off[c]
                     ELSE IF off[c] = None THEN Score(c)
                     ELSE IF Greater(Score(c), off[c]) THEN Score(c) ELSE off[c]]
<1>1. ASSUME NEW j \in DOMAIN all
      PROVE  Score(all[j].chunk) = all[j].score
  <2>1. all[j] \in Listed(all)
    BY DEF Listed
  <2>2. \A s \in Listed(all) : s.chunk = all[j].chunk => s = all[j]
    BY DEF Listed, Unique
  <2> QED
    BY <2>1, <2>2
<1>2. ASSUME NEW c \in Chunks
      PROVE  new[c] = IF c \notin ChunksOf(all) THEN off[c]
                      ELSE IF off[c] = None THEN Score(c)
                      ELSE IF Greater(Score(c), off[c]) THEN Score(c) ELSE off[c]
  <2> HIDE DEF Score
  <2> QED
    OBVIOUS
<1>3. new = [c \in Chunks |-> new[c]]
  OBVIOUS
<1> HIDE DEF Score, new
<1>4. ASSUME NEW c \in Chunks, c \in ChunksOf(all)
      PROVE  \E j \in DOMAIN all :
                /\ all[j].chunk = c /\ Score(c) = all[j].score
                /\ Score(c) \in Fraction
  <2>1. PICK j \in DOMAIN all : all[j].chunk = c
    BY <1>4 DEF ChunksOf
  <2> QED
    BY <2>1, <1>1, ScoredPlaces
<1>5. ASSUME NEW c \in Chunks
      PROVE  /\ new[c] \in Fraction \cup {None}
             /\ off[c] # None => new[c] # None /\ ~Greater(off[c], new[c])
             /\ new[c] = off[c] \/ \E j \in DOMAIN all : all[j].chunk = c /\ new[c] = all[j].score
  <2>1. off[c] \in Fraction \cup {None}
    OBVIOUS
  <2>2. CASE c \notin ChunksOf(all)
    <3>1. new[c] = off[c]
      BY <1>2, <2>2
    <3> QED
      BY <2>1, <3>1, GreaterOrder
  <2>3. CASE c \in ChunksOf(all)
    <3>1. PICK j \in DOMAIN all :
             /\ all[j].chunk = c /\ Score(c) = all[j].score
             /\ Score(c) \in Fraction
      BY <1>4, <2>3
    <3>2. new[c] = IF off[c] = None THEN Score(c)
                   ELSE IF Greater(Score(c), off[c]) THEN Score(c) ELSE off[c]
      BY <1>2, <2>3
    <3> QED
      BY <2>1, <3>1, <3>2, GreaterOrder, NoneIsNoFraction
  <2> QED
    BY <2>2, <2>3
<1>6. ASSUME NEW j \in DOMAIN all
      PROVE  new[all[j].chunk] # None /\ ~Greater(all[j].score, new[all[j].chunk])
  <2> DEFINE c == all[j].chunk
  <2>1. c \in Chunks /\ c \in ChunksOf(all) /\ all[j].score \in Fraction
    BY ScoredPlaces DEF ChunksOf
  <2>2. Score(c) = all[j].score
    BY <1>1
  <2>3. off[c] \in Fraction \cup {None}
    BY <2>1
  <2> HIDE DEF c
  <2>4. new[c] = IF off[c] = None THEN Score(c)
                 ELSE IF Greater(Score(c), off[c]) THEN Score(c) ELSE off[c]
    BY <1>2, <2>1
  <2>5. new[c] # None /\ ~Greater(all[j].score, new[c])
    BY <2>1, <2>2, <2>3, <2>4, GreaterOrder, NoneIsNoFraction
  <2> QED
    BY <2>5 DEF c
<1>7. new \in [Chunks -> Fraction \cup {None}]
  BY <1>3, <1>5
<1>8. Offers(all, off, new)
  BY <1>5, <1>6, <1>7 DEF Offers
<1> QED
  BY <1>8 DEF new, Score

(* A cut list has each chunk once if the whole has. *)
LEMMA TopUnique ==
    ASSUME NEW s \in Seq(Scored), Unique(s), NEW k \in Nat, NEW t, NEW at, Leads(at, t, s, k)
    PROVE  Unique(t)
<1> SUFFICES ASSUME NEW p \in DOMAIN t, NEW q \in DOMAIN t, t[p].chunk = t[q].chunk PROVE p = q
  BY DEF Unique
<1>1. at[p] \in DOMAIN s /\ at[q] \in DOMAIN s /\ t[p] = s[at[p]] /\ t[q] = s[at[q]]
  BY DEF Leads
<1>2. at[p] = at[q]
  BY <1>1 DEF Unique
<1>3. p \in Nat /\ q \in Nat
  <2>1. t \in Seq(Scored)
    BY DEF Leads
  <2> QED
    BY <2>1, ListPlaces
<1>4. ~(p < q) /\ ~(q < p)
  BY <1>2 DEF Leads
<1> QED
  BY <1>3, <1>4

(* At least one source is kept. *)
LEMMA FinalTopKNat == FinalTopK \in Nat \ {0}
  BY WorkflowAssumption

(* Cutting the results of one subquery loses no score that could matter. *)
LEMMA SearchKeepsBest ==
    ASSUME NEW old \in Seq(Scored), NEW off \in [Chunks -> Fraction \cup {None}],
           BestSoFar(old, off), NEW all \in Seq(Scored), Unique(all),
           NEW new, Merges(old, Top(SortDesc(all), FinalTopK), new),
           NEW noff, Offers(all, off, noff)
    PROVE  BestSoFar(new, noff)
<1> DEFINE t == Top(SortDesc(all), FinalTopK)
<1>1. PICK at : Leads(at, t, all, FinalTopK)
  BY FinalTopKNat, TopLeads
<1>2. Unique(t)
  <2> HIDE DEF t
  <2> QED
    BY <1>1, FinalTopKNat, TopUnique
<1>3. Merges(old, t, new)
  OBVIOUS
<1> HIDE DEF t
<1>4. t \in Seq(Scored) /\ new \in Seq(Scored) /\ Unique(new)
  BY <1>1, <1>3 DEF Leads, Merges
<1>5. IsFiniteSet(DOMAIN new) /\ DOMAIN old \subseteq DOMAIN new
  BY <1>3, <1>4, ListPlaces DEF Merges
<1>7. ASSUME NEW i \in DOMAIN new
      PROVE  noff[new[i].chunk] # None /\ ~Greater(new[i].score, noff[new[i].chunk])
  <2>1. CASE i \in DOMAIN old /\ new[i] = old[i]
    <3> DEFINE c == old[i].chunk
               x == old[i].score
    <3>1. c \in Chunks /\ x \in Fraction
      BY <2>1, ScoredPlaces
    <3>2. off[c] # None /\ ~Greater(x, off[c]) /\ off[c] \in Fraction
      BY <2>1, <3>1 DEF BestSoFar
    <3> HIDE DEF c, x
    <3>3. noff[c] # None /\ ~Greater(off[c], noff[c]) /\ noff[c] \in Fraction
      BY <3>1, <3>2 DEF Offers
    <3>4. ~Greater(x, noff[c])
      BY <3>1, <3>2, <3>3, AtMost
    <3> QED
      BY <2>1, <3>3, <3>4 DEF c, x
  <2>2. ASSUME NEW j \in DOMAIN t, new[i] = t[j]
        PROVE  noff[new[i].chunk] # None /\ ~Greater(new[i].score, noff[new[i].chunk])
    <3>1. at[j] \in DOMAIN all /\ new[i] = all[at[j]]
      BY <1>1, <2>2 DEF Leads
    <3> QED
      BY <3>1 DEF Offers
  <2> QED
    BY <1>3, <2>1, <2>2 DEF Merges
<1>8. ASSUME NEW i \in DOMAIN old
      PROVE  /\ i \in DOMAIN new /\ new[i].chunk = old[i].chunk
             /\ old[i].score \in Fraction /\ new[i].score \in Fraction
             /\ ~Greater(old[i].score, new[i].score)
  BY <1>3, <1>4, <1>5, ScoredPlaces DEF Merges
<1>9. ASSUME NEW c \in Chunks, off[c] # None, noff[c] = off[c]
      PROVE  Holds(new, c, noff[c]) \/ Cardinality(Beating(new, c, noff[c])) >= FinalTopK
  <2> DEFINE x == off[c]
  <2>1. x \in Fraction
    BY <1>9
  <2>2. Holds(old, c, x) \/ Cardinality(Beating(old, c, x)) >= FinalTopK
    BY <1>9 DEF BestSoFar
  <2> HIDE DEF x
  <2>3. ASSUME NEW i \in DOMAIN old, ~Greater(x, old[i].score)
        PROVE  ~Greater(x, new[i].score)
    BY <1>8, <2>1, <2>3, AtMost
  <2>4. CASE Holds(old, c, x)
    <3>1. Holds(new, c, x)
      BY <2>3, <2>4, <1>8 DEF Holds
    <3> QED
      BY <3>1, <1>9 DEF x
  <2>5. CASE Cardinality(Beating(old, c, x)) >= FinalTopK
    <3>1. Beating(old, c, x) \in SUBSET Beating(new, c, x)
      BY <2>3, <1>8 DEF Beating
    <3>2. IsFiniteSet(Beating(new, c, x))
      <4>1. Beating(new, c, x) \in SUBSET DOMAIN new
        BY DEF Beating
      <4> QED
        BY <4>1, <1>5, FS_Subset
    <3>3. /\ Cardinality(Beating(old, c, x)) <= Cardinality(Beating(new, c, x))
          /\ Cardinality(Beating(old, c, x)) \in Nat /\ Cardinality(Beating(new, c, x)) \in Nat
      BY <3>1, <3>2, FS_Subset, FS_CardinalityType
    <3>4. Cardinality(Beating(new, c, x)) >= FinalTopK
      BY <2>5, <3>3, FinalTopKNat
    <3> QED
      BY <3>4, <1>9 DEF x
  <2> QED
    BY <2>2, <2>4, <2>5
<1>10. ASSUME NEW c \in Chunks, NEW j \in DOMAIN all, all[j].chunk = c, noff[c] = all[j].score
       PROVE  Holds(new, c, noff[c]) \/ Cardinality(Beating(new, c, noff[c])) >= FinalTopK
  <2> DEFINE x == all[j].score
  <2>1. x \in Fraction
    BY ScoredPlaces
  <2>2. CASE \E p \in DOMAIN t : at[p] = j
    <3>1. PICK p \in DOMAIN t : t[p] = all[j]
      BY <1>1, <2>2 DEF Leads
    <3>2. PICK i \in DOMAIN new : new[i].chunk = t[p].chunk /\ ~Greater(t[p].score, new[i].score)
      BY <1>3 DEF Merges
    <3>3. Holds(new, c, x)
      BY <1>10, <3>1, <3>2 DEF Holds
    <3> QED
      BY <3>3, <1>10
  <2>3. CASE \A p \in DOMAIN t : at[p] # j
    <3>1. Len(t) = FinalTopK /\ \A p \in DOMAIN t : ~Greater(x, t[p].score)
      BY <1>1, <2>3 DEF Leads
    <3> DEFINE in == [p \in DOMAIN t |-> CHOOSE i \in DOMAIN new :
                         new[i].chunk = t[p].chunk /\ ~Greater(t[p].score, new[i].score)]
               B == Beating(new, c, x)
    <3> HIDE DEF x
    <3>2. ASSUME NEW p \in DOMAIN t
          PROVE  in[p] \in DOMAIN new /\ new[in[p]].chunk = t[p].chunk
                 /\ ~Greater(t[p].score, new[in[p]].score)
      BY <1>3 DEF Merges
    <3>3. in = [p \in DOMAIN t |-> in[p]]
      OBVIOUS
    <3> HIDE DEF in
    <3>4. ASSUME NEW p \in DOMAIN t PROVE in[p] \in B
      <4>1. t[p].score \in Fraction /\ new[in[p]].score \in Fraction
        BY <1>4, <3>2, ScoredPlaces
      <4>2. ~Greater(x, new[in[p]].score)
        BY <2>1, <3>1, <3>2, <4>1, AtMost
      <4>3. at[p] \in DOMAIN all /\ t[p] = all[at[p]] /\ at[p] # j
        BY <1>1, <2>3 DEF Leads
      <4>4. t[p].chunk # c
        BY <1>10, <4>3 DEF Unique
      <4> QED
        BY <3>2, <4>2, <4>4 DEF Beating
    <3>5. ASSUME NEW p \in DOMAIN t, NEW q \in DOMAIN t, in[p] = in[q] PROVE p = q
      BY <1>2, <3>2, <3>5 DEF Unique
    <3>6. in \in Injection(DOMAIN t, B)
      BY <3>3, <3>4, <3>5 DEF Injection, IsInjective
    <3>7. IsFiniteSet(B)
      <4>1. B \in SUBSET DOMAIN new
        BY DEF Beating
      <4> HIDE DEF B
      <4> QED
        BY <4>1, <1>5, FS_Subset
    <3> HIDE DEF B
    <3>8. IsFiniteSet(DOMAIN t) /\ Cardinality(DOMAIN t) = FinalTopK
      BY <1>4, <3>1, ListPlaces
    <3>9. Cardinality(DOMAIN t) <= Cardinality(B)
      BY <3>6, <3>7, FS_Injection
    <3>10. Cardinality(B) \in Nat
      BY <3>7, FS_CardinalityType
    <3>11. Cardinality(B) >= FinalTopK
      BY <3>8, <3>9, <3>10, FinalTopKNat
    <3> QED
      BY <3>11, <1>10 DEF B, x
  <2> QED
    BY <2>2, <2>3
<1>11. ASSUME NEW c \in Chunks, noff[c] # None
       PROVE  Holds(new, c, noff[c]) \/ Cardinality(Beating(new, c, noff[c])) >= FinalTopK
  BY <1>9, <1>10, <1>11 DEF Offers
<1> QED
  BY <1>4, <1>7, <1>11 DEF BestSoFar

(* The sources are the best of all candidates. *)
LEMMA TopIsBest ==
    ASSUME NEW m \in Seq(Scored), NEW off \in [Chunks -> Fraction \cup {None}], BestSoFar(m, off)
    PROVE  LET t == Top(SortDesc(m), FinalTopK)
               found == {c \in Chunks : off[c] # None}
           IN
           /\ Len(t) = (IF Cardinality(found) < FinalTopK THEN Cardinality(found) ELSE FinalTopK)
           /\ \A i, j \in DOMAIN t : i < j =>
                 t[i].chunk # t[j].chunk /\ ~Greater(t[j].score, t[i].score)
           /\ \A i \in DOMAIN t :
                 /\ ~Greater(off[t[i].chunk], t[i].score)
                 /\ ~Greater(t[i].score, off[t[i].chunk])
                 /\ \A c \in found \ ChunksOf(t) : ~Greater(off[c], t[i].score)
<1> DEFINE t == Top(SortDesc(m), FinalTopK)
           found == {c \in Chunks : off[c] # None}
<1>1. PICK at : Leads(at, t, m, FinalTopK)
  BY FinalTopKNat, TopLeads
<1> HIDE DEF t
<1>2. Unique(t) /\ Unique(m) /\ t \in Seq(Scored)
  <2>1. Unique(m)
    BY DEF BestSoFar
  <2>2. Unique(t)
    BY <1>1, <2>1, FinalTopKNat, TopUnique
  <2> QED
    BY <1>1, <2>1, <2>2 DEF Leads
<1>3. \A i, j \in DOMAIN t : i < j =>
         t[i].chunk # t[j].chunk /\ ~Greater(t[j].score, t[i].score)
  <2>1. DOMAIN t \subseteq Nat
    BY <1>2, ListPlaces
  <2>2. \A i, j \in DOMAIN t : i < j => i # j
    BY <2>1
  <2> QED
    BY <1>1, <1>2, <2>2 DEF Leads, Unique
<1>4. IsFiniteSet(DOMAIN m) /\ Cardinality(DOMAIN m) = Len(m) /\ Len(m) \in Nat
  BY ListPlaces
<1>5. ASSUME NEW c \in Chunks, NEW x \in Fraction,
             Cardinality(Beating(m, c, x)) >= FinalTopK, NEW p \in DOMAIN t
      PROVE  ~Greater(x, t[p].score)
  <2> SUFFICES ASSUME Greater(x, t[p].score) PROVE FALSE
    OBVIOUS
  <2> DEFINE above == {j \in DOMAIN m : Greater(m[j].score, t[p].score)}
             B == Beating(m, c, x)
  <2>1. t[p].score \in Fraction
    BY <1>2, ScoredPlaces
  <2>2. ASSUME NEW i \in B PROVE i \in above
    <3>1. i \in DOMAIN m /\ ~Greater(x, m[i].score) /\ m[i].score \in Fraction
      BY ScoredPlaces DEF Beating
    <3>2. Greater(m[i].score, t[p].score)
      BY <2>1, <3>1, AtMost
    <3> QED
      BY <3>1, <3>2
  <2>3. B \in SUBSET above /\ above \in SUBSET DOMAIN m
    BY <2>2
  <2>4. Cardinality(above) < FinalTopK
    BY <1>1 DEF Leads
  <2> HIDE DEF above, B
  <2>5. Cardinality(B) <= Cardinality(above) /\ IsFiniteSet(above) /\ IsFiniteSet(B)
    BY <1>4, <2>3, FS_Subset
  <2>6. Cardinality(B) \in Nat /\ Cardinality(above) \in Nat
    BY <2>5, FS_CardinalityType
  <2>7. Cardinality(B) >= FinalTopK
    BY <1>5 DEF B
  <2> QED
    BY <2>4, <2>5, <2>6, <2>7, FinalTopKNat
<1>6. ASSUME NEW i \in DOMAIN t
      PROVE  /\ at[i] \in DOMAIN m /\ t[i] = m[at[i]] /\ t[i].chunk \in Chunks
             /\ t[i].score \in Fraction /\ off[t[i].chunk] \in Fraction
             /\ ~Greater(t[i].score, off[t[i].chunk])
  <2>1. at[i] \in DOMAIN m /\ t[i] = m[at[i]] /\ t[i].chunk \in Chunks /\ t[i].score \in Fraction
    BY <1>1, <1>2, ScoredPlaces DEF Leads
  <2> QED
    BY <2>1 DEF BestSoFar
<1>7. ASSUME NEW i \in DOMAIN t
      PROVE  ~Greater(off[t[i].chunk], t[i].score)
  <2> DEFINE c == t[i].chunk
  <2>1. c \in Chunks /\ off[c] \in Fraction /\ off[c] # None
    BY <1>6, NoneIsNoFraction
  <2>2. CASE Cardinality(Beating(m, c, off[c])) >= FinalTopK
    BY <2>1, <2>2, <1>5
  <2>3. CASE Holds(m, c, off[c])
    BY <2>3, <1>2, <1>6 DEF Holds, Unique
  <2> QED
    BY <2>1, <2>2, <2>3 DEF BestSoFar
<1>8. ASSUME NEW i \in DOMAIN t, NEW c \in found \ ChunksOf(t)
      PROVE  ~Greater(off[c], t[i].score)
  <2>1. c \in Chunks /\ off[c] \in Fraction /\ off[c] # None
    OBVIOUS
  <2>2. CASE Cardinality(Beating(m, c, off[c])) >= FinalTopK
    BY <2>1, <2>2, <1>5
  <2>3. CASE Holds(m, c, off[c])
    <3>1. PICK j \in DOMAIN m : m[j].chunk = c /\ ~Greater(off[c], m[j].score)
      BY <2>3 DEF Holds
    <3>2. \A p \in DOMAIN t : at[p] # j
      BY <3>1, <1>6 DEF ChunksOf
    <3>3. ~Greater(m[j].score, t[i].score)
      BY <1>1, <3>2 DEF Leads
    <3>4. m[j].score \in Fraction
      BY ScoredPlaces
    <3> QED
      BY <2>1, <3>1, <3>3, <3>4, <1>6, AtMost
  <2> QED
    BY <2>1, <2>2, <2>3 DEF BestSoFar
<1>9. IsFiniteSet(found) /\ Cardinality(found) \in Nat
  <2>1. found \in SUBSET Chunks
    OBVIOUS
  <2> QED
    BY <2>1, RankingAssumption, FS_Subset, FS_CardinalityType
<1> DEFINE of == [i \in DOMAIN m |-> m[i].chunk]
<1>10. of \in Injection(DOMAIN m, found)
  <2>1. \A i \in DOMAIN m : of[i] \in found
    BY ScoredPlaces DEF BestSoFar
  <2>2. \A i, j \in DOMAIN m : of[i] = of[j] => i = j
    BY <1>2 DEF Unique
  <2>3. of = [i \in DOMAIN m |-> of[i]]
    OBVIOUS
  <2> HIDE DEF of, found
  <2> QED
    BY <2>1, <2>2, <2>3 DEF Injection, IsInjective
<1>11. Len(m) <= Cardinality(found)
  <2> HIDE DEF of, found
  <2> QED
    BY <1>4, <1>9, <1>10, FS_Injection
<1>12. ASSUME Len(m) < FinalTopK PROVE Cardinality(found) = Len(m)
  <2>1. ASSUME NEW c \in found PROVE \E i \in DOMAIN m : of[i] = c
    <3>1. Cardinality(Beating(m, c, off[c])) <= Len(m) /\ Cardinality(Beating(m, c, off[c])) \in Nat
      <4>1. Beating(m, c, off[c]) \in SUBSET DOMAIN m
        BY DEF Beating
      <4> QED
        BY <4>1, <1>4, FS_Subset, FS_CardinalityType
    <3>2. ~(Cardinality(Beating(m, c, off[c])) >= FinalTopK)
      BY <1>4, <1>12, <3>1, FinalTopKNat
    <3>3. Holds(m, c, off[c])
      BY <3>2 DEF BestSoFar
    <3> QED
      BY <3>3 DEF Holds
  <2> HIDE DEF found, of
  <2>2. of \in Surjection(DOMAIN m, found)
    BY <1>10, <2>1 DEF Injection, Surjection
  <2>3. Cardinality(found) <= Len(m)
    BY <1>4, <2>2, FS_Surjection
  <2> QED
    BY <1>4, <1>9, <1>11, <2>3
<1> HIDE DEF found
<1>13. Len(t) = (IF Cardinality(found) < FinalTopK THEN Cardinality(found) ELSE FinalTopK)
  <2>1. Len(t) = IF Len(m) < FinalTopK THEN Len(m) ELSE FinalTopK
    BY <1>1 DEF Leads
  <2> QED
    BY <1>4, <1>9, <1>11, <1>12, <2>1, FinalTopKNat
<1> QED
  BY <1>3, <1>6, <1>7, <1>8, <1>13 DEF t, found

-----------------------------------------------------------------------------
(* The steps of a question *)

(* Chunks found and cited are in the scope that was computed once. *)
FoundInScope == ChunksOf(merged) \subseteq scope /\ ChunksOf(chunks) \subseteq scope

(* The settings are read by the planner; nothing was found while it or the *)
(* retriever is next.                                                      *)
ReadBeforeFound ==
    /\ terms = None <=> node = "planner"
    /\ node \in {"planner", "retriever"} => chunks = <<>>

(* The outcome is written by the last node, or by a failed synthesis. *)
EndsOnce ==
    /\ status \in {"processing", "pending_approval", "completed", "failed", "unrouted"}
    /\ node \in {"planner", "retriever", "verifier", "human_review", "synthesizer"} =>
          status = "processing"
    /\ node = "source_attributor" => status \in {"processing", "failed"}
    /\ status = "processing" => node # "end"
    /\ node = "source_attributor" /\ status = "processing" => answer \subseteq Markers
    /\ status # "completed" => citations = {}

(* With the gate on, only an answer with sources passes the hold. *)
HoldIsKept ==
    /\ node = "human_review" => config.review
    /\ node \in {"synthesizer", "source_attributor"} /\ config.review => chunks # <<>>

(* What every step of a question keeps: ChunksAreBest needs what the       *)
(* searches merged so far, and the contract needs where the question is.   *)
WorkflowIInv ==
    /\ WorkflowTypeOK
    /\ offered \in [Chunks -> Fraction \cup {None}] /\ BestSoFar(merged, offered)
    /\ FoundInScope
    /\ ReadBeforeFound
    /\ EndsOnce
    /\ HoldIsKept
    /\ ChunksAreBest

(* A list that has each chunk once has as many chunks as places. *)
LEMMA UniqueChunks ==
    ASSUME NEW m \in Seq(Scored), Unique(m)
    PROVE  Cardinality(ChunksOf(m)) = Len(m)
<1> DEFINE of == [i \in DOMAIN m |-> m[i].chunk]
<1>1. IsFiniteSet(DOMAIN m) /\ Cardinality(DOMAIN m) = Len(m)
  BY ListPlaces
<1>2. of \in Injection(DOMAIN m, ChunksOf(m)) /\ of \in Surjection(DOMAIN m, ChunksOf(m))
  BY DEF ChunksOf, Unique, Injection, Surjection, IsInjective
<1> HIDE DEF of
<1>3. /\ IsFiniteSet(ChunksOf(m)) /\ Cardinality(ChunksOf(m)) <= Len(m)
      /\ Len(m) <= Cardinality(ChunksOf(m)) /\ Len(m) \in Nat
  BY <1>1, <1>2, FS_Surjection, FS_Injection, ListPlaces
<1> QED
  BY <1>3, FS_CardinalityType

(* The empty list, and what is not empty. *)
LEMMA EmptyLists ==
    /\ <<>> \in Seq(Scored) /\ Unique(<<>>) /\ ChunksOf(<<>>) = {}
    /\ \A s \in Seq(Scored) : s # <<>> => ChunksOf(s) # {}
<1>1. <<>> \in Seq(Scored) /\ DOMAIN <<>> = {}
  BY EmptySeq
<1>2. ASSUME NEW s \in Seq(Scored), s # <<>> PROVE ChunksOf(s) # {}
  <2>1. Len(s) # 0 /\ Len(s) \in Nat /\ DOMAIN s = 1..Len(s)
    BY <1>2, EmptySeq, ListPlaces
  <2>2. 1 \in DOMAIN s
    BY <2>1
  <2> QED
    BY <2>2 DEF ChunksOf
<1> QED
  BY <1>1, <1>2 DEF Unique, ChunksOf

(* A question begins with nothing found. *)
LEMMA WorkflowInit_Inv == WorkflowInit => WorkflowIInv
<1> SUFFICES ASSUME WorkflowInit PROVE WorkflowIInv
  OBVIOUS
<1>1. merged = <<>> /\ chunks = <<>> /\ node = "planner" /\ terms = None
  BY DEF WorkflowInit
<1>2. WorkflowTypeOK
  <2>1. merged \in Seq(Scored) /\ Cardinality(ChunksOf(merged)) = Len(merged)
    BY <1>1, EmptyLists, UniqueChunks
  <2>2. todo \in 0..MaxSubqueries
    BY WorkflowAssumption DEF WorkflowInit
  <2> QED
    BY <1>1, <2>1, <2>2 DEF WorkflowInit, WorkflowTypeOK
<1>3. offered \in [Chunks -> Fraction \cup {None}]
  BY DEF WorkflowInit
<1>4. BestSoFar(merged, offered)
  BY <1>1, EmptyLists DEF WorkflowInit, BestSoFar
<1>5. FoundInScope /\ ReadBeforeFound /\ EndsOnce /\ HoldIsKept /\ ChunksAreBest
  BY <1>1, EmptyLists
  DEF WorkflowInit, FoundInScope, ReadBeforeFound, EndsOnce, HoldIsKept, ChunksAreBest
<1> QED
  BY <1>2, <1>3, <1>4, <1>5 DEF WorkflowIInv

(* A subquery keeps what was found best, and in scope. *)
LEMMA SearchStep ==
    ASSUME WorkflowIInv,
           NEW dense \in VectorSearch(scope, VectorK),
           NEW sparse \in KeywordSearch(scope, Bm25K),
           NEW rr \in Rerank(Listed(dense) \cup Listed(sparse), RerankScores),
           Search(dense, sparse, rr)
    PROVE  WorkflowIInv'
<1> DEFINE all == Scores(dense, sparse, rr)
           top == Top(SortDesc(all), FinalTopK)
<1> USE DEF WorkflowIInv
<1>1. scope \in SUBSET Chunks /\ scope' = scope
  BY DEF WorkflowTypeOK, Search
<1>2. /\ dense \in Seq(scope) /\ Distinct(dense)
      /\ sparse \in Seq(scope) /\ Distinct(sparse)
  BY <1>1, SearchLists, WorkflowAssumption
<1>3. all \in Seq(Scored) /\ Unique(all) /\ ChunksOf(all) \subseteq scope
  BY <1>1, <1>2, ScoresType
<1>4. merged' = MergeIn(merged, top)
  BY DEF Search, HybridSearch
<1>5. Offers(all, offered, offered')
  BY <1>3, SearchOffers DEF Search
<1> HIDE DEF all, top
<1>6. PICK at : Leads(at, top, all, FinalTopK)
  BY <1>3, FinalTopKNat, TopLeads DEF top
<1>7. top \in Seq(Scored) /\ Unique(top) /\ \A p \in DOMAIN top : top[p].chunk \in scope
  <2>1. top \in Seq(Scored) /\ \A p \in DOMAIN top : at[p] \in DOMAIN all /\ top[p] = all[at[p]]
    BY <1>6 DEF Leads
  <2>2. Unique(top)
    BY <1>3, <1>6, FinalTopKNat, TopUnique
  <2> QED
    BY <2>1, <2>2, <1>3 DEF ChunksOf
<1>8. merged \in Seq(Scored) /\ Unique(merged)
  BY DEF WorkflowTypeOK, BestSoFar
<1>9. Merges(merged, top, merged')
  BY <1>4, <1>7, <1>8, MergeInMerges
<1>10. BestSoFar(merged', offered')
  BY <1>3, <1>5, <1>8, <1>9, SearchKeepsBest DEF top
<1>11. offered' \in [Chunks -> Fraction \cup {None}]
  BY <1>5 DEF Offers
<1>12. merged' \in Seq(Scored) /\ Cardinality(ChunksOf(merged')) = Len(merged')
  BY <1>9, UniqueChunks DEF Merges
<1>13. ChunksOf(merged') \subseteq scope
  BY <1>7, <1>9 DEF Merges, ChunksOf, FoundInScope
<1>14. WorkflowTypeOK'
  <2>1. todo' \in 0..MaxSubqueries
    BY WorkflowAssumption DEF WorkflowTypeOK, Search
  <2> QED
    BY <1>12, <2>1 DEF WorkflowTypeOK, Search
<1>15. FoundInScope' /\ ReadBeforeFound' /\ EndsOnce' /\ HoldIsKept'
  BY <1>13 DEF Search, FoundInScope, ReadBeforeFound, EndsOnce, HoldIsKept
<1>16. ChunksAreBest'
  BY DEF Search, ChunksAreBest
<1> QED
  BY <1>10, <1>11, <1>14, <1>15, <1>16

(* The cut of the merged results is what the searches promised. *)
LEMMA RetrieverStep == WorkflowIInv /\ Retriever => WorkflowIInv'
<1> SUFFICES ASSUME WorkflowIInv, Retriever PROVE WorkflowIInv'
  OBVIOUS
<1> USE DEF WorkflowIInv
<1>1. /\ merged \in Seq(Scored) /\ chunks' = Top(SortDesc(merged), FinalTopK)
  BY DEF WorkflowTypeOK, Retriever
<1>2. PICK at : Leads(at, chunks', merged, FinalTopK)
  BY <1>1, FinalTopKNat, TopLeads
<1>3. chunks' \in Seq(Scored) /\ ChunksOf(chunks') \subseteq ChunksOf(merged)
  BY <1>2 DEF Leads, ChunksOf
<1>4. WorkflowTypeOK'
  BY <1>3 DEF WorkflowTypeOK, Retriever
<1>5. offered' \in [Chunks -> Fraction \cup {None}] /\ BestSoFar(merged', offered')
  BY DEF Retriever
<1>6. FoundInScope' /\ ReadBeforeFound' /\ EndsOnce' /\ HoldIsKept'
  BY <1>3 DEF Retriever, FoundInScope, ReadBeforeFound, EndsOnce, HoldIsKept
<1>7. ChunksAreBest'
  <2>1. offered' = offered
    BY DEF Retriever
  <2> QED
    BY <1>1, <2>1, TopIsBest DEF ChunksAreBest
<1> QED
  BY <1>4, <1>5, <1>6, <1>7

(* The other steps leave the search alone. *)
LEMMA OtherSteps ==
    ASSUME WorkflowIInv,
           \/ Planner \/ Verifier \/ HumanReview \/ Synthesizer
           \/ SourceAttributor \/ UpdateTenantSettings \/ UNCHANGED workflowVars
    PROVE  WorkflowIInv'
<1> USE DEF WorkflowIInv
<1>0. ASSUME Verifier
      PROVE  /\ node = "verifier" /\ node' \in {"human_review", "synthesizer", "end"}
             /\ sure' \in BOOLEAN
             /\ node' = "human_review" => config.review
             /\ node' = "synthesizer" /\ config.review => chunks # <<>>
             /\ UNCHANGED <<config, policy, scope, terms, todo, merged, chunks, answer,
                            citations, offered>>
             /\ \/ node' # "end" /\ status' = status /\ sent' = sent
                \/ node' # "end" /\ status' = status /\ Routed(terms)
                \/ Unrouted(terms)
  <2>0. /\ node = "verifier"
        /\ UNCHANGED <<config, policy, scope, terms, todo, merged, chunks, answer, citations,
                       offered>>
    BY <1>0 DEF Verifier
  <2>1. CASE chunks = <<>> /\ sure' = (0 >= ConfidenceThreshold)
             /\ node' = RouteAfterVerify(sure') /\ UNCHANGED <<sent, status>>
    <3>1. (0 >= ConfidenceThreshold) = FALSE
      BY WorkflowAssumption
    <3>2. sure' = FALSE
      BY <2>1, <3>1, Zenon
    <3> QED
      <4>1. chunks = <<>> /\ node' = RouteAfterVerify(FALSE) /\ sent' = sent /\ status' = status
        BY <2>1, <3>2, Zenon
      <4> QED
        BY <2>0, <3>2, <4>1 DEF RouteAfterVerify
  <2>2. CASE chunks # <<>> /\ Routed(terms) /\ sure' \in BOOLEAN
             /\ node' = RouteAfterVerify(sure') /\ UNCHANGED status
    BY <2>0, <2>2 DEF RouteAfterVerify
  <2>3. CASE chunks # <<>> /\ Unrouted(terms) /\ UNCHANGED sure
    BY <2>0, <2>3 DEF Unrouted, WorkflowTypeOK
  <2> QED
    BY <1>0, <2>1, <2>2, <2>3 DEF Verifier
<1>1. UNCHANGED <<config, scope, merged, offered, chunks>>
  BY DEF Planner, Verifier, HumanReview, Synthesizer, SourceAttributor, UpdateTenantSettings,
         workflowVars
<1>2. \A t : Resolve(t) # None => Resolve(t) \in {"cloud", "self_hosted"}
  BY DEF Resolve, SelfHostedRoute
<1>3. WorkflowTypeOK'
  <2> USE DEF WorkflowTypeOK
  <2>1. CASE Planner
    <3>1. todo' \in 0..MaxSubqueries
      BY <2>1, WorkflowAssumption DEF Planner
    <3> QED
      BY <2>1, <3>1, <1>2 DEF Planner, Unrouted, Routed
  <2>2. CASE Verifier
    BY <2>2, <1>0, <1>2 DEF Unrouted, Routed
  <2>3. CASE Synthesizer
    BY <2>3, <1>2 DEF Synthesizer, Unrouted, Routed
  <2>4. CASE SourceAttributor
    <3>1. status # "failed" => citations' \subseteq [marker : Markers, chunk : Chunks]
      <4>1. ASSUME status # "failed", NEW n \in answer, n \in DOMAIN chunks
            PROVE  n \in Markers /\ chunks[n].chunk \in Chunks
        <5>1. chunks[n].chunk \in Chunks
          BY <4>1, ScoredPlaces
        <5>2. n \in Markers
          BY <2>4, <4>1 DEF SourceAttributor, EndsOnce
        <5> QED
          BY <5>1, <5>2
      <4> QED
        BY <2>4, <4>1 DEF SourceAttributor, BuildCitations
    <3> QED
      BY <2>4, <3>1 DEF SourceAttributor
  <2>5. CASE HumanReview
    BY <2>5 DEF HumanReview
  <2>6. CASE UpdateTenantSettings
    BY <2>6 DEF UpdateTenantSettings
  <2>7. CASE UNCHANGED workflowVars
    BY <2>7 DEF workflowVars
  <2> QED
    BY <2>1, <2>2, <2>3, <2>4, <2>5, <2>6, <2>7
<1>4. FoundInScope'
  BY <1>1 DEF FoundInScope
<1>5. ReadBeforeFound' /\ EndsOnce' /\ HoldIsKept'
  <2> USE DEF ReadBeforeFound, EndsOnce, HoldIsKept
  <2>1. CASE Planner
    BY <2>1, NoneIsNoFraction DEF Planner, Unrouted, Routed, WorkflowTypeOK
  <2>2. CASE Verifier
    BY <2>2, <1>0 DEF Unrouted, Routed
  <2>3. CASE Synthesizer
    BY <2>3 DEF Synthesizer, Unrouted, Routed
  <2>4. CASE SourceAttributor
    BY <2>4 DEF SourceAttributor
  <2>5. CASE HumanReview
    BY <2>5 DEF HumanReview
  <2>6. CASE UpdateTenantSettings
    BY <2>6 DEF UpdateTenantSettings
  <2>7. CASE UNCHANGED workflowVars
    BY <2>7 DEF workflowVars
  <2> QED
    BY <2>1, <2>2, <2>3, <2>4, <2>5, <2>6, <2>7
<1>6. ChunksAreBest'
  <2>1. node' \in {"verifier", "human_review", "synthesizer", "source_attributor"} =>
           node \in {"verifier", "human_review", "synthesizer", "source_attributor"}
    BY DEF Planner, Verifier, HumanReview, Synthesizer, SourceAttributor, UpdateTenantSettings,
           workflowVars, Unrouted, Routed
  <2> QED
    BY <1>1, <2>1 DEF ChunksAreBest
<1>7. offered' \in [Chunks -> Fraction \cup {None}] /\ BestSoFar(merged', offered')
  BY <1>1
<1> QED
  BY <1>3, <1>4, <1>5, <1>6, <1>7

(* Every step of the agents keeps WorkflowIInv. *)
LEMMA WorkflowStep == WorkflowIInv /\ [WorkflowNext]_workflowVars => WorkflowIInv'
  BY SearchStep, RetrieverStep, OtherSteps DEF WorkflowNext

-----------------------------------------------------------------------------
(* The contract *)

(* The state of AnswerContract that a state of the agents stands for. *)
contractVars == <<config.review, scope, policy, terms, sent, ChunksOf(chunks),
                  {c.chunk : c \in citations}, Phase>>

(* A question that begins is one the contract allows. *)
LEMMA InitRefines == WorkflowInit => Contract!Init
<1> SUFFICES ASSUME WorkflowInit PROVE Contract!Init
  OBVIOUS
<1>1. config.review \in BOOLEAN
  BY DEF WorkflowInit, Configs
<1>2. Phase = "asked" /\ {c.chunk : c \in citations} = {} /\ ChunksOf(chunks) = {}
  BY EmptyLists DEF WorkflowInit, Phase
<1> QED
  BY <1>1, <1>2 DEF WorkflowInit, Contract!Init

(* Every step of the agents is a step of the contract, or invisible to it: *)
(* a hold only with the gate on, an answer only with sources, citations of *)
(* what was found, and model calls on the terms the question began with.   *)
LEMMA StepRefines ==
    WorkflowIInv /\ [WorkflowNext]_workflowVars => [Contract!Next]_contractVars
<1> SUFFICES ASSUME WorkflowIInv, [WorkflowNext]_workflowVars
             PROVE  Contract!Next \/ UNCHANGED contractVars
  BY DEF contractVars
<1> DEFINE cited == {c.chunk : c \in citations}
<1>1. terms \in BOOLEAN \cup {None} /\ policy \in BOOLEAN
      /\ (terms = None <=> node = "planner") /\ None \notin BOOLEAN
  BY NoneIsNoFraction DEF WorkflowIInv, WorkflowTypeOK, ReadBeforeFound
<1>2. ASSUME NEW t \in BOOLEAN, Routed(t)
      PROVE  \/ t = FALSE /\ sent' = sent \cup {"cloud"}
             \/ sent' = sent \cup {"self_hosted"}
  BY <1>2 DEF Routed, Resolve, SelfHostedRoute
<1>3. status = "processing" <=> Phase = "asked"
  BY DEF Phase, WorkflowIInv, EndsOnce
<1>4. status' = status => Phase' = Phase
  BY DEF Phase
<1>5. chunks' = chunks => ChunksOf(chunks') = ChunksOf(chunks)
  OBVIOUS
<1>6. citations' = citations => cited' = cited
  OBVIOUS
<1>7. status' = "unrouted" => Phase' = "unrouted"
  BY DEF Phase
<1>8. status # "completed" => cited = {}
  BY DEF WorkflowIInv, EndsOnce
<1> HIDE DEF cited
<1> USE DEF contractVars
<1>9. CASE Planner
  <2>1. /\ Phase = "asked" /\ terms = None /\ terms' = policy
        /\ UNCHANGED <<config, scope, policy, chunks, citations>>
    BY <1>1, <1>3, <1>9 DEF Planner, WorkflowIInv, EndsOnce
  <2>2. CASE Unrouted(policy)
    BY <2>1, <2>2, <1>5, <1>6, <1>7
    DEF Unrouted, Contract!Next, Contract!Begin, Contract!Consults, cited
  <2>3. CASE Routed(policy) /\ UNCHANGED status
    BY <2>1, <2>3, <1>1, <1>2, <1>4, <1>5, <1>6
    DEF Contract!Next, Contract!Begin, Contract!Consults, cited
  <2> QED
    BY <2>2, <2>3, <1>9 DEF Planner
<1>10. CASE \E dense \in VectorSearch(scope, VectorK), sparse \in KeywordSearch(scope, Bm25K) :
               \E rr \in Rerank(Listed(dense) \cup Listed(sparse), RerankScores) :
                  Search(dense, sparse, rr)
  BY <1>10, <1>4, <1>5, <1>6 DEF Search, cited
<1>11. CASE Retriever
  <2>1. /\ Phase = "asked" /\ terms # None
        /\ UNCHANGED <<config, scope, policy, terms, sent, citations, status>>
    BY <1>1, <1>3, <1>11 DEF Retriever, WorkflowIInv, EndsOnce
  <2>2. ChunksOf(chunks) = {}
    BY <1>11, EmptyLists DEF Retriever, WorkflowIInv, ReadBeforeFound
  <2>3. ChunksOf(chunks') \subseteq scope
    <3>1. WorkflowIInv'
      BY <1>11, RetrieverStep
    <3> QED
      BY <2>1, <3>1 DEF WorkflowIInv, FoundInScope
  <2> QED
    BY <2>1, <2>2, <2>3, <1>4, <1>6 DEF Contract!Next, Contract!Find, cited
<1>12. CASE Verifier
  <2>1. /\ Phase = "asked" /\ terms \in BOOLEAN /\ terms # None
        /\ UNCHANGED <<config, scope, policy, terms, chunks, citations>> /\ cited = {}
    BY <1>1, <1>3, <1>8, <1>12 DEF Verifier, WorkflowIInv, EndsOnce
  <2>2. CASE UNCHANGED <<sent, status>>
    BY <2>1, <2>2, <1>4, <1>5, <1>6 DEF cited
  <2>3. CASE Routed(terms) /\ UNCHANGED status
    BY <2>1, <2>3, <1>2, <1>4, <1>5, <1>6
    DEF Contract!Next, Contract!Work, Contract!Consults, cited
  <2>4. CASE Unrouted(terms)
    BY <2>1, <2>4, <1>5, <1>6, <1>7
    DEF Unrouted, Contract!Next, Contract!Work, Contract!Consults, Contract!Ends, cited
  <2> QED
    BY <2>2, <2>3, <2>4, <1>12 DEF Verifier
<1>13. CASE HumanReview
  <2>1. /\ Phase = "asked" /\ terms # None /\ cited = {} /\ config.review
        /\ UNCHANGED <<config, scope, policy, terms, sent, chunks, citations>>
    BY <1>1, <1>3, <1>8, <1>13 DEF HumanReview, WorkflowIInv, EndsOnce, HoldIsKept
  <2>2. Phase' = "held"
    BY <1>13 DEF HumanReview, Phase
  <2> QED
    BY <2>1, <2>2, <1>5, <1>6
    DEF Contract!Next, Contract!Work, Contract!Consults, Contract!Ends, cited
<1>14. CASE Synthesizer
  <2>1. /\ Phase = "asked" /\ terms \in BOOLEAN /\ terms # None
        /\ UNCHANGED <<config, scope, policy, terms, chunks, citations>> /\ cited = {}
    BY <1>1, <1>3, <1>8, <1>14 DEF Synthesizer, WorkflowIInv, EndsOnce
  <2>2. CASE Unrouted(terms)
    BY <2>1, <2>2, <1>5, <1>6, <1>7
    DEF Unrouted, Contract!Next, Contract!Work, Contract!Consults, Contract!Ends, cited
  <2>3. CASE Routed(terms) /\ UNCHANGED status
    BY <2>1, <2>3, <1>2, <1>4, <1>5, <1>6
    DEF Contract!Next, Contract!Work, Contract!Consults, cited
  <2>4. CASE Routed(terms) /\ status' = "failed"
    <3>1. Phase' = "failed"
      BY <2>4 DEF Phase
    <3> QED
      BY <2>1, <2>4, <3>1, <1>2, <1>5, <1>6
      DEF Contract!Next, Contract!Work, Contract!Consults, Contract!Ends, cited
  <2> QED
    BY <2>2, <2>3, <2>4, <1>14 DEF Synthesizer
<1>15. CASE SourceAttributor
  <2>1. UNCHANGED <<config, scope, policy, terms, sent, chunks>> /\ terms # None
    BY <1>1, <1>15 DEF SourceAttributor
  <2>2. CASE status = "failed"
    BY <2>1, <2>2, <1>4, <1>5, <1>6, <1>15 DEF SourceAttributor, cited
  <2>3. CASE status # "failed"
    <3>1. Phase = "asked" /\ Phase' = "answered" /\ citations' = BuildCitations
      BY <2>3, <1>3, <1>15 DEF SourceAttributor, WorkflowIInv, EndsOnce, Phase
    <3>2. config.review => ChunksOf(chunks) # {}
      BY <1>15, EmptyLists
      DEF SourceAttributor, WorkflowIInv, WorkflowTypeOK, HoldIsKept
    <3>3. cited' \subseteq ChunksOf(chunks)
      BY <3>1 DEF BuildCitations, ChunksOf, cited
    <3> QED
      BY <2>1, <3>1, <3>2, <3>3, <1>5
      DEF Contract!Next, Contract!Work, Contract!Consults, Contract!Ends, cited
  <2> QED
    BY <2>2, <2>3
<1>16. CASE UpdateTenantSettings
  <2>1. policy' \in BOOLEAN
    BY <1>1, <1>16 DEF UpdateTenantSettings
  <2> QED
    BY <2>1, <1>4, <1>5, <1>6, <1>16
    DEF UpdateTenantSettings, Contract!Next, Contract!ChangePolicy, cited
<1>17. CASE UNCHANGED workflowVars
  BY <1>17, <1>4, <1>5, <1>6 DEF workflowVars, cited
<1> QED
  BY <1>9, <1>10, <1>11, <1>12, <1>13, <1>14, <1>15, <1>16, <1>17 DEF WorkflowNext
=============================================================================
