----------------------------- MODULE CallProofs -----------------------------
(***************************************************************************)
(* What TLAPS proves about the calls a turn makes of models: what they     *)
(* carry (Disclosure), how much they may produce (Sizing), what they ask   *)
(* this machine to keep (Residency), what they are billed (Spending) and   *)
(* where they go (ModelAccess), for any turns, models, machines and        *)
(* bounds.  What a fold over a finite set adds up to, which the bill and   *)
(* the memory of the machine need, comes first.                            *)
(***************************************************************************)
EXTENDS ModelAccess, Disclosure, Residency, FiniteSetTheorems, WellFoundedInduction, TLAPS

-----------------------------------------------------------------------------
(* What a fold over a finite set adds up to.                                *)

\* Of any sets within a finite one, some have none of the others inside.
LEMMA SmallestSet ==
    ASSUME NEW S, IsFiniteSet(S), NEW B \in SUBSET SUBSET S, B # {}
    PROVE  \E T \in B : \A U \in B : U \subseteq T => U = T
<1>1. B \subseteq FiniteSubsetsOf(S)
  BY FS_FiniteSubsetsOfFinite
<1>2. PICK T \in B : \A U \in B : ~(<<U, T>> \in StrictSubsetOrdering(S))
  BY <1>1, WFMin, FS_StrictSubsetOrderingWellFounded
<1>3. ASSUME NEW U \in B, U \subseteq T, U # T PROVE FALSE
  <2>1. <<U, T>> \in (SUBSET S) \X (SUBSET S)
    OBVIOUS
  <2>2. <<U, T>> \in StrictSubsetOrdering(S)
    BY <1>3, <2>1 DEF StrictSubsetOrdering
  <2> QED BY <1>2, <2>2
<1> QED BY <1>3

\* The member that a fold takes first, and what a fold computes for every part of a set.
First(s) == CHOOSE x \in s : TRUE
Rest(s) == s \ {First(s)}
Adds(w, S, it) == it = [s \in SUBSET S |-> IF s = {} THEN 0 ELSE w[First(s)] + it[Rest(s)]]

\* The sum of the community modules is such a fold, of the whole set.
LEMMA SumIsFold == ASSUME NEW w, NEW S
  PROVE SumFunctionOnSet(w, S) = (CHOOSE it : Adds(w, S, it))[S]
BY Zenon DEF SumFunctionOnSet, FoldFunctionOnSet, MapThenFoldSet, Adds, First, Rest

\* What a fold takes first is a member, and the others are fewer.
LEMMA FirstIsOne ==
    ASSUME NEW s, s # {}
    PROVE  First(s) \in s /\ Rest(s) \subseteq s /\ Rest(s) # s
BY DEF First, Rest

\* The fold over a set computes the same for its parts as the fold over one of them.
LEMMA AddsAlike ==
    ASSUME NEW w, NEW S, IsFiniteSet(S), NEW T \in SUBSET S,
           NEW a, Adds(w, S, a), NEW b, Adds(w, T, b), NEW U \in SUBSET T
    PROVE  a[U] = b[U]
<1> DEFINE B == {P \in SUBSET T : a[P] # b[P]}
<1>1. SUFFICES ASSUME B # {} PROVE FALSE
  OBVIOUS
<1>2. IsFiniteSet(T)
  BY FS_Subset
<1>3. PICK P \in B : \A Q \in B : Q \subseteq P => Q = P
  <2>1. B \in SUBSET SUBSET T
    OBVIOUS
  <2> HIDE DEF B
  <2> QED BY <1>1, <1>2, <2>1, SmallestSet
<1>4. P \in SUBSET T /\ a[P] # b[P] /\ P \in SUBSET S
  OBVIOUS
<1>5. a[P] = (IF P = {} THEN 0 ELSE w[First(P)] + a[Rest(P)])
  BY <1>4 DEF Adds
<1>6. b[P] = (IF P = {} THEN 0 ELSE w[First(P)] + b[Rest(P)])
  BY <1>4 DEF Adds
<1>7. P # {}
  BY <1>4, <1>5, <1>6
<1>8. Rest(P) \in SUBSET T /\ Rest(P) \subseteq P /\ Rest(P) # P
  BY <1>4, <1>7, FirstIsOne
<1>9. Rest(P) \notin B
  BY <1>3, <1>8
<1>10. a[Rest(P)] = b[Rest(P)]
  BY <1>8, <1>9
<1> QED BY <1>4, <1>5, <1>6, <1>7, <1>10

\* There is such a fold, as its definition by recursion says.
LEMMA AddsExists ==
    ASSUME NEW w, NEW S, IsFiniteSet(S)
    PROVE  \E it : Adds(w, S, it)
<1> DEFINE B == {P \in SUBSET S : ~\E it : Adds(w, P, it)}
<1>1. SUFFICES ASSUME B # {} PROVE FALSE
  OBVIOUS
<1>2. PICK P \in B : \A Q \in B : Q \subseteq P => Q = P
  <2>1. B \in SUBSET SUBSET S
    OBVIOUS
  <2> HIDE DEF B
  <2> QED BY <1>1, <2>1, SmallestSet
<1> DEFINE Fold(s) == CHOOSE g : Adds(w, s, g)
           Value(s) == IF s = {} THEN 0 ELSE w[First(s)] + Fold(Rest(s))[Rest(s)]
           it == [s \in SUBSET P |-> Value(s)]
<1>3. ASSUME NEW Q, Q \subseteq P, Q # P PROVE Adds(w, Q, Fold(Q)) /\ IsFiniteSet(Q)
  <2>1. Q \in SUBSET S /\ Q \notin B
    BY <1>2, <1>3
  <2>2. \E g : Adds(w, Q, g)
    BY <2>1
  <2> QED BY <2>1, <2>2, FS_Subset
<1>4. ASSUME NEW s \in SUBSET P, s # {} PROVE it[Rest(s)] = Fold(Rest(s))[Rest(s)]
  <2> DEFINE r == Rest(s)
  <2>1. r \subseteq P /\ r # P /\ r \in SUBSET r
    BY <1>4, FirstIsOne
  <2>2. Adds(w, r, Fold(r)) /\ IsFiniteSet(r)
    BY <1>3, <2>1
  <2> HIDE DEF r, Fold
  <2>3. Fold(r)[r] = IF r = {} THEN 0 ELSE w[First(r)] + Fold(r)[Rest(r)]
    BY <2>1, <2>2 DEF Adds
  <2>4. it[r] = IF r = {} THEN 0 ELSE w[First(r)] + Fold(Rest(r))[Rest(r)]
    BY <2>1
  <2>5. ASSUME r # {} PROVE Fold(r)[Rest(r)] = Fold(Rest(r))[Rest(r)]
    <3>1. Rest(r) \in SUBSET r /\ Rest(r) # r
      BY <2>5, FirstIsOne
    <3>2. Adds(w, Rest(r), Fold(Rest(r)))
      BY <1>3, <2>1, <3>1
    <3> QED BY <2>2, <3>1, <3>2, AddsAlike
  <2>6. it[r] = Fold(r)[r]
    BY <2>3, <2>4, <2>5
  <2> QED BY <2>6 DEF r
<1>5. Adds(w, P, it)
  <2>1. \A s \in SUBSET P : Value(s) = IF s = {} THEN 0 ELSE w[First(s)] + it[Rest(s)]
    <3> HIDE DEF it, Fold
    <3> QED BY <1>4
  <2> HIDE DEF Value
  <2>2. it = [s \in SUBSET P |-> it[s]] /\ \A s \in SUBSET P : it[s] = Value(s)
    OBVIOUS
  <2> HIDE DEF it
  <2>3. \A s \in SUBSET P : it[s] = IF s = {} THEN 0 ELSE w[First(s)] + it[Rest(s)]
    BY <2>1, <2>2
  <2>4. it = [s \in SUBSET P |-> IF s = {} THEN 0 ELSE w[First(s)] + it[Rest(s)]]
    BY ONLY <2>2, <2>3
  <2> QED BY <2>4 DEF Adds
<1> QED BY <1>5

\* The sum of a finite set: nothing of none, and one of its members with the sum of the others.
LEMMA SumByFirst ==
    ASSUME NEW w, NEW S, IsFiniteSet(S)
    PROVE  SumFunctionOnSet(w, S) = IF S = {} THEN 0 ELSE w[First(S)] + SumFunctionOnSet(w, Rest(S))
<1> DEFINE Fold(s) == CHOOSE it : Adds(w, s, it)
<1>1. \A s : SumFunctionOnSet(w, s) = Fold(s)[s]
  BY SumIsFold
<1>2. Adds(w, S, Fold(S))
  BY AddsExists
<1> HIDE DEF Fold
<1>3. Fold(S)[S] = IF S = {} THEN 0 ELSE w[First(S)] + Fold(S)[Rest(S)]
  BY <1>2 DEF Adds
<1>4. ASSUME S # {} PROVE Fold(S)[Rest(S)] = Fold(Rest(S))[Rest(S)]
  <2>1. Rest(S) \in SUBSET S /\ IsFiniteSet(Rest(S)) /\ Rest(S) \in SUBSET Rest(S)
    BY <1>4, FirstIsOne, FS_Subset
  <2>2. Adds(w, Rest(S), Fold(Rest(S)))
    BY <2>1, AddsExists DEF Fold
  <2> QED BY <1>2, <2>1, <2>2, AddsAlike
<1> QED BY <1>1, <1>3, <1>4

\* What holds of no numbers, and of those of a set when it does of fewer, holds of the numbers of
\* any finite set; and what is summed of them is a number.
LEMMA SumIsNat ==
    ASSUME NEW S, IsFiniteSet(S), NEW w, \A x \in S : w[x] \in Nat
    PROVE  SumFunctionOnSet(w, S) \in Nat
<1> DEFINE B == {P \in SUBSET S : SumFunctionOnSet(w, P) \notin Nat}
<1>1. SUFFICES ASSUME B # {} PROVE FALSE
  OBVIOUS
<1>2. PICK P \in B : \A Q \in B : Q \subseteq P => Q = P
  <2>1. B \in SUBSET SUBSET S
    OBVIOUS
  <2> HIDE DEF B
  <2> QED BY <1>1, <2>1, SmallestSet
<1>3. P \in SUBSET S /\ IsFiniteSet(P) /\ SumFunctionOnSet(w, P) \notin Nat
  BY FS_Subset
<1>4. SumFunctionOnSet(w, P) = IF P = {} THEN 0 ELSE w[First(P)] + SumFunctionOnSet(w, Rest(P))
  BY <1>3, SumByFirst
<1>5. P # {}
  BY <1>3, <1>4
<1>6. First(P) \in S /\ Rest(P) \in SUBSET S /\ Rest(P) \subseteq P /\ Rest(P) # P
  BY <1>3, <1>5, FirstIsOne
<1>7. SumFunctionOnSet(w, Rest(P)) \in Nat
  BY <1>2, <1>6
<1> QED BY <1>3, <1>4, <1>5, <1>6, <1>7

\* Any of the members may be taken apart.
LEMMA SumByOne ==
    ASSUME NEW S, IsFiniteSet(S), NEW w, \A x \in S : w[x] \in Nat, NEW x \in S
    PROVE  /\ SumFunctionOnSet(w, S) \in Nat /\ SumFunctionOnSet(w, S \ {x}) \in Nat
           /\ SumFunctionOnSet(w, S) = w[x] + SumFunctionOnSet(w, S \ {x})
<1> DEFINE Sum(s) == SumFunctionOnSet(w, s)
           B == {P \in SUBSET S : \E y \in P : Sum(P) # w[y] + Sum(P \ {y})}
<1>1. \A P \in SUBSET S : IsFiniteSet(P) /\ Sum(P) \in Nat
  <2> TAKE P \in SUBSET S
  <2>1. IsFiniteSet(P) /\ \A y \in P : w[y] \in Nat
    BY FS_Subset
  <2> QED BY <2>1, SumIsNat
<1>2. \A P \in SUBSET S : P # {} => Sum(P) = w[First(P)] + Sum(Rest(P))
  BY <1>1, SumByFirst
<1> HIDE DEF Sum
<1>3. ASSUME B # {} PROVE FALSE
  <2>1. PICK P \in B : \A Q \in B : Q \subseteq P => Q = P
    <3>1. B \in SUBSET SUBSET S
      OBVIOUS
    <3> HIDE DEF B
    <3> QED BY <1>3, <3>1, SmallestSet
  <2>2. P \in SUBSET S
    OBVIOUS
  <2>3. PICK z \in P : Sum(P) # w[z] + Sum(P \ {z})
    OBVIOUS
  <2>4. PICK y \in P : y = First(P) /\ Rest(P) = P \ {y}
    BY <2>3, FirstIsOne DEF Rest
  <2>5. Sum(P) = w[y] + Sum(P \ {y})
    BY <1>2, <2>2, <2>4
  <2>6. y # z
    BY <2>3, <2>5
  <2>7. \A Q \in SUBSET P : Q # P => \A v \in Q : Sum(Q) = w[v] + Sum(Q \ {v})
    BY <2>1, <2>2
  <2> HIDE DEF B
  <2> DEFINE Py == P \ {y}
             Pz == P \ {z}
  <2>8. Sum(Py) = w[z] + Sum(Py \ {z})
    <3>1. Py \in SUBSET P /\ Py # P /\ z \in Py
      BY <2>6
    <3> HIDE DEF Py
    <3> QED BY <2>7, <3>1
  <2>9. Sum(Pz) = w[y] + Sum(Pz \ {y})
    <3>1. Pz \in SUBSET P /\ Pz # P /\ y \in Pz
      BY <2>6
    <3> HIDE DEF Pz
    <3> QED BY <2>7, <3>1
  <2>10. Py \ {z} = Pz \ {y}
    OBVIOUS
  <2>11. w[y] \in Nat /\ w[z] \in Nat /\ Sum(Pz \ {y}) \in Nat
    BY <1>1, <2>2
  <2>12. Sum(P) = w[z] + Sum(Pz)
    <3> HIDE DEF Py, Pz
    <3> QED BY <2>5, <2>8, <2>9, <2>10, <2>11 DEF Py
  <2> QED BY <2>3, <2>12
<1>4. \A y \in S : Sum(S) = w[y] + Sum(S \ {y})
  BY <1>3
<1> QED BY <1>1, <1>4 DEF Sum

\* Equal numbers have equal sums.
LEMMA SumAlike ==
    ASSUME NEW S, IsFiniteSet(S), NEW v, NEW w, \A x \in S : v[x] = w[x]
    PROVE  SumFunctionOnSet(v, S) = SumFunctionOnSet(w, S)
<1> DEFINE B == {P \in SUBSET S : SumFunctionOnSet(v, P) # SumFunctionOnSet(w, P)}
<1>1. SUFFICES ASSUME B # {} PROVE FALSE
  OBVIOUS
<1>2. PICK P \in B : \A Q \in B : Q \subseteq P => Q = P
  <2>1. B \in SUBSET SUBSET S
    OBVIOUS
  <2> HIDE DEF B
  <2> QED BY <1>1, <2>1, SmallestSet
<1>3. P \in SUBSET S /\ IsFiniteSet(P) /\ SumFunctionOnSet(v, P) # SumFunctionOnSet(w, P)
  BY FS_Subset
<1>4. SumFunctionOnSet(w, P) = IF P = {} THEN 0 ELSE w[First(P)] + SumFunctionOnSet(w, Rest(P))
  BY <1>3, SumByFirst
<1>5. SumFunctionOnSet(v, P) = IF P = {} THEN 0 ELSE v[First(P)] + SumFunctionOnSet(v, Rest(P))
  BY <1>3, SumByFirst
<1>6. P # {}
  BY <1>3, <1>4, <1>5
<1>7. First(P) \in S /\ Rest(P) \in SUBSET S /\ Rest(P) \subseteq P /\ Rest(P) # P
  BY <1>3, <1>6, FirstIsOne
<1>8. SumFunctionOnSet(v, Rest(P)) = SumFunctionOnSet(w, Rest(P))
  BY <1>2, <1>7
<1> QED BY <1>3, <1>4, <1>5, <1>6, <1>7, <1>8

\* More numbers have no smaller sum.
LEMMA SumGrows ==
    ASSUME NEW S, IsFiniteSet(S), NEW w, \A x \in S : w[x] \in Nat, NEW T \in SUBSET S
    PROVE  /\ SumFunctionOnSet(w, T) \in Nat /\ SumFunctionOnSet(w, S) \in Nat
           /\ SumFunctionOnSet(w, T) <= SumFunctionOnSet(w, S)
<1> DEFINE Sum(s) == SumFunctionOnSet(w, s)
           B == {P \in SUBSET S : T \subseteq P /\ ~(Sum(T) <= Sum(P))}
<1>1. \A P \in SUBSET S : IsFiniteSet(P) /\ Sum(P) \in Nat /\ \A x \in P : Sum(P) = w[x] + Sum(P \ {x})
  <2> TAKE P \in SUBSET S
  <2>1. IsFiniteSet(P) /\ \A y \in P : w[y] \in Nat
    BY FS_Subset
  <2> QED BY <2>1, SumIsNat, SumByOne
<1> HIDE DEF Sum
<1>2. ASSUME B # {} PROVE FALSE
  <2>1. PICK P \in B : \A Q \in B : Q \subseteq P => Q = P
    <3>1. B \in SUBSET SUBSET S
      OBVIOUS
    <3> HIDE DEF B
    <3> QED BY <1>2, <3>1, SmallestSet
  <2>2. P \in SUBSET S /\ T \subseteq P /\ ~(Sum(T) <= Sum(P))
    OBVIOUS
  <2>3. PICK x \in P : x \notin T
    BY <1>1, <2>2
  <2> DEFINE R == P \ {x}
  <2>4. R \in SUBSET S /\ T \subseteq R /\ R \subseteq P /\ R # P
    BY <2>2, <2>3
  <2>5. Sum(T) <= Sum(R)
    <3> HIDE DEF R
    <3> QED BY <2>1, <2>4
  <2>6. Sum(P) = w[x] + Sum(R) /\ w[x] \in Nat /\ Sum(R) \in Nat /\ Sum(T) \in Nat
    BY <1>1, <2>2, <2>4
  <2> HIDE DEF R
  <2>7. Sum(T) <= Sum(P)
    BY ONLY <2>5, <2>6
  <2> QED BY <2>2, <2>7
<1>3. Sum(T) <= Sum(S)
  BY <1>2
<1> QED BY <1>1, <1>3 DEF Sum

\* Two sets apart add up.
LEMMA SumApart ==
    ASSUME NEW S, IsFiniteSet(S), NEW w, \A x \in S : w[x] \in Nat, NEW T \in SUBSET S
    PROVE  /\ SumFunctionOnSet(w, T) \in Nat /\ SumFunctionOnSet(w, S \ T) \in Nat
           /\ SumFunctionOnSet(w, S) = SumFunctionOnSet(w, T) + SumFunctionOnSet(w, S \ T)
<1> DEFINE Sum(s) == SumFunctionOnSet(w, s)
           B == {P \in SUBSET T : Sum(S) # Sum(P) + Sum(S \ P)}
<1>1. \A P \in SUBSET S : IsFiniteSet(P) /\ Sum(P) \in Nat /\ \A x \in P : Sum(P) = w[x] + Sum(P \ {x})
  <2> TAKE P \in SUBSET S
  <2>1. IsFiniteSet(P) /\ \A y \in P : w[y] \in Nat
    BY FS_Subset
  <2> QED BY <2>1, SumIsNat, SumByOne
<1>2. Sum({}) = 0
  BY SumByFirst, FS_EmptySet
<1> HIDE DEF Sum
<1>3. ASSUME B # {} PROVE FALSE
  <2>1. PICK P \in B : \A Q \in B : Q \subseteq P => Q = P
    <3>1. B \in SUBSET SUBSET T /\ IsFiniteSet(T)
      BY FS_Subset
    <3> HIDE DEF B
    <3> QED BY <1>3, <3>1, SmallestSet
  <2>2. P \in SUBSET S /\ P \in SUBSET T /\ Sum(S) # Sum(P) + Sum(S \ P)
    OBVIOUS
  <2>3. PICK x \in P : TRUE
    <3>1. ASSUME P = {} PROVE FALSE
      <4>1. S \ P = S /\ Sum(P) = 0 /\ Sum(S) \in Nat
        BY <1>1, <1>2, <3>1
      <4> HIDE DEF B
      <4> QED BY <2>2, <4>1
    <3> QED BY <3>1
  <2> DEFINE R == P \ {x}
             O == S \ P
             M == S \ R
  <2>4. R \in SUBSET T /\ R \subseteq P /\ R # P /\ R \in SUBSET S /\ O \in SUBSET S /\ M \in SUBSET S
    BY <2>2
  <2>5. Sum(S) = Sum(R) + Sum(M)
    <3> HIDE DEF R, M
    <3>1. R \notin B
      BY <2>1, <2>4
    <3> QED BY <2>4, <3>1 DEF M
  <2>6. x \in M /\ M \ {x} = O
    BY <2>2
  <2>7. Sum(P) = w[x] + Sum(R)
    BY <1>1, <2>2
  <2> HIDE DEF R, O, M
  <2>8. Sum(M) = w[x] + Sum(O)
    BY <1>1, <2>4, <2>6
  <2>9. PICK a, b, c, p, m : a = w[x] /\ b = Sum(R) /\ c = Sum(O) /\ p = Sum(P) /\ m = Sum(M)
    OBVIOUS
  <2>10. a \in Nat /\ b \in Nat /\ c \in Nat
    BY <1>1, <2>2, <2>4, <2>9
  <2>11. p = a + b /\ m = a + c /\ Sum(S) = b + m
    BY <2>5, <2>7, <2>8, <2>9
  <2>12. Sum(S) = p + c
    BY ONLY <2>10, <2>11
  <2> QED BY <2>2, <2>9, <2>12 DEF O
<1>4. Sum(S) = Sum(T) + Sum(S \ T)
  BY <1>3
<1> QED BY <1>1, <1>4 DEF Sum

\* Lesser numbers have no greater sum.
LEMMA SumLess ==
    ASSUME NEW S, IsFiniteSet(S), NEW v, NEW w, \A x \in S : v[x] \in Nat /\ w[x] \in Nat /\ v[x] <= w[x]
    PROVE  SumFunctionOnSet(v, S) <= SumFunctionOnSet(w, S)
<1> DEFINE B == {P \in SUBSET S : ~(SumFunctionOnSet(v, P) <= SumFunctionOnSet(w, P))}
<1>1. SUFFICES ASSUME B # {} PROVE FALSE
  OBVIOUS
<1>2. PICK P \in B : \A Q \in B : Q \subseteq P => Q = P
  <2>1. B \in SUBSET SUBSET S
    OBVIOUS
  <2> HIDE DEF B
  <2> QED BY <1>1, <2>1, SmallestSet
<1>3. P \in SUBSET S /\ IsFiniteSet(P) /\ ~(SumFunctionOnSet(v, P) <= SumFunctionOnSet(w, P))
  BY FS_Subset
<1>4. SumFunctionOnSet(w, P) = IF P = {} THEN 0 ELSE w[First(P)] + SumFunctionOnSet(w, Rest(P))
  BY <1>3, SumByFirst
<1>5. SumFunctionOnSet(v, P) = IF P = {} THEN 0 ELSE v[First(P)] + SumFunctionOnSet(v, Rest(P))
  BY <1>3, SumByFirst
<1>6. P # {}
  BY <1>3, <1>4, <1>5
<1>7. First(P) \in S /\ Rest(P) \in SUBSET S /\ Rest(P) \subseteq P /\ Rest(P) # P
  BY <1>3, <1>6, FirstIsOne
<1>8. SumFunctionOnSet(v, Rest(P)) <= SumFunctionOnSet(w, Rest(P))
  BY <1>2, <1>7
<1>9. SumFunctionOnSet(v, Rest(P)) \in Nat /\ SumFunctionOnSet(w, Rest(P)) \in Nat
  <2>1. IsFiniteSet(Rest(P))
    BY <1>7, FS_Subset
  <2> QED BY <1>7, <2>1, SumIsNat
<1>10. PICK a, b, c, d : a = v[First(P)] /\ b = w[First(P)] /\ c = SumFunctionOnSet(v, Rest(P)) /\ d = SumFunctionOnSet(w, Rest(P))
  OBVIOUS
<1>11. a \in Nat /\ b \in Nat /\ a <= b /\ c \in Nat /\ d \in Nat /\ c <= d
  BY <1>7, <1>8, <1>9, <1>10
<1>12. a + c <= b + d
  BY ONLY <1>11
<1> QED BY <1>3, <1>4, <1>5, <1>6, <1>10, <1>12

\* Nothing adds up to nothing.
LEMMA SumOfNone ==
    ASSUME NEW S, IsFiniteSet(S), NEW w, \A x \in S : w[x] = 0
    PROVE  SumFunctionOnSet(w, S) = 0
<1> DEFINE B == {P \in SUBSET S : SumFunctionOnSet(w, P) # 0}
<1>1. SUFFICES ASSUME B # {} PROVE FALSE
  OBVIOUS
<1>2. PICK P \in B : \A Q \in B : Q \subseteq P => Q = P
  <2>1. B \in SUBSET SUBSET S
    OBVIOUS
  <2> HIDE DEF B
  <2> QED BY <1>1, <2>1, SmallestSet
<1>3. P \in SUBSET S /\ IsFiniteSet(P) /\ SumFunctionOnSet(w, P) # 0
  BY FS_Subset
<1>4. SumFunctionOnSet(w, P) = IF P = {} THEN 0 ELSE w[First(P)] + SumFunctionOnSet(w, Rest(P))
  BY <1>3, SumByFirst
<1>5. P # {}
  BY <1>3, <1>4
<1>6. First(P) \in S /\ Rest(P) \in SUBSET S /\ Rest(P) \subseteq P /\ Rest(P) # P
  BY <1>3, <1>5, FirstIsOne
<1>7. SumFunctionOnSet(w, Rest(P)) = 0
  BY <1>2, <1>6
<1> QED BY <1>3, <1>4, <1>5, <1>6, <1>7

\* One more in one place is one more in every sum with that place.
LEMMA SumBooks ==
    ASSUME NEW S, IsFiniteSet(S), NEW v, NEW w, NEW x, \A y \in S : v[y] \in Nat /\ w[y] \in Nat,
           \A y \in S : w[y] = IF y = x THEN v[y] + 1 ELSE v[y]
    PROVE  SumFunctionOnSet(w, S) = SumFunctionOnSet(v, S) + IF x \in S THEN 1 ELSE 0
<1>1. CASE x \in S
  <2>1. PICK a, b, c, d, e : /\ a = SumFunctionOnSet(v, S) /\ b = SumFunctionOnSet(w, S) /\ e = v[x]
                             /\ c = SumFunctionOnSet(v, S \ {x}) /\ d = SumFunctionOnSet(w, S \ {x})
    OBVIOUS
  <2>2. a = e + c /\ b = (e + 1) + d /\ c \in Nat /\ e \in Nat /\ d \in Nat
    BY <1>1, <2>1, SumByOne
  <2>3. c = d
    <3>1. IsFiniteSet(S \ {x}) /\ \A y \in S \ {x} : v[y] = w[y]
      BY FS_Subset
    <3> QED BY <2>1, <3>1, SumAlike
  <2>4. b = a + 1
    BY ONLY <2>2, <2>3
  <2> QED BY <1>1, <2>1, <2>4
<1>2. CASE x \notin S
  <2>1. \A y \in S : v[y] = w[y]
    BY <1>2
  <2>2. SumFunctionOnSet(v, S) = SumFunctionOnSet(w, S)
    BY <2>1, SumAlike
  <2>3. SumFunctionOnSet(v, S) \in Nat
    BY SumIsNat
  <2> QED BY <1>2, <2>2, <2>3
<1> QED BY <1>1, <1>2

-----------------------------------------------------------------------------
(* What the calls carry (Disclosure).                                       *)

\* The prompts by themselves.
DisclosureSpec == DisclosureInit /\ [][DisclosureNext]_disclosureVars

\* A text that has in it no more than it may.
Clean(text) == text \in Contents /\ text \cap Tables \subseteq released /\ "document" \notin text /\ ("skill" \in text => consulted)

\* What a turn has gathered is typed and clean, step by step.
DraftKept(d) ==
    /\ d = [at |-> d.at, flow |-> d.flow, cached |-> d.cached, ok |-> d.ok, chart |-> d.chart, goal |-> d.goal,
            steps |-> d.steps, plan |-> d.plan, code |-> d.code, output |-> d.output, error |-> d.error]
    /\ d.steps \in Seq([full : Contents, brief : Contents])
    /\ Len(d.steps) <= MaxSteps
    /\ d.at \in {"acting", "running"} => Len(d.steps) < MaxSteps
    /\ Clean(d.goal) /\ Clean(d.plan) /\ Clean(d.code) /\ Clean(d.output) /\ Clean(d.error)
    /\ \A i \in DOMAIN d.steps : Clean(d.steps[i].full) /\ Clean(d.steps[i].brief)

\* So is what outlives it: the history, the memory, the examples, the solutions.
KeptKept(k) ==
    /\ k = [history |-> k.history, memory |-> k.memory, examples |-> k.examples, solutions |-> k.solutions]
    /\ Clean(k.history) /\ Clean(k.memory) /\ Clean(k.examples)
    /\ k.solutions \in [Scopes -> SUBSET Contents]
    /\ \A s \in Scopes : \A text \in k.solutions[s] : Clean(text)

\* The last prompt goes to a model that is trusted with its rows, and is clean.
PromptKept ==
    /\ prompt.role \in Roles /\ prompt.values \subseteq Tables
    /\ prompt.trusted /\ Clean(prompt.text)

\* The policy and the choices that it is about.
RulesTyped == activeTable \in Tables /\ markedTables \subseteq Tables /\ clouded \subseteq Roles /\ consulted \in BOOLEAN

\* The inductive invariant: that a prompt is clean follows only when all that it may be
\* rendered from is.
DisclosureInv == RulesTyped /\ DraftKept(draft) /\ KeptKept(kept) /\ PromptKept

\* It holds before the first turn.
LEMMA DisclosureInitHolds == DisclosureInit => DisclosureInv
<1> SUFFICES ASSUME DisclosureInit PROVE DisclosureInv
  OBVIOUS
<1>1. Clean({})
  BY DEF Clean, Contents
<1>2. <<>> \in Seq([full : Contents, brief : Contents]) /\ Len(<<>>) = 0 /\ DOMAIN <<>> = {} /\ MaxSteps \in Nat
  BY DisclosureAssumption
<1>3. DraftKept(draft)
  BY <1>1, <1>2 DEF DisclosureInit, NoDraft, DraftKept
<1>4. KeptKept(kept)
  BY <1>1 DEF DisclosureInit, KeptKept
<1>5. PromptKept
  BY <1>1 DEF DisclosureInit, PromptKept, Roles
<1>6. RulesTyped
  BY DEF DisclosureInit, RulesTyped, Roles
<1> QED BY <1>3, <1>4, <1>5, <1>6 DEF DisclosureInv

\* What is released and consulted only grows, so that what was clean stays so.
Grows == released \subseteq released' /\ (consulted => consulted') /\ consulted' \in BOOLEAN

\* What was clean stays so: a text, what a turn gathered, what outlives it.
LEMMA CleanStays == ASSUME Grows, NEW text, Clean(text) PROVE Clean(text)'
BY DEF Clean, Contents, Grows

LEMMA DraftStays == ASSUME Grows, NEW d, DraftKept(d) PROVE DraftKept(d)'
BY CleanStays DEF DraftKept

LEMMA KeptStays == ASSUME Grows, NEW k, KeptKept(k) PROVE KeptKept(k)'
BY CleanStays DEF KeptKept, Scopes

\* The same, of what does not change.
LEMMA DraftStands == ASSUME Grows, DraftKept(draft), UNCHANGED draft PROVE DraftKept(draft)'
<1>1. PICK d : d = draft /\ DraftKept(d)
  OBVIOUS
<1>2. DraftKept(d)' /\ draft' = d
  BY <1>1, DraftStays
<1> QED BY <1>2 DEF DraftKept

LEMMA KeptStands == ASSUME Grows, KeptKept(kept), UNCHANGED kept PROVE KeptKept(kept)'
<1>1. PICK k : k = kept /\ KeptKept(k)
  OBVIOUS
<1>2. KeptKept(k)' /\ kept' = k
  BY <1>1, KeptStays
<1> QED BY <1>2 DEF KeptKept

\* A prompt with values for a model that is trusted with them, and with clean text.
LEMMA SendsKeeps ==
    ASSUME RulesTyped, NEW role \in Roles, NEW values \in SUBSET Tables, \A t \in values : Trusts(role, t),
           NEW text, Clean(text), Sends(role, values, text), UNCHANGED consulted
    PROVE  Grows /\ PromptKept' /\ Clean(values \cup text)'
<1>1. released' = released \cup values
  BY DEF Sends
<1>2. Grows
  BY <1>1 DEF Grows, RulesTyped
<1>3. Clean(text)'
  BY <1>2, CleanStays
<1>4. prompt' = [role |-> role, values |-> values, text |-> text, trusted |-> TRUE]
  BY DEF Sends
<1>5. Clean(values \cup text)'
  BY <1>1, <1>3, DisclosureAssumption DEF Clean, Contents, Passages
<1> QED BY <1>2, <1>3, <1>4, <1>5 DEF PromptKept

\* What a model is shown of the active table is what it may be shown.
LEMMA DescribedIsTrusted ==
    ASSUME RulesTyped, NEW role \in Roles
    PROVE  Described(role) \in SUBSET Tables /\ \A t \in Described(role) : Trusts(role, t)
BY DEF Described, Withholds, Trusts, RulesTyped

\* What the operators that build prompts render of clean texts is clean.
LEMMA TranscriptIsClean == ASSUME DraftKept(draft) PROVE Clean(Transcript)
<1>1. PICK steps : steps = draft.steps
  OBVIOUS
<1>2. \A i \in DOMAIN steps : Clean(steps[i].full) /\ Clean(steps[i].brief)
  BY <1>1 DEF DraftKept
<1>3. \A x \in Transcript : \E i \in DOMAIN steps : x \in steps[i].full \/ x \in steps[i].brief
  BY <1>1 DEF Transcript
<1> QED BY <1>2, <1>3 DEF Clean, Contents

LEMMA UnionIsClean == \A a, b : Clean(a) /\ Clean(b) => Clean(a \cup b)
BY DEF Clean, Contents

LEMMA RenderedIsClean == \A text : Clean(text) => Clean(Rendered(text))
BY DEF Clean, Contents, Rendered

LEMMA NothingIsClean == Clean({})
BY DEF Clean, Contents

LEMMA PassagesAreRendered == SkillsBlock = {} /\ \A found \in SUBSET Passages : Rendered(found \cap {"document"}) = {}
BY DEF SkillsBlock, Rendered, Passages

\* A step is recorded: its goal and what was seen.
LEMMA RecordKeeps ==
    ASSUME DraftKept(draft), Len(draft.steps) < MaxSteps, Grows, NEW seen, Clean(seen)',
           NEW recorded, recorded = Record(seen)
    PROVE  /\ recorded \in Seq([full : Contents, brief : Contents])
           /\ Len(recorded) <= MaxSteps
           /\ \A i \in DOMAIN recorded : Clean(recorded[i].full)' /\ Clean(recorded[i].brief)'
<1>1. PICK steps : steps = draft.steps
  OBVIOUS
<1>2. PICK goal : goal = draft.goal
  OBVIOUS
<1>3. /\ steps \in Seq([full : Contents, brief : Contents]) /\ Len(steps) < MaxSteps /\ Clean(goal)
      /\ \A i \in DOMAIN steps : Clean(steps[i].full) /\ Clean(steps[i].brief)
  BY <1>1, <1>2 DEF DraftKept
<1>4. Clean(goal)' /\ \A i \in DOMAIN steps : Clean(steps[i].full)' /\ Clean(steps[i].brief)'
  BY <1>3, CleanStays
<1>5. Clean(goal \cup seen)'
  BY <1>4 DEF Clean, Contents
<1> DEFINE new == [full |-> goal \cup seen, brief |-> goal]
<1>6. new \in [full : Contents, brief : Contents] /\ Clean(new.full)' /\ Clean(new.brief)'
  BY <1>4, <1>5 DEF Clean
<1>7. recorded = Append(steps, new)
  BY <1>1, <1>2 DEF Record
<1> HIDE DEF new
<1>8. /\ Append(steps, new) \in Seq([full : Contents, brief : Contents])
      /\ Len(Append(steps, new)) = Len(steps) + 1 /\ Len(steps) \in Nat
      /\ DOMAIN Append(steps, new) = 1..Len(steps) + 1
      /\ DOMAIN steps = 1..Len(steps)
      /\ Append(steps, new)[Len(steps) + 1] = new
      /\ \A i \in 1..Len(steps) : Append(steps, new)[i] = steps[i]
  BY <1>3, <1>6
<1>9. Len(Append(steps, new)) <= MaxSteps
  BY <1>3, <1>8, DisclosureAssumption
<1>10. \A i \in DOMAIN Append(steps, new) : Clean(Append(steps, new)[i].full)' /\ Clean(Append(steps, new)[i].brief)'
  <2> SUFFICES ASSUME NEW i \in 1..Len(steps) + 1
               PROVE  Clean(Append(steps, new)[i].full)' /\ Clean(Append(steps, new)[i].brief)'
    BY <1>8
  <2>1. i = Len(steps) + 1 \/ i \in 1..Len(steps)
    BY <1>8
  <2> QED BY <1>4, <1>6, <1>8, <2>1
<1> QED BY <1>7, <1>8, <1>9, <1>10

\* A step that builds no prompt and learns nothing.
Quiet == UNCHANGED <<prompt, released, consulted>>

\* Where nothing is sent, the last prompt stays what it was.
LEMMA QuietKeeps == ASSUME RulesTyped, PromptKept, Quiet PROVE Grows /\ PromptKept'
BY DEF RulesTyped, PromptKept, Quiet, Grows, Clean

\* The policy stays but for a switch.
LEMMA RulesStand == ASSUME RulesTyped, UNCHANGED ruleVars, consulted' \in BOOLEAN PROVE RulesTyped'
BY DEF RulesTyped, ruleVars

\* A reply of conversation.
LEMMA LTalkOnly == ASSUME DisclosureInv, TalkOnly PROVE DisclosureInv'
<1> USE DEF DisclosureInv
<1>1. PICK text : text = HistoryBlock /\ Clean(text)
  BY RenderedIsClean DEF HistoryBlock, KeptKept
<1>2. Grows /\ PromptKept' /\ Clean(text)'
  <2>1. Sends("manager", {}, text) /\ UNCHANGED consulted /\ "manager" \in Roles /\ {} \cup text = text
    BY <1>1 DEF TalkOnly, Roles
  <2>2. Grows /\ PromptKept' /\ Clean({} \cup text)'
    BY <1>1, <2>1, SendsKeeps
  <2> QED BY <2>1, <2>2
<1>3. PICK k : k = kept /\ KeptKept(k)
  OBVIOUS
<1>4. KeptKept(k)'
  BY <1>2, <1>3, KeptStays
<1>5. kept' = [k EXCEPT !.history = @ \cup text]
  BY <1>1, <1>3 DEF TalkOnly, Reply
<1>6. KeptKept(kept)'
  <2>1. Clean(k.history \cup text)'
    BY <1>2, <1>4 DEF KeptKept, Clean, Contents
  <2> QED BY <1>4, <1>5, <2>1 DEF KeptKept
<1>7. UNCHANGED draft /\ RulesTyped'
  BY RulesStand DEF TalkOnly, RulesTyped
<1>8. DraftKept(draft)'
  BY <1>2, <1>7, DraftStands
<1> QED BY <1>2, <1>6, <1>7, <1>8

\* Cleaning suggestions are asked with the columns of the table.
LEMMA LCleanUpload == ASSUME DisclosureInv, CleanUpload PROVE DisclosureInv'
<1> USE DEF DisclosureInv
<1>1. PICK values : values = Described("worker") /\ values \in SUBSET Tables /\ \A t \in values : Trusts("worker", t)
  BY DescribedIsTrusted DEF Roles
<1>2. Grows /\ PromptKept'
  <2>1. Sends("worker", values, {}) /\ UNCHANGED consulted /\ "worker" \in Roles /\ Clean({})
    BY <1>1, NothingIsClean DEF CleanUpload, SystemContext, Roles
  <2> QED BY <1>1, <2>1, SendsKeeps
<1>3. UNCHANGED <<draft, kept>> /\ RulesTyped'
  BY RulesStand DEF CleanUpload, RulesTyped
<1> QED BY <1>2, <1>3, DraftStands, KeptStands

\* The steps that only move the turn on: what it has stays as it is, or is dropped.
LEMMA LRoute == ASSUME DisclosureInv, NEW flow \in {"inspect", "direct", "agentic"}, Route(flow) PROVE DisclosureInv'
<1> USE DEF DisclosureInv
<1>1. Grows /\ PromptKept' /\ UNCHANGED kept /\ RulesTyped'
  BY QuietKeeps, RulesStand DEF Route, Quiet, RulesTyped
<1>2. Clean({})'
  BY DEF Clean, Contents
<1>3. <<>> \in Seq([full : Contents, brief : Contents]) /\ Len(<<>>) = 0 /\ DOMAIN <<>> = {} /\ MaxSteps \in Nat
  BY DisclosureAssumption
<1>4. draft' = [at |-> "opening", flow |-> flow, cached |-> FALSE, ok |-> FALSE, chart |-> FALSE, goal |-> {}, steps |-> <<>>,
                 plan |-> {}, code |-> {}, output |-> {}, error |-> {}]
  BY DEF Route, NoDraft
<1>5. DraftKept(draft)'
  BY <1>2, <1>3, <1>4 DEF DraftKept
<1> QED BY <1>1, <1>5, KeptStands

\* The planner is skipped, or code is replayed.
LEMMA LMoves == ASSUME DisclosureInv, SkipPlanner \/ ReplayCode PROVE DisclosureInv'
<1> USE DEF DisclosureInv
<1>1. Grows /\ PromptKept' /\ UNCHANGED kept /\ RulesTyped'
  BY QuietKeeps, RulesStand DEF SkipPlanner, ReplayCode, Quiet, RulesTyped
<1>2. PICK d : d = draft /\ DraftKept(d)
  OBVIOUS
<1>3. DraftKept(d)'
  BY <1>1, <1>2, DraftStays
<1>4. draft' = [d EXCEPT !.at = "loop"] \/ (draft' = [d EXCEPT !.at = "running"] /\ d.at = "acting")
  BY <1>2 DEF SkipPlanner, ReplayCode
<1>5. DraftKept(draft)'
  BY <1>3, <1>4 DEF DraftKept
<1> QED BY <1>1, <1>5, KeptStands

\* Solutions are kept by the sort of table that they are of.
LEMMA ScopeIsOne == ASSUME RulesTyped PROVE Scope \in Scopes
<1>1. PICK table \in Tables : table = activeTable
  BY DEF RulesTyped
<1>2. CASE activeTable \in markedTables
  <2>1. (activeTable \in markedTables) = TRUE
    BY <1>2
  <2>2. Scope = <<table, TRUE>>
    BY <1>1, <2>1 DEF Scope
  <2> QED BY <1>1, <2>2 DEF Scopes
<1>3. CASE activeTable \notin markedTables
  <2>1. (activeTable \in markedTables) = FALSE
    BY <1>3
  <2>2. Scope = <<table, FALSE>>
    BY <1>1, <2>1 DEF Scope
  <2> QED BY <1>1, <2>2 DEF Scopes
<1> QED BY <1>2, <1>3

\* A solution of an earlier turn.
LEMMA LReuseSolution == ASSUME DisclosureInv, ReuseSolution PROVE DisclosureInv'
<1> USE DEF DisclosureInv
<1>1. Grows /\ PromptKept' /\ UNCHANGED kept /\ RulesTyped'
  BY QuietKeeps, RulesStand DEF ReuseSolution, Quiet, RulesTyped
<1>2. PICK d : d = draft /\ DraftKept(d)
  OBVIOUS
<1>3. DraftKept(d)'
  BY <1>1, <1>2, DraftStays
<1>4. PICK solution \in kept.solutions[Scope] : draft' = [d EXCEPT !.at = "loop", !.cached = TRUE, !.code = solution]
  BY <1>2 DEF ReuseSolution
<1>5. Scope \in Scopes
  BY ScopeIsOne
<1>6. Clean(solution)
  BY <1>4, <1>5 DEF KeptKept
<1>7. Clean(solution)'
  BY <1>1, <1>6, CleanStays
<1>8. DraftKept(draft)'
  BY <1>3, <1>4, <1>7 DEF DraftKept
<1> QED BY <1>1, <1>8, KeptStands

\* The plan.
LEMMA LDrawPlan == ASSUME DisclosureInv, DrawPlan PROVE DisclosureInv'
<1> USE DEF DisclosureInv
<1>1. PICK text : text = SkillsBlock \cup HistoryBlock \cup kept.memory /\ Clean(text)
  <2>1. SkillsBlock = {} /\ Clean(HistoryBlock) /\ Clean(kept.memory)
    BY PassagesAreRendered, RenderedIsClean DEF HistoryBlock, KeptKept
  <2>2. {} \cup HistoryBlock \cup kept.memory = HistoryBlock \cup kept.memory
    OBVIOUS
  <2> QED BY <2>1, <2>2, UnionIsClean
<1>2. PICK values : values = Described("manager") /\ values \in SUBSET Tables /\ \A t \in values : Trusts("manager", t)
  BY DescribedIsTrusted DEF Roles
<1>3. Grows /\ PromptKept' /\ Clean(values \cup text)'
  <2>1. Sends("manager", values, text) /\ UNCHANGED consulted /\ "manager" \in Roles
    BY <1>1, <1>2 DEF DrawPlan, SystemContext, Roles
  <2> QED BY <1>1, <1>2, <2>1, SendsKeeps
<1>4. PICK d : d = draft /\ DraftKept(d)
  OBVIOUS
<1>5. DraftKept(d)'
  BY <1>3, <1>4, DraftStays
<1>6. draft' = [d EXCEPT !.at = "loop", !.plan = values \cup text]
  BY <1>1, <1>2, <1>4 DEF DrawPlan, Reply, SystemContext
<1>7. DraftKept(draft)'
  BY <1>3, <1>5, <1>6 DEF DraftKept
<1>8. UNCHANGED kept /\ RulesTyped'
  BY RulesStand DEF DrawPlan, RulesTyped
<1> QED BY <1>3, <1>7, <1>8, KeptStands

\* The next goal is the manager's, of the plan and the work so far, or the request itself.
LEMMA LDecide == ASSUME DisclosureInv, Decide PROVE DisclosureInv'
<1> USE DEF DisclosureInv
<1>1. PICK text : text = draft.plan \cup Transcript /\ Clean(text)
  BY TranscriptIsClean, UnionIsClean DEF DraftKept
<1>2. PICK d : d = draft /\ DraftKept(d) /\ Len(d.steps) < MaxSteps
  BY DEF Decide, HasRoom
<1>3. UNCHANGED kept /\ RulesTyped' /\ UNCHANGED consulted
  BY RulesStand DEF Decide, RulesTyped
<1>4. CASE Sends("manager", {}, text) /\ draft' = [d EXCEPT !.at = "acting", !.goal = text]
  <2>1. "manager" \in Roles /\ {} \cup text = text
    BY DEF Roles
  <2>2. Grows /\ PromptKept' /\ Clean({} \cup text)'
    BY <1>1, <1>3, <1>4, <2>1, SendsKeeps
  <2>3. DraftKept(d)'
    BY <1>2, <2>2, DraftStays
  <2>4. DraftKept(draft)'
    BY <1>2, <1>4, <2>1, <2>2, <2>3 DEF DraftKept
  <2> QED BY <1>3, <2>2, <2>4, KeptStands
<1>5. CASE draft' = [d EXCEPT !.at = "acting", !.goal = {}] /\ UNCHANGED <<prompt, released>>
  <2>1. Grows /\ PromptKept'
    BY <1>3, <1>5, QuietKeeps DEF Quiet
  <2>2. DraftKept(d)' /\ Clean({})'
    BY <1>2, <2>1, DraftStays, NothingIsClean, CleanStays
  <2>3. DraftKept(draft)'
    BY <1>2, <1>5, <2>2 DEF DraftKept
  <2> QED BY <1>3, <2>1, <2>3, KeptStands
<1>6. {} \cup text = text
  OBVIOUS
<1> QED BY <1>1, <1>2, <1>4, <1>5, <1>6 DEF Decide, Reply

\* A recorded step leaves the rest of the turn clean.
LEMMA StepIsRecorded ==
    ASSUME Grows, DraftKept(draft), draft.at \in {"acting", "running"}, NEW seen, Clean(seen)',
           NEW d, d = draft, NEW steps, steps = Record(seen)
    PROVE  /\ DraftKept(d)' /\ Clean({})'
           /\ steps \in Seq([full : Contents, brief : Contents])
           /\ Len(steps) <= MaxSteps
           /\ \A i \in DOMAIN steps : Clean(steps[i].full)' /\ Clean(steps[i].brief)'
<1>1. Len(draft.steps) < MaxSteps
  BY DEF DraftKept
<1>2. DraftKept(d)' /\ Clean({})'
  BY DraftStays, NothingIsClean, CleanStays
<1> QED BY <1>1, <1>2, RecordKeeps

\* A look at the data.
LEMMA LInspectData == ASSUME DisclosureInv, InspectData PROVE DisclosureInv'
<1> USE DEF DisclosureInv
<1>1. PICK seen : seen = Inspection /\ seen \in SUBSET Tables /\ \A t \in seen : Trusts("manager", t)
  BY DescribedIsTrusted DEF Inspection, Roles
<1>2. released' = released \cup seen /\ UNCHANGED <<prompt, kept, consulted>>
  BY <1>1 DEF InspectData
<1>3. Grows /\ PromptKept' /\ Clean(seen)'
  <2>1. Grows
    BY <1>2 DEF Grows, RulesTyped
  <2>2. Clean(seen)'
    BY <1>1, <1>2, DisclosureAssumption DEF Clean, Contents, Passages
  <2> QED BY <1>2, <2>1, <2>2 DEF PromptKept, Clean
<1>4. PICK d : d = draft
  OBVIOUS
<1>5. PICK steps : steps = Record(seen)
  OBVIOUS
<1>6. draft.at = "acting"
  BY DEF InspectData
<1>7. /\ DraftKept(d)' /\ Clean({})'
      /\ steps \in Seq([full : Contents, brief : Contents])
      /\ Len(steps) <= MaxSteps
      /\ \A i \in DOMAIN steps : Clean(steps[i].full)' /\ Clean(steps[i].brief)'
  BY <1>3, <1>4, <1>5, <1>6, StepIsRecorded
<1>8. PICK output : /\ draft' = [d EXCEPT !.at = "loop", !.goal = {}, !.steps = steps, !.output = output]
                    /\ output = seen \/ output = d.output
  BY <1>1, <1>4, <1>5 DEF InspectData
<1>9. Clean(output)'
  BY <1>3, <1>7, <1>8 DEF DraftKept
<1>10. DraftKept(draft)'
  BY <1>7, <1>8, <1>9 DEF DraftKept
<1>11. RulesTyped'
  BY <1>2, RulesStand DEF InspectData, RulesTyped
<1> QED BY <1>2, <1>3, <1>10, <1>11, KeptStands

\* A passage of a skill or a document.
LEMMA LConsult == ASSUME DisclosureInv, Consult PROVE DisclosureInv'
<1> USE DEF DisclosureInv
<1>1. PICK found \in SUBSET Passages :
          draft' = [draft EXCEPT !.at = "loop", !.goal = {},
                                 !.steps = Record(Rendered(found \cap {"document"}) \cup (found \cap {"skill"}))]
  BY DEF Consult
<1>2. PICK seen : seen = Rendered(found \cap {"document"}) \cup (found \cap {"skill"}) /\ seen \subseteq {"skill"}
  BY PassagesAreRendered
<1>3. consulted' = TRUE /\ UNCHANGED <<released, prompt, kept>> /\ draft.at = "acting"
  BY DEF Consult
<1>4. Grows /\ PromptKept' /\ Clean(seen)'
  <2>1. Grows
    BY <1>3 DEF Grows
  <2>2. Clean(seen)'
    BY <1>2, <1>3, DisclosureAssumption DEF Clean, Contents, Passages
  <2>3. PromptKept'
    BY <1>3 DEF PromptKept, Clean
  <2> QED BY <2>1, <2>2, <2>3
<1>5. PICK d : d = draft
  OBVIOUS
<1>6. PICK steps : steps = Record(seen)
  OBVIOUS
<1>7. /\ DraftKept(d)' /\ Clean({})'
      /\ steps \in Seq([full : Contents, brief : Contents])
      /\ Len(steps) <= MaxSteps
      /\ \A i \in DOMAIN steps : Clean(steps[i].full)' /\ Clean(steps[i].brief)'
  BY <1>3, <1>4, <1>5, <1>6, StepIsRecorded
<1>8. draft' = [d EXCEPT !.at = "loop", !.goal = {}, !.steps = steps]
  BY <1>1, <1>2, <1>5, <1>6
<1>9. DraftKept(draft)'
  BY <1>7, <1>8 DEF DraftKept
<1>10. RulesTyped'
  BY <1>3, RulesStand DEF Consult, RulesTyped
<1> QED BY <1>3, <1>4, <1>9, <1>10, KeptStands

\* The worker is asked for code.
LEMMA LWriteCode == ASSUME DisclosureInv, WriteCode PROVE DisclosureInv'
<1> USE DEF DisclosureInv
<1>1. PICK text : text = draft.goal \cup Transcript \cup draft.plan \cup kept.examples \cup draft.error /\ Clean(text)
  <2>1. Clean(draft.goal) /\ Clean(Transcript) /\ Clean(draft.plan) /\ Clean(kept.examples) /\ Clean(draft.error)
    BY TranscriptIsClean DEF DraftKept, KeptKept
  <2> QED BY <2>1, UnionIsClean
<1>2. PICK values : values = Described("worker") /\ values \in SUBSET Tables /\ \A t \in values : Trusts("worker", t)
  BY DescribedIsTrusted DEF Roles
<1>3. Grows /\ PromptKept' /\ Clean(values \cup text)'
  <2>1. Sends("worker", values, text) /\ UNCHANGED consulted /\ "worker" \in Roles
    BY <1>1, <1>2 DEF WriteCode, SystemContext, Roles
  <2> QED BY <1>1, <1>2, <2>1, SendsKeeps
<1>4. PICK d : d = draft /\ DraftKept(d) /\ d.at = "acting"
  BY DEF WriteCode
<1>5. DraftKept(d)'
  BY <1>3, <1>4, DraftStays
<1>6. draft' = [d EXCEPT !.at = "running", !.code = values \cup text]
  BY <1>1, <1>2, <1>4 DEF WriteCode, Reply, SystemContext
<1>7. DraftKept(draft)'
  BY <1>3, <1>4, <1>5, <1>6 DEF DraftKept
<1>8. UNCHANGED kept /\ RulesTyped'
  BY RulesStand DEF WriteCode, RulesTyped
<1> QED BY <1>3, <1>7, <1>8, KeptStands

\* The code has run, and prints nothing that is not its own.
LEMMA LCodeRuns == ASSUME DisclosureInv, CodeRuns PROVE DisclosureInv'
<1> USE DEF DisclosureInv
<1>1. Grows /\ PromptKept' /\ UNCHANGED kept /\ RulesTyped'
  BY QuietKeeps, RulesStand DEF CodeRuns, Quiet, RulesTyped
<1>2. PICK d : d = draft
  OBVIOUS
<1>3. PICK steps : steps = Record({})
  OBVIOUS
<1>4. draft.at = "running" /\ Clean({})'
  BY <1>1, NothingIsClean, CleanStays DEF CodeRuns
<1>5. /\ DraftKept(d)' /\ Clean({})'
      /\ steps \in Seq([full : Contents, brief : Contents])
      /\ Len(steps) <= MaxSteps
      /\ \A i \in DOMAIN steps : Clean(steps[i].full)' /\ Clean(steps[i].brief)'
  BY <1>1, <1>2, <1>3, <1>4, StepIsRecorded
<1>6. PICK drawn : draft' = [d EXCEPT !.at = "loop", !.goal = {}, !.steps = steps, !.output = {}, !.error = {},
                                       !.ok = TRUE, !.chart = drawn]
  <2>1. PICK chart \in BOOLEAN :
            draft' = [draft EXCEPT !.at = "loop", !.goal = {}, !.steps = Record({}), !.output = {}, !.error = {}, !.ok = TRUE,
                                   !.chart = chart \/ @]
    BY DEF CodeRuns
  <2>2. draft' = [d EXCEPT !.at = "loop", !.goal = {}, !.steps = steps, !.output = {}, !.error = {},
                            !.ok = TRUE, !.chart = chart \/ d.chart]
    BY <1>2, <1>3, <2>1
  <2> QED BY <2>2
<1>7. DraftKept(draft)'
  BY <1>5, <1>6 DEF DraftKept
<1> QED BY <1>1, <1>7, KeptStands

\* Code that fails: its error goes on, to the next attempt or the next step.
LEMMA LCodeFails == ASSUME DisclosureInv, CodeFails PROVE DisclosureInv'
<1> USE DEF DisclosureInv
<1>1. Grows /\ PromptKept' /\ UNCHANGED kept /\ RulesTyped'
  BY QuietKeeps, RulesStand DEF CodeFails, Quiet, RulesTyped
<1>2. PICK d : d = draft /\ DraftKept(d) /\ d.at = "running"
  BY DEF CodeFails
<1>3. PICK steps : steps = Record(d.code)
  OBVIOUS
<1>4. Clean(d.code)'
  BY <1>1, <1>2, CleanStays DEF DraftKept
<1>5. PICK code : code = d.code
  OBVIOUS
<1>6. Clean(code)' /\ steps = Record(code)
  BY <1>3, <1>4, <1>5
<1>7. /\ DraftKept(d)' /\ Clean({})'
      /\ steps \in Seq([full : Contents, brief : Contents])
      /\ Len(steps) <= MaxSteps
      /\ \A i \in DOMAIN steps : Clean(steps[i].full)' /\ Clean(steps[i].brief)'
  BY <1>1, <1>2, <1>6, StepIsRecorded
<1>8. CASE draft' = [d EXCEPT !.at = "acting", !.error = code, !.ok = FALSE, !.cached = FALSE]
  <2>0. PICK moved : moved = [d EXCEPT !.at = "acting", !.error = code, !.ok = FALSE, !.cached = FALSE]
    OBVIOUS
  <2>2. /\ moved = [at |-> moved.at, flow |-> moved.flow, cached |-> moved.cached, ok |-> moved.ok, chart |-> moved.chart,
                    goal |-> moved.goal, steps |-> moved.steps, plan |-> moved.plan, code |-> moved.code,
                    output |-> moved.output, error |-> moved.error]
        /\ moved.at = "acting" /\ moved.error = code
        /\ moved.goal = d.goal /\ moved.steps = d.steps /\ moved.plan = d.plan /\ moved.code = d.code
        /\ moved.output = d.output
    BY ONLY <1>2, <2>0 DEF DraftKept
  <2>3. /\ d.steps \in Seq([full : Contents, brief : Contents]) /\ Len(d.steps) <= MaxSteps /\ Len(d.steps) < MaxSteps
    BY <1>2 DEF DraftKept
  <2>4. /\ Clean(d.goal)' /\ Clean(d.plan)' /\ Clean(d.code)' /\ Clean(d.output)' /\ Clean(code)'
        /\ \A i \in DOMAIN d.steps : Clean(d.steps[i].full)' /\ Clean(d.steps[i].brief)'
    BY <1>6, <1>7 DEF DraftKept
  <2>5. DraftKept(moved)'
    BY ONLY <2>2, <2>3, <2>4 DEF DraftKept
  <2>1. DraftKept(draft)'
    BY <1>8, <2>0, <2>5
  <2> QED BY <1>1, <2>1, KeptStands
<1>9. CASE draft' = [d EXCEPT !.at = "loop", !.goal = {}, !.error = code, !.ok = FALSE, !.cached = FALSE,
                               !.output = code, !.steps = steps]
  <2>1. DraftKept(draft)'
    BY <1>6, <1>7, <1>9 DEF DraftKept
  <2> QED BY <1>1, <2>1, KeptStands
<1> QED BY <1>2, <1>3, <1>5, <1>8, <1>9 DEF CodeFails

\* The model looks at the steps and answers or goes on.
LEMMA LReflect == ASSUME DisclosureInv, Reflect PROVE DisclosureInv'
<1> USE DEF DisclosureInv
<1>1. PICK text : text = draft.plan \cup Transcript /\ Clean(text)
  BY TranscriptIsClean, UnionIsClean DEF DraftKept
<1>2. UNCHANGED kept /\ RulesTyped' /\ UNCHANGED consulted /\ draft.at = "acting"
  BY RulesStand DEF Reflect, RulesTyped
<1>3. Grows /\ PromptKept' /\ Clean(text)'
  <2>1. "manager" \in Roles /\ {} \cup text = text /\ Sends("manager", {}, text)
    BY <1>1 DEF Roles, Reflect
  <2>2. Grows /\ PromptKept' /\ Clean({} \cup text)'
    BY <1>1, <1>2, <2>1, SendsKeeps
  <2> QED BY <2>1, <2>2
<1>4. PICK d : d = draft
  OBVIOUS
<1>5. PICK steps : steps = Record(text)
  OBVIOUS
<1>6. /\ DraftKept(d)' /\ Clean({})'
      /\ steps \in Seq([full : Contents, brief : Contents])
      /\ Len(steps) <= MaxSteps
      /\ \A i \in DOMAIN steps : Clean(steps[i].full)' /\ Clean(steps[i].brief)'
  BY <1>2, <1>3, <1>4, <1>5, StepIsRecorded
<1>7. draft' = [d EXCEPT !.at = "loop", !.goal = {}, !.plan = text, !.steps = steps]
  <2>1. {} \cup text = text
    OBVIOUS
  <2> QED BY <1>1, <1>4, <1>5, <2>1 DEF Reflect, Reply
<1>8. DraftKept(draft)'
  BY <1>3, <1>6, <1>7 DEF DraftKept
<1> QED BY <1>2, <1>3, <1>8, KeptStands

\* The checks of an answer send what the turn has, and change nothing of it.
LEMMA ChecksKeep ==
    ASSUME DisclosureInv, UNCHANGED <<kept, ruleVars, consulted>>, NEW role \in Roles, NEW values \in SUBSET Tables,
           \A t \in values : Trusts(role, t), NEW text, Clean(text),
           (Sends(role, values, text)) \/ UNCHANGED <<prompt, released>>,
           NEW at, at \notin {"acting", "running"},
           draft' = [draft EXCEPT !.at = at] \/ draft' = [draft EXCEPT !.chart = FALSE]
    PROVE  DisclosureInv'
<1> USE DEF DisclosureInv
<1>1. Grows /\ PromptKept'
  <2>1. CASE Sends(role, values, text)
    BY <2>1, SendsKeeps
  <2>2. CASE UNCHANGED <<prompt, released>>
    BY <2>2, QuietKeeps DEF Quiet
  <2> QED BY <2>1, <2>2
<1>2. PICK d : d = draft /\ DraftKept(d)
  OBVIOUS
<1>3. DraftKept(d)'
  BY <1>1, <1>2, DraftStays
<1>4. draft' = [d EXCEPT !.at = at] \/ draft' = [d EXCEPT !.chart = FALSE]
  BY <1>2
<1>5. DraftKept(draft)'
  BY <1>3, <1>4 DEF DraftKept
<1>6. RulesTyped'
  BY RulesStand DEF RulesTyped
<1> QED BY <1>1, <1>5, <1>6, KeptStands

\* The verification, the review and the description of a chart.
LEMMA LChecks == ASSUME DisclosureInv, Verify \/ Review \/ DescribeChart PROVE DisclosureInv'
<1> USE DEF DisclosureInv
<1>0. /\ {"manager", "worker", "vision"} \subseteq Roles /\ {} \in SUBSET Tables /\ {activeTable} \in SUBSET Tables
      /\ Clean({}) /\ Clean(draft.code) /\ Clean(draft.output) /\ Clean(draft.plan)
  BY NothingIsClean DEF Roles, RulesTyped, DraftKept
<1>1. CASE Verify
  <2>1. PICK text : text = draft.code \cup draft.output /\ Clean(text)
    BY <1>0, UnionIsClean
  <2>2. /\ Sends("worker", {}, text) /\ draft' = [draft EXCEPT !.at = "checked"]
        /\ UNCHANGED <<kept, ruleVars, consulted>>
    BY <1>1, <2>1 DEF Verify
  <2> QED BY <1>0, <2>1, <2>2, ChecksKeep
<1>2. CASE Review
  <2>1. PICK text : text = draft.plan \cup draft.code \cup draft.output /\ Clean(text)
    BY <1>0, UnionIsClean
  <2>2. /\ Sends("manager", {}, text) \/ UNCHANGED <<prompt, released>>
        /\ draft' = [draft EXCEPT !.at = "reviewed"]
        /\ UNCHANGED <<kept, ruleVars, consulted>>
    BY <1>2, <2>1 DEF Review
  <2> QED BY <1>0, <2>1, <2>2, ChecksKeep
<1>3. CASE DescribeChart
  <2>1. draft' = [draft EXCEPT !.chart = FALSE] /\ UNCHANGED <<kept, ruleVars, consulted>>
    BY <1>3 DEF DescribeChart
  <2>2. "chart" \notin {"acting", "running"} /\ "vision" \in Roles
    BY <1>0
  <2>3. CASE Withholds("vision")
    <3>1. UNCHANGED <<prompt, released>>
      BY <1>3, <2>3 DEF DescribeChart
    <3>2. \A t \in {} : Trusts("vision", t)
      OBVIOUS
    <3> QED BY <1>0, <2>1, <2>2, <3>1, <3>2, ChecksKeep
  <2>4. CASE ~Withholds("vision")
    <3>1. Sends("vision", {activeTable}, {})
      BY <1>3, <2>4 DEF DescribeChart
    <3>2. \A t \in {activeTable} : Trusts("vision", t)
      BY <2>4 DEF Withholds, Trusts
    <3>3. PICK values : values = {activeTable}
      OBVIOUS
    <3> QED BY <1>0, <2>1, <2>2, <3>1, <3>2, <3>3, ChecksKeep
  <2> QED BY <2>3, <2>4
<1> QED BY <1>1, <1>2, <1>3

\* The answer enters the history.
LEMMA LWriteAnswer == ASSUME DisclosureInv, WriteAnswer PROVE DisclosureInv'
<1> USE DEF DisclosureInv
<1>1. PICK text : text = draft.code \cup draft.output \cup draft.plan /\ Clean(text)
  BY UnionIsClean DEF DraftKept
<1>2. Grows /\ PromptKept' /\ Clean(text)'
  <2>1. "manager" \in Roles /\ {} \cup text = text /\ Sends("manager", {}, text) /\ UNCHANGED consulted
    BY <1>1 DEF Roles, WriteAnswer
  <2>2. Grows /\ PromptKept' /\ Clean({} \cup text)'
    BY <1>1, <2>1, SendsKeeps
  <2> QED BY <2>1, <2>2
<1>3. PICK d : d = draft /\ DraftKept(d)
  OBVIOUS
<1>4. PICK k : k = kept /\ KeptKept(k)
  OBVIOUS
<1>5. DraftKept(d)' /\ KeptKept(k)'
  BY <1>2, <1>3, <1>4, DraftStays, KeptStays
<1>6. draft' = [d EXCEPT !.at = "ended"] /\ kept' = [k EXCEPT !.history = @ \cup text]
  <2>1. {} \cup text = text
    OBVIOUS
  <2> QED BY <1>1, <1>3, <1>4, <2>1 DEF WriteAnswer, Reply
<1>7. DraftKept(draft)'
  BY <1>5, <1>6 DEF DraftKept
<1>8. KeptKept(kept)'
  <2>1. Clean(k.history \cup text)'
    BY <1>2, <1>5 DEF KeptKept, Clean, Contents
  <2> QED BY <1>5, <1>6, <2>1 DEF KeptKept
<1>9. RulesTyped'
  BY RulesStand DEF WriteAnswer, RulesTyped
<1> QED BY <1>2, <1>7, <1>8, <1>9

\* What is kept of the turn.
LEMMA LKeepTurn == ASSUME DisclosureInv, KeepTurn PROVE DisclosureInv'
<1> USE DEF DisclosureInv
<1>1. Grows /\ PromptKept' /\ RulesTyped'
  BY QuietKeeps, RulesStand DEF KeepTurn, Quiet, RulesTyped
<1>2. PICK k : k = kept /\ KeptKept(k)
  OBVIOUS
<1>3. PICK code : code = draft.code /\ Clean(code)
  BY DEF DraftKept
<1>4. PICK plan : plan = draft.plan /\ Clean(plan)
  BY DEF DraftKept
<1>5. KeptKept(k)' /\ Clean(code)' /\ Clean(plan)'
  BY <1>1, <1>2, <1>3, <1>4, KeptStays, CleanStays
<1>6. PICK scope \in Scopes : scope = Scope
  BY ScopeIsOne
<1>7. PICK memory, solution, examples :
          /\ kept' = [k EXCEPT !.memory = memory, !.solutions[scope] = solution, !.examples = examples]
          /\ memory = k.memory \cup plan \cup code \cup k.history
          /\ solution = {code} \/ solution = k.solutions[scope]
          /\ examples = k.examples \cup code \/ examples = k.examples
  <2>1. PICK liked \in BOOLEAN :
            kept' = [kept EXCEPT !.memory = @ \cup draft.plan \cup draft.code \cup kept.history,
                                 !.solutions[Scope] = IF draft.ok THEN {draft.code} ELSE @,
                                 !.examples = IF liked THEN @ \cup draft.code ELSE @]
    BY DEF KeepTurn
  <2>2. kept' = [k EXCEPT !.memory = k.memory \cup plan \cup code \cup k.history,
                          !.solutions[scope] = IF draft.ok THEN {code} ELSE k.solutions[scope],
                          !.examples = IF liked THEN k.examples \cup code ELSE k.examples]
    BY <1>2, <1>3, <1>4, <1>6, <2>1
  <2>3. (IF draft.ok THEN {code} ELSE k.solutions[scope]) \in {{code}, k.solutions[scope]}
    OBVIOUS
  <2>4. (IF liked THEN k.examples \cup code ELSE k.examples) \in {k.examples \cup code, k.examples}
    OBVIOUS
  <2> QED BY <2>2, <2>3, <2>4
<1>8. Clean(memory)' /\ Clean(examples)'
  BY <1>5, <1>7 DEF KeptKept, Clean, Contents
<1>9. solution \subseteq Contents /\ \A text \in solution : Clean(text)'
  BY <1>5, <1>6, <1>7 DEF KeptKept, Clean
<1>10. KeptKept(kept)'
  BY <1>5, <1>6, <1>7, <1>8, <1>9 DEF KeptKept
<1>11. DraftKept(draft)'
  <2>1. <<>> \in Seq([full : Contents, brief : Contents]) /\ Len(<<>>) = 0 /\ DOMAIN <<>> = {} /\ MaxSteps \in Nat
    BY DisclosureAssumption
  <2>2. draft' = [at |-> "idle", flow |-> "agentic", cached |-> FALSE, ok |-> FALSE, chart |-> FALSE, goal |-> {}, steps |-> <<>>,
                  plan |-> {}, code |-> {}, output |-> {}, error |-> {}]
    BY DEF KeepTurn, NoDraft
  <2>3. Clean({})'
    BY DEF Clean, Contents
  <2> QED BY <2>1, <2>2, <2>3 DEF DraftKept
<1> QED BY <1>1, <1>10, <1>11

\* Policy, provider or table change.
LEMMA LSwitch == ASSUME DisclosureInv, Switch PROVE DisclosureInv'
<1> USE DEF DisclosureInv
<1>1. Grows /\ PromptKept' /\ UNCHANGED <<draft, kept, consulted>>
  BY QuietKeeps DEF Switch, Quiet
<1>2. RulesTyped'
  <2>1. activeTable' \in Tables /\ markedTables' \subseteq Tables /\ clouded' \subseteq Roles
    BY DEF Switch, RulesTyped
  <2> QED BY <1>1, <2>1 DEF RulesTyped
<1> QED BY <1>1, <1>2, DraftStands, KeptStands

\* Every step.
LEMMA DisclosureNextKeeps == DisclosureInv /\ [DisclosureNext]_disclosureVars => DisclosureInv'
<1> SUFFICES ASSUME DisclosureInv, [DisclosureNext]_disclosureVars PROVE DisclosureInv'
  OBVIOUS
<1>1. CASE UNCHANGED disclosureVars
  <2>1. Grows /\ PromptKept' /\ UNCHANGED <<draft, kept>> /\ RulesTyped'
    BY <1>1, QuietKeeps, RulesStand DEF disclosureVars, ruleVars, Quiet, DisclosureInv, RulesTyped
  <2> QED BY <2>1, DraftStands, KeptStands DEF DisclosureInv
<1>2. CASE DisclosureNext
  BY <1>2, LTalkOnly, LRoute, LCleanUpload, LReuseSolution, LMoves, LDrawPlan, LDecide, LInspectData, LConsult, LWriteCode,
     LCodeRuns, LCodeFails, LReflect, LChecks, LWriteAnswer, LKeepTurn, LSwitch
  DEF DisclosureNext
<1> QED BY <1>1, <1>2

\* The strengthening holds in every reachable state.
THEOREM DisclosureInvariance == DisclosureSpec => []DisclosureInv
BY DisclosureInitHolds, DisclosureNextKeeps, PTL DEF DisclosureSpec

\* Every variable of the prompts keeps its type.
THEOREM DisclosureTyped == DisclosureSpec => []DisclosureTypeOK
<1>1. DisclosureInv => DisclosureTypeOK
  BY DEF DisclosureInv, RulesTyped, DraftKept, KeptKept, PromptKept, Clean, DisclosureTypeOK
<1> QED BY <1>1, DisclosureInvariance, PTL

\* For any tables, policies, steps and changes of them: a prompt is built with values of a table only
\* for a model the policy trusts with them, has them otherwise only where they were released before, and
\* has no passage that reads like instructions (Disclosure.tla).
THEOREM PromptsAreWithheld == DisclosureSpec => []DisclosureHolds
<1>1. DisclosureInv => DisclosureHolds
  BY DEF DisclosureInv, PromptKept, Clean, DisclosureHolds, BuiltAsThePolicySays, NothingLeaksUnseen, QuarantineHolds
<1> QED BY <1>1, DisclosureInvariance, PTL

-----------------------------------------------------------------------------
(* How much they may produce (Sizing).                                      *)

\* The sizes by themselves.
SizingSpec == SizingInit /\ [][SizingNext]_sizingVars

\* What there is to size: machines, and calls.
Hosts == [ram : Machines, limit : Limits \cup {NotSet}, sessions : Sessions \cup {NotSet}]
Requests == [purpose : Purposes, budget : Budgets, ceiling : Ceilings,
          deep : BOOLEAN, direct : BOOLEAN, override : Budgets \cup {NotSet}]

\* The sizes are not there, or are those of the inputs, which stay.
SizingInv ==
    /\ host \in Hosts /\ call \in Requests
    /\ size # Unsized => size = [limit |-> SandboxLimit(host), sessions |-> SessionMaxActive(host), tokens |-> OutputTokens(call)]
    /\ size = Unsized => size \in [limit : Nat, sessions : Nat, tokens : Nat]

\* A size is written in whole units, and never as more than it is.
LEMMA TypedIs == ASSUME NEW m \in 8..64 PROVE Typed(m) \in 8..64 /\ Typed(m) <= m
BY DEF Typed

\* Division by a number rounds down.
LEMMA DivIs == ASSUME NEW m \in Nat, NEW d \in Nat, d # 0 PROVE m \div d \in Nat /\ d * (m \div d) <= m
OBVIOUS

\* A derived limit is between 512 MB and 4 GB, and above an eighth of the memory only at the least.
LEMMA SandboxLimitIs ==
    ASSUME NEW h \in Hosts
    PROVE  /\ SandboxLimit(h) \in Nat \ {0}
           /\ h.limit = NotSet /\ h.ram # NotSet =>
                SandboxLimit(h) \in 8..64 /\ (SandboxLimit(h) = 8 \/ 8 * SandboxLimit(h) <= h.ram)
<1>1. h.ram \in Nat /\ h.limit \in Nat
  BY SizingAssumption DEF Hosts, NotSet
<1>2. CASE h.limit # NotSet
  BY <1>1, <1>2 DEF SandboxLimit, NotSet
<1>3. CASE h.limit = NotSet /\ h.ram = NotSet
  BY <1>3 DEF SandboxLimit
<1>4. CASE h.limit = NotSet /\ h.ram # NotSet
  <2>1. PICK e : e = h.ram \div 8
    OBVIOUS
  <2>2. e \in Nat /\ 8 * e <= h.ram
    BY <1>1, <2>1
  <2>3. PICK x : x = Greater(8, Lesser(64, e))
    OBVIOUS
  <2>4. x \in 8..64 /\ (x = 8 \/ x <= e)
    BY <2>2, <2>3 DEF Greater, Lesser
  <2>5. SandboxLimit(h) = Typed(x)
    BY <1>4, <2>1, <2>3 DEF SandboxLimit
  <2>6. Typed(x) \in 8..64 /\ Typed(x) <= x
    BY <2>4, TypedIs
  <2>7. Typed(x) = 8 \/ 8 * Typed(x) <= h.ram
    <3>1. PICK y \in 8..64 : y = Typed(x)
      BY <2>6
    <3>2. x = 8 => y = 8
      BY <2>6, <3>1
    <3>3. x <= e => 8 * y <= h.ram
      BY <1>1, <2>2, <2>4, <2>6, <3>1
    <3> QED BY <2>4, <3>1, <3>2, <3>3
  <2> QED BY <2>5, <2>6, <2>7
<1> QED BY <1>2, <1>3, <1>4

\* Where their number is derived, all the sessions claim half of the memory at most, or there is one.
LEMMA SessionMaxActiveIs ==
    ASSUME NEW h \in Hosts
    PROVE  /\ SessionMaxActive(h) \in Nat
           /\ h.ram # NotSet /\ h.sessions = NotSet =>
                SessionMaxActive(h) = 1
                \/ (SessionMaxActive(h) > 1 /\ 2 * SessionMaxActive(h) * SandboxLimit(h) <= h.ram)
<1>1. h.ram \in Nat /\ h.sessions \in Nat
  BY SizingAssumption DEF Hosts, NotSet
<1>2. CASE h.sessions # NotSet \/ h.ram = NotSet
  BY <1>1, <1>2 DEF SessionMaxActive
<1>3. CASE h.sessions = NotSet /\ h.ram # NotSet
  <2>1. PICK k \in Nat : k = SandboxLimit(h) /\ k # 0
    BY SandboxLimitIs
  <2>2. PICK m : m = h.ram \div 2
    OBVIOUS
  <2>3. m \in Nat /\ 2 * m <= h.ram
    BY <1>1, <2>2
  <2>4. PICK q : q = m \div k
    OBVIOUS
  <2>5. q \in Nat /\ k * q <= m
    BY <2>1, <2>3, <2>4, DivIs
  <2>6. PICK n : n = Greater(1, Lesser(32, q))
    OBVIOUS
  <2>7. n \in Nat /\ (n = 1 \/ (n > 1 /\ n <= q))
    BY <2>5, <2>6 DEF Greater, Lesser
  <2>8. SessionMaxActive(h) = n
    BY <1>3, <2>1, <2>2, <2>4, <2>6 DEF SessionMaxActive
  <2>9. ASSUME n > 1 PROVE 2 * n * k <= h.ram
    <3>1. n * k <= q * k
      BY ONLY <2>1, <2>5, <2>7, <2>9
    <3>2. n * k <= m
      BY ONLY <2>1, <2>3, <2>5, <2>7, <3>1
    <3>3. PICK z \in Nat : z = n * k
      BY ONLY <2>1, <2>7
    <3>4. 2 * z <= h.ram
      BY <1>1, <2>3, <3>2, <3>3
    <3>5. 2 * n * k = 2 * z
      BY ONLY <2>1, <2>7, <3>3
    <3> QED BY <3>4, <3>5
  <2> QED BY <2>1, <2>7, <2>8, <2>9
<1> QED BY <1>2, <1>3

\* The steps of a size of an output, up to the ceiling.
LEMMA OutputTokensIs ==
    ASSUME NEW c \in Requests
    PROVE  /\ OutputTokens(c) \in MinOutput..Greater(MinOutput, c.ceiling)
           /\ c.direct /\ c.purpose = "answer" /\ c.override = NotSet => OutputTokens(c) <= DirectAnswerCap
           /\ ScaledForMode(c, OutputBudget(c)) \in Nat
<1>1. c.budget \in Nat /\ c.ceiling \in Nat /\ c.override \in Nat /\ c.deep \in BOOLEAN /\ c.direct \in BOOLEAN
  BY SizingAssumption DEF Requests, NotSet
<1>2. PICK b \in Nat : b = OutputBudget(c)
  BY <1>1 DEF OutputBudget, Greater, Lesser, MinOutput
<1>3. PICK s \in Nat : s = ScaledForMode(c, b)
  BY <1>2 DEF ScaledForMode
<1>4. PICK w \in Nat : w = CappedForWorkflow(c, s) /\ (c.direct /\ c.purpose = "answer" => w <= DirectAnswerCap)
  BY <1>3 DEF CappedForWorkflow, Lesser, DirectAnswerCap
<1>5. PICK o \in Nat : o = Overridden(c, w) /\ (c.override = NotSet => o = w)
  BY <1>1, <1>4 DEF Overridden
<1>6. OutputTokens(c) = Greater(MinOutput, Lesser(o, c.ceiling))
  BY <1>2, <1>3, <1>4, <1>5 DEF OutputTokens, Clamped
<1> QED BY <1>1, <1>2, <1>3, <1>4, <1>5, <1>6 DEF Greater, Lesser, MinOutput, DirectAnswerCap

\* Depth only lengthens.
LEMMA DeepIsNotShorter ==
    ASSUME NEW c \in Requests
    PROVE  OutputTokens([c EXCEPT !.deep = FALSE]) <= OutputTokens([c EXCEPT !.deep = TRUE])
<1>1. c.budget \in Nat /\ c.ceiling \in Nat /\ c.override \in Nat
  BY SizingAssumption DEF Requests, NotSet
<1>2. PICK d : d = [c EXCEPT !.deep = TRUE]
  OBVIOUS
<1>3. PICK f : f = [c EXCEPT !.deep = FALSE]
  OBVIOUS
<1>4. /\ d.budget = c.budget /\ d.ceiling = c.ceiling /\ d.override = c.override /\ d.purpose = c.purpose /\ d.direct = c.direct
      /\ f.budget = c.budget /\ f.ceiling = c.ceiling /\ f.override = c.override /\ f.purpose = c.purpose /\ f.direct = c.direct
      /\ d.deep = TRUE /\ f.deep = FALSE
  BY <1>2, <1>3 DEF Requests
<1>5. PICK b \in Nat : b = OutputBudget(c)
  BY <1>1 DEF OutputBudget, Greater, Lesser, MinOutput
<1>6. OutputBudget(d) = b /\ OutputBudget(f) = b
  BY <1>4, <1>5 DEF OutputBudget
<1>7. ScaledForMode(f, b) = b
  BY <1>4 DEF ScaledForMode
<1>8. PICK s \in Nat : s = ScaledForMode(d, b) /\ b <= s
  BY <1>4, <1>5 DEF ScaledForMode
<1>9. PICK w \in Nat : w = CappedForWorkflow(f, b)
  BY <1>5 DEF CappedForWorkflow, Lesser, DirectAnswerCap
<1>10. PICK v \in Nat : v = CappedForWorkflow(d, s) /\ w <= v
  BY <1>4, <1>5, <1>8, <1>9 DEF CappedForWorkflow, Lesser, DirectAnswerCap
<1>11. PICK o \in Nat : o = Overridden(f, w)
  BY <1>1, <1>4, <1>9 DEF Overridden
<1>12. PICK p \in Nat : p = Overridden(d, v) /\ o <= p
  BY <1>1, <1>4, <1>9, <1>10, <1>11 DEF Overridden
<1>13. OutputTokens(f) = Greater(MinOutput, Lesser(o, c.ceiling))
  BY <1>4, <1>6, <1>7, <1>9, <1>11 DEF OutputTokens, Clamped
<1>14. OutputTokens(d) = Greater(MinOutput, Lesser(p, c.ceiling))
  BY <1>4, <1>6, <1>8, <1>10, <1>12 DEF OutputTokens, Clamped
<1>15. Greater(MinOutput, Lesser(o, c.ceiling)) <= Greater(MinOutput, Lesser(p, c.ceiling))
  BY <1>1, <1>11, <1>12 DEF Greater, Lesser, MinOutput
<1> QED BY <1>2, <1>3, <1>13, <1>14, <1>15

\* It holds before the sizes are there, and after.
LEMMA SizingInitHolds == SizingInit => SizingInv
BY DEF SizingInit, SizingInv, Hosts, Requests, Unsized

LEMMA SizingStep == ASSUME SizingInv, [SizingNext]_sizingVars PROVE SizingInv'
<1>1. CASE Size
  <2>1. UNCHANGED <<host, call>>
        /\ size' = [limit |-> SandboxLimit(host), sessions |-> SessionMaxActive(host), tokens |-> OutputTokens(call)]
    BY <1>1 DEF Size
  <2>2. host \in Hosts /\ call \in Requests
    BY DEF SizingInv
  <2>3. SandboxLimit(host) \in Nat /\ SessionMaxActive(host) \in Nat /\ OutputTokens(call) \in Nat
    <3>1. call.ceiling \in Nat
      BY <2>2, SizingAssumption DEF Requests
    <3> QED BY <2>2, <3>1, SandboxLimitIs, SessionMaxActiveIs, OutputTokensIs DEF MinOutput, Greater
  <2>4. SandboxLimit(host') = SandboxLimit(host) /\ SessionMaxActive(host') = SessionMaxActive(host) /\ OutputTokens(call') = OutputTokens(call)
    BY <2>1
  <2> QED BY <2>1, <2>2, <2>3, <2>4 DEF SizingInv
<1>2. CASE UNCHANGED sizingVars
  <2>1. UNCHANGED <<host, call, size>>
    BY <1>2 DEF sizingVars
  <2>2. SandboxLimit(host') = SandboxLimit(host) /\ SessionMaxActive(host') = SessionMaxActive(host) /\ OutputTokens(call') = OutputTokens(call)
    BY <2>1
  <2> QED BY <2>1, <2>2 DEF SizingInv
<1> QED BY <1>1, <1>2 DEF SizingNext

\* What the run checks of it.
LEMMA SizingShown == ASSUME SizingInv PROVE SizingTypeOK /\ SizesHold
<1>1. host \in Hosts /\ call \in Requests
  BY DEF SizingInv
<1>2. call.ceiling \in Nat
  BY <1>1, SizingAssumption DEF Requests
<1>3. SandboxLimit(host) \in Nat /\ SessionMaxActive(host) \in Nat /\ OutputTokens(call) \in Nat
  BY <1>1, <1>2, SandboxLimitIs, SessionMaxActiveIs, OutputTokensIs DEF MinOutput, Greater
<1>4. CASE size = Unsized
  BY <1>4 DEF SizingInv, SizingTypeOK, SizesHold, SessionsShareTheMachine, SandboxesAreModest, TokensAreBounded
<1>5. CASE size # Unsized
  <2>1. size = [limit |-> SandboxLimit(host), sessions |-> SessionMaxActive(host), tokens |-> OutputTokens(call)]
    BY <1>5 DEF SizingInv
  <2>2. SizingTypeOK
    BY <1>3, <2>1 DEF SizingTypeOK
  <2>3. size.limit = SandboxLimit(host) /\ size.sessions = SessionMaxActive(host) /\ size.tokens = OutputTokens(call)
    BY <2>1
  <2>4. SessionsShareTheMachine
    BY <1>1, <2>3, SessionMaxActiveIs DEF SessionsShareTheMachine
  <2>5. SandboxesAreModest
    BY <1>1, <2>3, SandboxLimitIs DEF SandboxesAreModest
  <2>6. TokensAreBounded
    BY <1>1, <2>3, OutputTokensIs, DeepIsNotShorter DEF TokensAreBounded
  <2> QED BY <2>2, <2>4, <2>5, <2>6 DEF SizesHold
<1> QED BY <1>4, <1>5

\* For every machine and setting: the sandboxes share the memory, and no call is longer than it may be (Sizing.tla).
THEOREM SizesAreRight == SizingSpec => [](SizingTypeOK /\ SizesHold)
<1>1. SizingSpec => []SizingInv
  BY SizingInitHolds, SizingStep, PTL DEF SizingSpec
<1> QED BY <1>1, SizingShown, PTL

-----------------------------------------------------------------------------
(* What they ask this machine to keep (Residency).                          *)

\* The residency by itself.
ResidencySpec == ResidencyInit /\ [][ResidencyNext]_residencyVars

\* The models that a post asked to keep.
LongHeld == {n \in Named : held[n] = "long"}

\* A turn that is under way has its models.
Bound == bound.manager \in Named \/ step \notin {"plan", "release", "work", "review", "release vision", "answer"}

\* The selection before an embedding model was found.
NoEncoder(c) == [manager |-> c.manager, worker |-> c.worker, vision |-> c.vision, embedding |-> NoModel]

\* The inductive invariant, of a machine on which nothing was installed, chosen or listed anew
\* (plain): every plan is of what is chosen, and a long hold is of one of the plans, all of which fit.
ResidencyInv ==
    /\ ResidencyTypeOK /\ Bound
    /\ plain => shelf = Named
    /\ plain => \A p \in plans : p.for \in {chosen, NoEncoder(chosen)} /\ p.together = FitTogether(Competing(p.for))
    /\ plain /\ LongHeld # {} => \E p \in plans : p.together /\ LongHeld \subseteq Competing(p.for)
    /\ "own" \notin misfired

\* What a choice competes for is a finite set of models; its encoder only adds to it.
LEMMA CompetingIs ==
    ASSUME NEW c \in Selections
    PROVE  /\ Competing(c) \subseteq Named /\ IsFiniteSet(Competing(c))
           /\ NoEncoder(c) \in Selections /\ Competing(NoEncoder(c)) \subseteq Competing(c)
<1>1. Competing(c) \subseteq Named /\ NoEncoder(c) \in Selections /\ Competing(NoEncoder(c)) \subseteq Competing(c)
  BY DEF Selections, Competing, NoEncoder
<1>2. IsFiniteSet({c.manager, c.worker, c.vision, c.embedding} \ {NoModel})
  <2>1. IsFiniteSet({})
    BY FS_EmptySet
  <2>2. IsFiniteSet({c.manager} \cup {})
    BY <2>1, FS_AddElement
  <2>3. IsFiniteSet({c.manager, c.worker})
    <3>1. IsFiniteSet({c.manager} \cup {c.worker})
      BY <2>2, FS_AddElement
    <3>2. {c.manager} \cup {c.worker} = {c.manager, c.worker}
      OBVIOUS
    <3> QED BY <3>1, <3>2
  <2>4. IsFiniteSet({c.manager, c.worker, c.vision})
    <3>1. IsFiniteSet({c.manager, c.worker} \cup {c.vision})
      BY <2>3, FS_AddElement
    <3>2. {c.manager, c.worker} \cup {c.vision} = {c.manager, c.worker, c.vision}
      OBVIOUS
    <3> QED BY <3>1, <3>2
  <2>5. IsFiniteSet({c.manager, c.worker, c.vision, c.embedding})
    <3>1. IsFiniteSet({c.manager, c.worker, c.vision} \cup {c.embedding})
      BY <2>4, FS_AddElement
    <3>2. {c.manager, c.worker, c.vision} \cup {c.embedding} = {c.manager, c.worker, c.vision, c.embedding}
      OBVIOUS
    <3> QED BY <3>1, <3>2
  <2> QED BY <2>5, FS_Subset
<1> QED BY <1>1, <1>2 DEF Competing

\* The bounds are numbers.
LEMMA Counted == MaxRuns \in Nat /\ MaxShifts \in Nat
BY ResidencyAssumption

\* A call of models keeps the plans and what they hold for long.
LEMMA CallsKeep ==
    ASSUME ResidencyInv, NEW names, Calls(names), chosen' = chosen, shelf' = shelf
    PROVE  /\ \A p \in plans' : p.for \in Selections /\ p.together \in BOOLEAN
           /\ held' \in [Named -> {"out", "long", "short"}]
           /\ shifts' \in 0..MaxShifts /\ plain' \in BOOLEAN
           /\ plain' => plain
           /\ plain' => \A p \in plans' : p.for \in {chosen, NoEncoder(chosen)} /\ p.together = FitTogether(Competing(p.for))
           /\ plain' /\ LongHeld' # {} => \E p \in plans' : p.together /\ LongHeld' \subseteq Competing(p.for)
<1> USE DEF ResidencyInv, ResidencyTypeOK
<1>1. PICK listed \in IF Known = {} /\ shifts < MaxShifts THEN BOOLEAN ELSE {TRUE} :
      \E p \in IF Known = {} THEN {Planned(listed)} ELSE Known :
        /\ plans' = plans \cup {p}
        /\ held' = [n \in Named |-> IF n \in names \cap shelf THEN IF p.together THEN "long" ELSE "short" ELSE held[n]]
        /\ shifts' = IF listed THEN shifts ELSE shifts + 1
        /\ plain' = (plain /\ listed /\ names \subseteq {chosen[role] : role \in DOMAIN chosen})
  BY DEF Calls
<1>2. PICK p \in IF Known = {} THEN {Planned(listed)} ELSE Known :
        /\ plans' = plans \cup {p}
        /\ held' = [n \in Named |-> IF n \in names \cap shelf THEN IF p.together THEN "long" ELSE "short" ELSE held[n]]
        /\ shifts' = IF listed THEN shifts ELSE shifts + 1
        /\ plain' = (plain /\ listed /\ names \subseteq {chosen[role] : role \in DOMAIN chosen})
  BY <1>1
<1>3. listed \in BOOLEAN /\ (~listed => shifts < MaxShifts)
  BY <1>1
<1>4. chosen \in Selections
  OBVIOUS
<1>5. p.for = chosen /\ p.together \in BOOLEAN
  <2>1. CASE Known = {}
    <3>1. p = Planned(listed)
      BY <1>2, <2>1
    <3>2. FitTogether(IF listed THEN Competing(chosen) \cap shelf ELSE {}) \in BOOLEAN
      BY DEF FitTogether
    <3> QED BY <3>1, <3>2 DEF Planned
  <2>2. CASE Known # {}
    BY <1>2, <2>2 DEF Known
  <2> QED BY <2>1, <2>2
<1>6. \A q \in plans' : q.for \in Selections /\ q.together \in BOOLEAN
  BY <1>2, <1>4, <1>5
<1>7. held' \in [Named -> {"out", "long", "short"}]
  BY <1>2
<1>8. shifts' \in 0..MaxShifts
  <2>1. shifts \in 0..MaxShifts
    OBVIOUS
  <2> QED BY ONLY <1>2, <1>3, <2>1, Counted
<1>9. plain' \in BOOLEAN /\ (plain' => plain /\ listed /\ names \subseteq {chosen[role] : role \in DOMAIN chosen})
  BY <1>2, <1>3
<1>10. ASSUME plain' PROVE p.together = FitTogether(Competing(chosen))
  <2>1. CASE Known = {}
    <3>1. p = Planned(TRUE)
      BY <1>2, <2>1, <1>9, <1>10
    <3>2. Competing(chosen) \cap shelf = Competing(chosen)
      BY <1>4, <1>9, <1>10, CompetingIs
    <3> QED BY <3>1, <3>2 DEF Planned
  <2>2. CASE Known # {}
    <3>1. p \in plans
      BY <1>2, <2>2 DEF Known
    <3> QED BY <1>5, <1>9, <1>10, <3>1
  <2> QED BY <2>1, <2>2
<1>11. ASSUME plain' PROVE \A q \in plans' : q.for \in {chosen, NoEncoder(chosen)} /\ q.together = FitTogether(Competing(q.for))
  BY <1>2, <1>5, <1>9, <1>10, <1>11
<1>12. ASSUME plain', LongHeld' # {} PROVE \E q \in plans' : q.together /\ LongHeld' \subseteq Competing(q.for)
  <2>1. CASE p.together
    <3>1. LongHeld' \subseteq LongHeld \cup (names \cap Named)
      BY <1>2 DEF LongHeld
    <3>2. names \cap Named \subseteq Competing(chosen)
      <4>1. DOMAIN chosen = {"manager", "worker", "vision", "embedding"}
        BY <1>4 DEF Selections
      <4>2. NoModel \notin Named
        BY ResidencyAssumption DEF NoModel, Named
      <4>3. ASSUME NEW n \in names \cap Named PROVE n \in Competing(chosen)
        <5>1. PICK role \in {"manager", "worker", "vision", "embedding"} : n = chosen[role]
          BY <1>9, <1>12, <4>1, <4>3
        <5>2. n # NoModel
          BY <4>2, <4>3
        <5> QED BY <5>1, <5>2 DEF Competing
      <4> QED BY <4>3
    <3>3. LongHeld \subseteq Competing(chosen)
      <4>1. CASE LongHeld = {}
        BY <4>1
      <4>2. CASE LongHeld # {}
        <5>1. PICK q \in plans : LongHeld \subseteq Competing(q.for)
          BY <1>9, <1>12, <4>2
        <5>2. q.for \in {chosen, NoEncoder(chosen)}
          BY <1>9, <1>12
        <5> QED BY <1>4, <5>1, <5>2, CompetingIs
      <4> QED BY <4>1, <4>2
    <3> QED BY <1>2, <1>5, <2>1, <3>1, <3>2, <3>3
  <2>2. CASE ~p.together
    <3>1. LongHeld' \subseteq LongHeld
      BY <1>2, <2>2 DEF LongHeld
    <3> QED BY <1>2, <1>9, <1>12, <3>1
  <2> QED BY <1>5, <2>1, <2>2
<1> QED BY <1>6, <1>7, <1>8, <1>9, <1>11, <1>12

\* A release, of a model of this machine, keeps the types; where the turn's manager is its
\* session's it is not the model that the turn calls next.
LEMMA PostsKeep ==
    ASSUME ResidencyInv, NEW n \in Named \cup {NoModel}, NEW other, NEW next, PostRelease(n, other, next),
           bound.manager = SessionManager => next = other
    PROVE  posted' \subseteq Named /\ misfired' \subseteq {"own", "other"} /\ "own" \notin misfired'
BY DEF PostRelease, ResidencyInv, ResidencyTypeOK

\* It holds at the start.
LEMMA ResidencyInitHolds == ASSUME ResidencyInit PROVE ResidencyInv
<1> USE ResidencyAssumption DEF ResidencyInit
<1>1. ResidencyTypeOK
  BY DEF ResidencyTypeOK, Selections
<1>2. LongHeld = {}
  BY DEF LongHeld
<1>3. Bound
  BY DEF Bound
<1> QED BY <1>1, <1>2, <1>3 DEF ResidencyInv

\* Every step.
LEMMA ResidencyStep == ASSUME ResidencyInv, ResidencyNext PROVE ResidencyInv'
<1>0. chosen \in Selections /\ chosen.manager \in Named /\ chosen.worker \in Named /\ chosen.vision \in Named \cup {NoModel}
  BY DEF ResidencyInv, ResidencyTypeOK, Selections
<1>1. CASE Warm
  <2>1. Calls({chosen.manager, chosen.worker}) /\ UNCHANGED <<settingVars, bound, posted, runs, misfired>> /\ step' = "idle"
    BY <1>1 DEF Warm
  <2>2. UNCHANGED <<shelf, chosen, small>>
    BY <2>1 DEF settingVars
  <2>3. Bound'
    BY <2>1 DEF Bound
  <2> QED BY <2>1, <2>2, <2>3, CallsKeep DEF ResidencyInv, ResidencyTypeOK
<1>2. CASE BeginRun
  <2>1. UNCHANGED <<shelf, chosen, small, plans, held, posted, shifts, plain, misfired>> /\ step' = "plan" /\ runs' \in 0..MaxRuns
    BY <1>2, ResidencyAssumption DEF BeginRun, settingVars, ResidencyInv, ResidencyTypeOK
  <2>2. PICK session \in Named \cup {NoModel}, light \in BOOLEAN, compact \in BOOLEAN, chart \in BOOLEAN :
          bound' = [manager |-> IF session # NoModel THEN session
                              ELSE IF light /\ small \in shelf THEN small ELSE chosen.manager,
                  session |-> session, compact |-> compact, chart |-> chart]
    BY <1>2 DEF BeginRun
  <2>3. shelf \subseteq Named
    BY DEF ResidencyInv, ResidencyTypeOK
  <2>4. bound'.manager \in Named
    BY <1>0, <2>2, <2>3
  <2>5. Bound'
    BY <2>4 DEF Bound
  <2>6. ResidencyTypeOK'
    BY <2>1 DEF ResidencyInv, ResidencyTypeOK
  <2>7. LongHeld' = LongHeld
    BY <2>1 DEF LongHeld
  <2> QED BY <2>1, <2>5, <2>6, <2>7 DEF ResidencyInv
<1>3. CASE Plan
  <2>1. Calls({bound.manager}) /\ UNCHANGED <<settingVars, bound, posted, runs, misfired>> /\ step' = "release" /\ step = "plan"
    BY <1>3 DEF Plan
  <2>2. UNCHANGED <<shelf, chosen, small>>
    BY <2>1 DEF settingVars
  <2>3. Bound'
    BY <2>1 DEF Bound, ResidencyInv
  <2> QED BY <2>1, <2>2, <2>3, CallsKeep DEF ResidencyInv, ResidencyTypeOK
<1>4. CASE LetGo
  <2>1. UNCHANGED <<shelf, chosen, small, plans, held, bound, runs, shifts, plain>> /\ step' = "work" /\ step = "release"
    BY <1>4 DEF LetGo, settingVars
  <2>2. Bound' /\ bound.manager \in Named
    BY <2>1 DEF Bound, ResidencyInv
  <2>3. posted' \subseteq Named /\ misfired' \subseteq {"own", "other"} /\ "own" \notin misfired'
    <3>1. CASE bound.compact
      BY <1>4, <2>2, <3>1, PostsKeep DEF LetGo
    <3>2. CASE ~bound.compact
      BY <1>4, <3>2 DEF LetGo, ResidencyInv, ResidencyTypeOK
    <3> QED BY <3>1, <3>2
  <2>4. ResidencyTypeOK'
    BY <2>1, <2>3 DEF ResidencyInv, ResidencyTypeOK
  <2>5. LongHeld' = LongHeld
    BY <2>1 DEF LongHeld
  <2> QED BY <2>1, <2>2, <2>3, <2>4, <2>5 DEF ResidencyInv
<1>5. CASE Work
  <2>1. Calls({chosen.worker}) /\ UNCHANGED <<settingVars, bound, posted, runs, misfired>> /\ step' \in {"work", "review"} /\ step = "work"
    BY <1>5 DEF Work
  <2>2. UNCHANGED <<shelf, chosen, small>>
    BY <2>1 DEF settingVars
  <2>3. Bound'
    BY <2>1 DEF Bound, ResidencyInv
  <2> QED BY <2>1, <2>2, <2>3, CallsKeep DEF ResidencyInv, ResidencyTypeOK
<1>6. CASE ReviewCall
  <2>1. UNCHANGED <<settingVars, bound, posted, runs, misfired>> /\ step' = "release vision" /\ step = "review"
    BY <1>6 DEF ReviewCall
  <2>2. PICK asked : Calls(asked \cup IF bound.chart THEN {chosen.vision} \ {NoModel} ELSE {})
    BY <1>6 DEF ReviewCall
  <2>3. UNCHANGED <<shelf, chosen, small>>
    BY <2>1 DEF settingVars
  <2>4. Bound'
    BY <2>1 DEF Bound, ResidencyInv
  <2>5. PICK names : Calls(names)
    BY <2>2
  <2> QED BY <2>1, <2>3, <2>4, <2>5, CallsKeep DEF ResidencyInv, ResidencyTypeOK
<1>7. CASE LetGoOfVision
  <2>1. UNCHANGED <<shelf, chosen, small, plans, held, bound, runs, shifts, plain>> /\ step' = "answer" /\ step = "release vision"
    BY <1>7 DEF LetGoOfVision, settingVars
  <2>2. Bound' /\ bound.manager \in Named
    BY <2>1 DEF Bound, ResidencyInv
  <2>3. posted' \subseteq Named /\ misfired' \subseteq {"own", "other"} /\ "own" \notin misfired'
    <3>1. CASE bound.chart
      BY <1>0, <1>7, <2>2, <3>1, PostsKeep DEF LetGoOfVision
    <3>2. CASE ~bound.chart
      BY <1>7, <3>2 DEF LetGoOfVision, ResidencyInv, ResidencyTypeOK
    <3> QED BY <3>1, <3>2
  <2>4. ResidencyTypeOK'
    BY <2>1, <2>3 DEF ResidencyInv, ResidencyTypeOK
  <2>5. LongHeld' = LongHeld
    BY <2>1 DEF LongHeld
  <2> QED BY <2>1, <2>2, <2>3, <2>4, <2>5 DEF ResidencyInv
<1>8. CASE AnswerCall
  <2>1. Calls({bound.manager}) /\ UNCHANGED <<settingVars, posted, runs, misfired>> /\ step' = "idle"
    BY <1>8 DEF AnswerCall
  <2>2. UNCHANGED <<shelf, chosen, small>>
    BY <2>1 DEF settingVars
  <2>3. Bound'
    BY <2>1 DEF Bound
  <2> QED BY <2>1, <2>2, <2>3, CallsKeep DEF ResidencyInv, ResidencyTypeOK
<1>9. CASE Arrives
  <2>1. UNCHANGED <<shelf, chosen, small, plans, step, bound, runs, shifts, plain, misfired>>
    BY <1>9 DEF Arrives, settingVars
  <2>2. PICK n \in posted : posted' = posted \ {n} /\ held' = [held EXCEPT ![n] = "out"]
    BY <1>9 DEF Arrives
  <2>3. ResidencyTypeOK'
    BY <2>1, <2>2 DEF ResidencyInv, ResidencyTypeOK
  <2>4. LongHeld' \subseteq LongHeld
    BY <2>2 DEF LongHeld, ResidencyInv, ResidencyTypeOK
  <2>5. Bound'
    BY <2>1 DEF Bound, ResidencyInv
  <2>6. plain' /\ LongHeld' # {} => \E p \in plans' : p.together /\ LongHeld' \subseteq Competing(p.for)
    BY <2>1, <2>4 DEF ResidencyInv
  <2> QED BY <2>1, <2>3, <2>5, <2>6 DEF ResidencyInv
<1>10. CASE EncoderResolves
  <2>1. UNCHANGED <<shelf, small, plans, held, step, bound, posted, runs, shifts, plain, misfired>>
    BY <1>10 DEF EncoderResolves
  <2>2. PICK n \in shelf : chosen' = [chosen EXCEPT !.embedding = n]
    BY <1>10 DEF EncoderResolves
  <2>3. n \in Named
    BY DEF ResidencyInv, ResidencyTypeOK
  <2>4. chosen' \in Selections
    BY <1>0, <2>2, <2>3 DEF Selections
  <2>5. NoEncoder(chosen') = chosen /\ NoEncoder(chosen) = chosen
    BY <1>0, <1>10, <2>2 DEF Selections, NoEncoder, EncoderResolves
  <2>6. ResidencyTypeOK'
    BY <2>1, <2>4 DEF ResidencyInv, ResidencyTypeOK
  <2>7. LongHeld' = LongHeld
    BY <2>1 DEF LongHeld
  <2>8. Bound'
    BY <2>1 DEF Bound, ResidencyInv
  <2>9. plain' => \A p \in plans' : p.for \in {chosen', NoEncoder(chosen')} /\ p.together = FitTogether(Competing(p.for))
    BY <2>1, <2>5 DEF ResidencyInv
  <2> QED BY <2>1, <2>6, <2>7, <2>8, <2>9 DEF ResidencyInv
<1>11. CASE Embeds
  <2>1. Calls({chosen.embedding}) /\ UNCHANGED <<settingVars, step, bound, posted, runs, misfired>>
    BY <1>11 DEF Embeds
  <2>2. UNCHANGED <<shelf, chosen, small>>
    BY <2>1 DEF settingVars
  <2>3. Bound'
    BY <2>1 DEF Bound, ResidencyInv
  <2> QED BY <2>1, <2>2, <2>3, CallsKeep DEF ResidencyInv, ResidencyTypeOK
<1>12. CASE Shift
  <2>1. UNCHANGED <<small, plans, step, bound, posted, runs, misfired>> /\ plain' = FALSE /\ shifts' \in 0..MaxShifts
    <3>1. shifts \in 0..MaxShifts /\ shifts < MaxShifts /\ shifts' = shifts + 1
      BY <1>12 DEF Shift, ResidencyInv, ResidencyTypeOK
    <3>2. shifts' \in 0..MaxShifts
      BY ONLY <3>1, Counted
    <3> QED BY <1>12, <3>2 DEF Shift
  <2>2. shelf' \subseteq Named /\ chosen' \in Selections /\ held' \in [Named -> {"out", "long", "short"}]
    <3>1. ASSUME NEW n \in Named, shelf' = IF n \in shelf THEN shelf \ {n} ELSE shelf \cup {n},
                 held' = IF n \in shelf THEN [held EXCEPT ![n] = "out"] ELSE held, chosen' = chosen
          PROVE  shelf' \subseteq Named /\ chosen' \in Selections /\ held' \in [Named -> {"out", "long", "short"}]
      BY <3>1 DEF ResidencyInv, ResidencyTypeOK
    <3>2. ASSUME NEW n \in shelf, chosen' = [chosen EXCEPT !.manager = n], shelf' = shelf, held' = held
          PROVE  shelf' \subseteq Named /\ chosen' \in Selections /\ held' \in [Named -> {"out", "long", "short"}]
      BY <1>0, <3>2 DEF ResidencyInv, ResidencyTypeOK, Selections
    <3> QED BY <1>12, <3>1, <3>2 DEF Shift
  <2>3. Bound'
    BY <2>1 DEF Bound, ResidencyInv
  <2>4. ResidencyTypeOK'
    BY <2>1, <2>2 DEF ResidencyInv, ResidencyTypeOK
  <2> QED BY <2>1, <2>3, <2>4 DEF ResidencyInv
<1> QED BY <1>1, <1>2, <1>3, <1>4, <1>5, <1>6, <1>7, <1>8, <1>9, <1>10, <1>11, <1>12 DEF ResidencyNext

\* Where nothing moves.
LEMMA ResidencyStands == ASSUME ResidencyInv, UNCHANGED residencyVars PROVE ResidencyInv'
<1>1. UNCHANGED <<shelf, chosen, small, plans, held, step, bound, posted, runs, shifts, plain, misfired>>
  BY DEF residencyVars
<1> QED BY <1>1 DEF ResidencyInv, ResidencyTypeOK, Bound, LongHeld

\* What the run checks of it.
LEMMA ResidencyShown == ASSUME ResidencyInv PROVE ResidencyTypeOK /\ ResidencyHolds
<1>1. LongFits
  <2>1. SUFFICES ASSUME plain, Cardinality(LongHeld) > 1 PROVE SumFunctionOnSet(Weights, LongHeld) <= Allowance
    BY DEF LongFits, LongHeld
  <2>2. LongHeld # {}
    BY <2>1, FS_EmptySet
  <2>3. PICK p \in plans : p.together /\ LongHeld \subseteq Competing(p.for)
    BY <2>1, <2>2 DEF ResidencyInv
  <2>4. p.for \in Selections /\ p.together = FitTogether(Competing(p.for))
    BY <2>1, <2>3 DEF ResidencyInv, ResidencyTypeOK
  <2>5. PICK S : S = Competing(p.for)
    OBVIOUS
  <2>6. IsFiniteSet(S) /\ S \subseteq Named /\ LongHeld \subseteq S
    BY <2>3, <2>4, <2>5, CompetingIs
  <2>7. ~(Cardinality(S) <= 1)
    <3>1. Cardinality(LongHeld) <= Cardinality(S) /\ Cardinality(LongHeld) \in Nat /\ Cardinality(S) \in Nat
      BY <2>6, FS_Subset, FS_CardinalityType
    <3> QED BY <2>1, <3>1
  <2>8. SumFunctionOnSet(Weights, S) <= Allowance
    BY <2>3, <2>4, <2>5, <2>7 DEF FitTogether
  <2>9. \A n \in S : Weights[n] \in Nat
    BY <2>6, ResidencyAssumption DEF Named
  <2>10. /\ SumFunctionOnSet(Weights, LongHeld) \in Nat /\ SumFunctionOnSet(Weights, S) \in Nat
         /\ SumFunctionOnSet(Weights, LongHeld) <= SumFunctionOnSet(Weights, S)
    BY <2>6, <2>9, SumGrows
  <2> QED BY <2>8, <2>10, ResidencyAssumption
<1> QED BY <1>1 DEF ResidencyInv, ResidencyHolds, ReleaseSparesTheNext

\* For any models, weights and memory: what is held for long fits, as long as nothing changed,
\* and a release spares the model that the turn calls next (Residency.tla).
THEOREM ResidencyIsKept == ResidencySpec => [](ResidencyTypeOK /\ ResidencyHolds)
<1>1. ResidencyInv /\ [ResidencyNext]_residencyVars => ResidencyInv'
  BY ResidencyStep, ResidencyStands
<1> QED BY <1>1, ResidencyInitHolds, ResidencyShown, PTL DEF ResidencySpec

-----------------------------------------------------------------------------
(* What they are billed (Spending).                                         *)

\* A turn that spends.
Spenders == [phase : {"idle", "working", "fanned out"}, iteration : 0..MaxIterations, snapshot : 0..MaxSpent,
             working : SUBSET Kids, done : SUBSET Kids, ids : SUBSET Kids]

\* What each bucket holds, the buckets of a turn, and what it spent.
Amounts == [id \in Buckets |-> Held(id)]

\* The buckets of a turn, and what it really spent.
Involved == {Main} \cup spender.ids \cup spender.working \cup spender.done
Spent == really.own + really.cleaning + really.before

\* Types.
SpendTyped ==
    /\ DOMAIN ledger \subseteq Buckets /\ \A id \in DOMAIN ledger : ledger[id] \in Nat \ {0}
    /\ spender \in Spenders
    /\ known \subseteq Kids
    /\ evicted \in BOOLEAN /\ scrubbing \in BOOLEAN /\ lost \in BOOLEAN
    /\ bill \in {NoBill} \cup 0..MaxSpent
    /\ really \in [own : Nat, cleaning : Nat, before : Nat]
    /\ calls \in 0..MaxSpent /\ turns \in 0..MaxBills

\* What there is in each phase of a turn, and after its session was evicted.
SpendPhases ==
    /\ spender.phase # "fanned out" => spender.working = {} /\ spender.done = {}
    /\ spender.phase # "idle" => bill = NoBill
    /\ lost => evicted
    /\ evicted /\ ~lost => spender.phase = "idle" /\ ~scrubbing /\ ledger = << >>
    /\ ~evicted => DOMAIN ledger \subseteq {Main} \cup known
                 /\ spender.working \cup spender.done \cup spender.ids \subseteq known

\* There are no more in the buckets than the calls that were made; a turn that is under way, with
\* what is in the buckets that it does not use, makes no more either; and while its session stays
\* its buckets have grown by just what it spent.
SpendSums ==
    /\ Combined(Buckets) <= calls
    /\ Spent + (IF spender.phase = "idle" THEN 0 ELSE Combined(Buckets \ Involved)) <= calls
    /\ spender.phase # "idle" /\ ~lost => Combined(Involved) = spender.snapshot + Spent
    /\ bill # NoBill /\ ~lost => bill = Spent

\* The inductive invariant.
SpendInv == SpendTyped /\ SpendPhases /\ SpendSums

\* The bounds are numbers.
LEMMA Caps == MaxSpent \in Nat /\ MaxIterations \in Nat /\ MaxBills \in Nat
BY SpendingAssumption

\* There are finitely many buckets, the one of the session and those of its branches.
LEMMA BucketsAreFinite == IsFiniteSet(Buckets) /\ Main \in Buckets /\ Main \notin Kids /\ Kids \subseteq Buckets
<1>1. IsFiniteSet(1..MaxIterations) /\ IsFiniteSet(1..2)
  BY Caps, FS_Interval, MaxIterations \in Int, 1 \in Int, 2 \in Int
<1>2. IsFiniteSet(Kids)
  BY <1>1, FS_Product DEF Kids
<1>3. IsFiniteSet(Kids \cup {Main})
  BY <1>2, FS_AddElement
<1>4. Main \notin Kids
  BY Caps DEF Main, Kids
<1>5. Buckets = Kids \cup {Main}
  BY DEF Buckets
<1> QED BY <1>3, <1>4, <1>5

\* What buckets hold together is a number, and no more than all of them.
LEMMA CombinedIs ==
    ASSUME SpendTyped, NEW S \in SUBSET Buckets
    PROVE  /\ Combined(S) = SumFunctionOnSet(Amounts, S) /\ Combined(S) \in Nat
           /\ Combined(Buckets) \in Nat /\ Combined(S) <= Combined(Buckets)
           /\ \A id \in Buckets : Amounts[id] = Held(id) /\ Amounts[id] \in Nat
           /\ IsFiniteSet(S)
<1>1. \A id \in Buckets : Amounts[id] = Held(id) /\ Amounts[id] \in Nat
  BY DEF Amounts, Held, SpendTyped
<1>2. \A T : Combined(T) = SumFunctionOnSet(Amounts, T)
  BY DEF Combined, Amounts
<1>3. IsFiniteSet(S)
  BY BucketsAreFinite, FS_Subset
<1> QED BY <1>1, <1>2, <1>3, BucketsAreFinite, SumGrows

\* A call that is booked: its bucket has one more, and so has every sum that takes it in.
LEMMA BookIs ==
    ASSUME SpendTyped, NEW id \in Buckets, Book(id)
    PROVE  /\ DOMAIN ledger' = DOMAIN ledger \cup {id} /\ \A b \in DOMAIN ledger' : ledger'[b] \in Nat \ {0}
           /\ calls \in Nat /\ calls' = calls + 1 /\ calls' \in 0..MaxSpent
           /\ \A S \in SUBSET Buckets : Combined(S)' = Combined(S) + IF id \in S THEN 1 ELSE 0
<1>1. ledger' = [b \in DOMAIN ledger \cup {id} |-> IF b = id THEN Held(id) + 1 ELSE ledger[b]]
  BY DEF Book
<1>2. Held(id) \in Nat
  BY DEF SpendTyped, Held
<1>3. PICK n \in Nat : n = Held(id)
  BY <1>2
<1>4. ledger' = [b \in DOMAIN ledger \cup {id} |-> IF b = id THEN n + 1 ELSE ledger[b]]
  BY <1>1, <1>3
<1>5. DOMAIN ledger' = DOMAIN ledger \cup {id} /\ \A b \in DOMAIN ledger' : ledger'[b] \in Nat \ {0}
  BY <1>3, <1>4 DEF SpendTyped
<1>6. PICK v : v = Amounts
  OBVIOUS
<1>7. PICK w : w = Amounts'
  OBVIOUS
<1>8. ASSUME NEW b \in Buckets
      PROVE v[b] \in Nat /\ w[b] \in Nat /\ w[b] = IF b = id THEN v[b] + 1 ELSE v[b]
  <2>1. v[b] = IF b \in DOMAIN ledger THEN ledger[b] ELSE 0
    BY <1>6 DEF Amounts, Held
  <2>2. w[b] = IF b \in DOMAIN ledger' THEN ledger'[b] ELSE 0
    BY <1>7 DEF Amounts, Held
  <2>3. v[b] \in Nat
    BY <2>1 DEF SpendTyped
  <2>4. n = v[id]
    BY <1>3, <1>6 DEF Amounts
  <2>5. w[b] = IF b = id THEN v[b] + 1 ELSE v[b]
    BY <1>4, <2>1, <2>2, <2>4
  <2> QED BY <2>3, <2>5
<1>9. ASSUME NEW S \in SUBSET Buckets PROVE Combined(S)' = Combined(S) + IF id \in S THEN 1 ELSE 0
  <2>1. IsFiniteSet(S)
    BY BucketsAreFinite, FS_Subset
  <2>2. Combined(S)' = SumFunctionOnSet(w, S) /\ Combined(S) = SumFunctionOnSet(v, S)
    BY <1>6, <1>7 DEF Combined, Amounts
  <2> QED BY <1>8, <2>1, <2>2, SumBooks
<1>10. calls \in Nat /\ calls' = calls + 1 /\ calls' \in 0..MaxSpent
  BY Caps DEF Book, SpendTyped
<1> QED BY <1>5, <1>9, <1>10

\* The sums are of what is in the ledger.
LEMMA CombinedStays == ASSUME ledger' = ledger PROVE \A S : Combined(S)' = Combined(S)
BY DEF Combined, Held

\* Buckets that are dropped take their calls with them.
LEMMA ShrinksIs ==
    ASSUME SpendTyped, NEW X, ledger' = [b \in DOMAIN ledger \ X |-> ledger[b]]
    PROVE  \A S \in SUBSET Buckets : Combined(S)' \in Nat /\ Combined(S)' <= Combined(S)
<1> SUFFICES ASSUME NEW S \in SUBSET Buckets PROVE Combined(S)' \in Nat /\ Combined(S)' <= Combined(S)
  OBVIOUS
<1>1. PICK v : v = Amounts
  OBVIOUS
<1>2. PICK w : w = Amounts'
  OBVIOUS
<1>3. ASSUME NEW b \in S PROVE v[b] \in Nat /\ w[b] \in Nat /\ w[b] <= v[b]
  <2>1. v[b] = IF b \in DOMAIN ledger THEN ledger[b] ELSE 0
    BY <1>1 DEF Amounts, Held
  <2>2. w[b] = IF b \in DOMAIN ledger' THEN ledger'[b] ELSE 0
    BY <1>2 DEF Amounts, Held
  <2>3. v[b] \in Nat
    BY <2>1 DEF SpendTyped
  <2>4. w[b] \in {0, v[b]}
    BY <2>1, <2>2
  <2> QED BY <2>3, <2>4
<1>4. IsFiniteSet(S)
  BY BucketsAreFinite, FS_Subset
<1>5. Combined(S)' = SumFunctionOnSet(w, S) /\ Combined(S) = SumFunctionOnSet(v, S)
  BY <1>1, <1>2 DEF Combined, Amounts
<1> QED BY <1>3, <1>4, <1>5, SumLess, SumIsNat

\* A ledger with no bucket is the empty one.
LEMMA NothingIsEmpty == ASSUME NEW f PROVE [b \in {} |-> f[b]] = << >>
OBVIOUS

\* The buckets that a turn uses, and the others.
LEMMA InvolvedAre ==
    ASSUME SpendTyped
    PROVE  Involved \in SUBSET Buckets /\ Main \in Involved /\ spender.ids \subseteq Kids
           /\ spender.working \subseteq Kids /\ spender.done \subseteq Kids
           /\ spender.snapshot \in 0..MaxSpent /\ spender.iteration \in 0..MaxIterations
           /\ Spent \in Nat /\ really.own \in Nat /\ really.cleaning \in Nat /\ really.before \in Nat
<1>1. /\ spender.ids \subseteq Kids /\ spender.working \subseteq Kids /\ spender.done \subseteq Kids
      /\ spender.snapshot \in 0..MaxSpent /\ spender.iteration \in 0..MaxIterations
  BY DEF SpendTyped, Spenders
<1>2. really.own \in Nat /\ really.cleaning \in Nat /\ really.before \in Nat
  BY DEF SpendTyped
<1>3. Spent \in Nat
  BY <1>2 DEF Spent
<1>4. Involved \in SUBSET Buckets
  BY <1>1, BucketsAreFinite DEF Involved
<1> QED BY <1>1, <1>2, <1>3, <1>4 DEF Involved

\* Where a call is booked, in a bucket of the turn when there is one, the sums grow alike.
LEMMA BookKeeps ==
    ASSUME SpendInv, NEW id \in Buckets, Book(id), spender' = spender, lost' = lost, bill' = bill,
           \/ /\ spender.phase # "idle" /\ id \in Involved
              /\ really' \in [own : Nat, cleaning : Nat, before : Nat] /\ Spent' = Spent + 1
           \/ spender.phase = "idle" /\ really' = really
    PROVE  SpendSums'
<1> USE DEF SpendInv
<1>1. /\ calls \in Nat /\ calls' = calls + 1
      /\ \A S \in SUBSET Buckets : Combined(S)' = Combined(S) + IF id \in S THEN 1 ELSE 0
  BY BookIs
<1>2. PICK T : T = Involved
  OBVIOUS
<1>3. T = Involved' /\ T \in SUBSET Buckets /\ Spent \in Nat
  BY <1>2, InvolvedAre DEF Involved
<1>4. PICK O : O = Buckets \ T
  OBVIOUS
<1>5. O \in SUBSET Buckets /\ Buckets \in SUBSET Buckets /\ (id \in T => id \notin O)
  BY <1>4
<1>6. Combined(T) \in Nat /\ Combined(O) \in Nat /\ Combined(Buckets) \in Nat
  BY <1>3, <1>5, CombinedIs
<1>7. Combined(Buckets)' = Combined(Buckets) + 1
  BY <1>1, <1>5
<1>8. Combined(T)' = Combined(T) + (IF id \in T THEN 1 ELSE 0) /\ Combined(O)' = Combined(O) + (IF id \in O THEN 1 ELSE 0)
  BY <1>1, <1>3, <1>5
<1>9. Combined(Involved)' = Combined(T)' /\ Combined(Buckets \ Involved)' = Combined(O)'
  BY <1>3, <1>4 DEF Combined
<1>10. Combined(Involved) = Combined(T) /\ Combined(Buckets \ Involved) = Combined(O)
  BY <1>2, <1>4
<1>11. /\ Combined(Buckets) <= calls
       /\ Spent + (IF spender.phase = "idle" THEN 0 ELSE Combined(O)) <= calls
       /\ spender.phase # "idle" /\ ~lost => Combined(T) = spender.snapshot + Spent
       /\ bill # NoBill /\ ~lost => bill = Spent
  BY <1>10 DEF SpendSums
<1>12. spender.phase # "idle" => bill = NoBill
  BY DEF SpendPhases
<1>13. spender.snapshot \in Nat
  BY InvolvedAre, Caps
<1>14. CASE spender.phase # "idle"
  <2>1. id \in T /\ id \notin O /\ Spent' = Spent + 1
    BY <1>2, <1>5, <1>14
  <2>2. Combined(T)' = Combined(T) + 1 /\ Combined(O)' = Combined(O)
    BY <1>6, <1>8, <2>1
  <2>3. Combined(Buckets)' <= calls'
    BY <1>1, <1>6, <1>7, <1>11
  <2>4. Spent' + Combined(O)' <= calls'
    BY <1>1, <1>3, <1>6, <1>11, <1>14, <2>1, <2>2
  <2>5. ~lost' => Combined(T)' = spender'.snapshot + Spent'
    BY <1>3, <1>6, <1>11, <1>13, <1>14, <2>1, <2>2
  <2> QED BY <1>9, <1>12, <1>14, <2>3, <2>4, <2>5 DEF SpendSums
<1>15. CASE spender.phase = "idle"
  <2>1. Spent' = Spent
    BY <1>15 DEF Spent
  <2>2. Combined(Buckets)' <= calls' /\ Spent' <= calls'
    BY <1>1, <1>3, <1>6, <1>7, <1>11, <1>15, <2>1
  <2> QED BY <1>3, <1>11, <1>15, <2>1, <2>2 DEF SpendSums
<1> QED BY <1>14, <1>15

\* It holds at the start.
LEMMA SpendInitHolds == ASSUME SpendInit PROVE SpendInv
<1> USE DEF SpendInit, NoTurn, Nothing
<1>1. DOMAIN ledger = {}
  OBVIOUS
<1>2. SpendTyped
  <2>1. spender \in Spenders
    BY Caps DEF Spenders
  <2>2. really \in [own : Nat, cleaning : Nat, before : Nat]
    OBVIOUS
  <2>3. calls \in 0..MaxSpent /\ turns \in 0..MaxBills
    BY Caps
  <2> QED BY <1>1, <2>1, <2>2, <2>3 DEF SpendTyped
<1>3. SpendPhases
  BY <1>1 DEF SpendPhases
<1>4. Combined(Buckets) = 0
  <2>1. PICK v : v = Amounts
    OBVIOUS
  <2>2. \A b \in Buckets : v[b] = 0
    BY <1>1, <2>1 DEF Amounts, Held
  <2>3. SumFunctionOnSet(v, Buckets) = 0
    BY <2>2, BucketsAreFinite, SumOfNone
  <2> QED BY <2>1, <2>3 DEF Combined, Amounts
<1>5. SpendSums
  BY <1>4, Caps DEF SpendSums, Spent
<1> QED BY <1>2, <1>3, <1>5 DEF SpendInv

\* What a call changes besides the sums.
LEMMA BookTypes ==
    ASSUME SpendInv, NEW id \in Buckets, Book(id), really' \in [own : Nat, cleaning : Nat, before : Nat],
           UNCHANGED <<spender, known, evicted, bill, lost, turns>>, scrubbing' \in BOOLEAN,
           scrubbing' => scrubbing,
           evicted => lost, ~evicted => id \in {Main} \cup known
    PROVE  SpendTyped' /\ SpendPhases'
<1>1. /\ DOMAIN ledger' = DOMAIN ledger \cup {id} /\ \A b \in DOMAIN ledger' : ledger'[b] \in Nat \ {0}
      /\ calls' \in 0..MaxSpent
  BY BookIs DEF SpendInv
<1>2. SpendTyped'
  BY <1>1 DEF SpendInv, SpendTyped
<1>3. SpendPhases'
  BY <1>1 DEF SpendInv, SpendPhases
<1> QED BY <1>2, <1>3

\* What leaves the ledger, the calls, the turn's history and its buckets alone keeps the sums.
LEMMA SumsStay ==
    ASSUME SpendInv, UNCHANGED <<ledger, really, calls, lost>>, Involved' = Involved,
           spender'.phase # "idle" => spender.phase # "idle" /\ spender'.snapshot = spender.snapshot,
           bill' # NoBill /\ ~lost => bill' = Spent
    PROVE  SpendSums'
<1>1. PICK O : O = Buckets \ Involved
  OBVIOUS
<1>2. O = Buckets \ Involved'
  BY <1>1
<1>3. Combined(O)' = Combined(O) /\ Combined(Buckets)' = Combined(Buckets)
  BY CombinedStays
<1>4. Combined(Involved)' = Combined(Involved) /\ Combined(Buckets \ Involved)' = Combined(Buckets \ Involved)
  BY <1>1, <1>2 DEF Combined, Held
<1>5. Spent' = Spent
  BY DEF Spent
<1>6. calls \in Nat /\ Combined(Buckets \ Involved) \in Nat /\ Spent \in Nat
  BY InvolvedAre, CombinedIs DEF SpendInv, SpendTyped
<1> QED BY <1>3, <1>4, <1>5, <1>6 DEF SpendInv, SpendSums

\* Every step.
LEMMA SpendStep == ASSUME SpendInv, SpendNext PROVE SpendInv'
<1> USE DEF SpendInv
<1>0. /\ Involved \in SUBSET Buckets /\ Main \in Involved /\ spender.ids \subseteq Kids
      /\ spender.working \subseteq Kids /\ spender.done \subseteq Kids
      /\ spender.snapshot \in 0..MaxSpent /\ spender.iteration \in 0..MaxIterations
      /\ Spent \in Nat /\ really.own \in Nat /\ really.cleaning \in Nat /\ really.before \in Nat
      /\ calls \in 0..MaxSpent /\ turns \in 0..MaxBills
      /\ spender \in Spenders /\ really \in [own : Nat, cleaning : Nat, before : Nat]
  BY InvolvedAre DEF SpendTyped
<1>1. CASE BeginBill
  <2>1. /\ spender.phase = "idle" /\ ~evicted /\ ~lost /\ turns' \in 0..MaxBills /\ bill' = NoBill /\ really' = Nothing
        /\ UNCHANGED <<ledger, known, evicted, scrubbing, lost, calls>>
    BY <1>0, <1>1, Caps DEF BeginBill, SpendPhases
  <2>2. PICK n : n = Combined({Main})
    OBVIOUS
  <2>3. n \in Nat /\ n <= Combined(Buckets) /\ Combined(Buckets) \in Nat /\ Combined(Buckets) <= calls
    <3>1. {Main} \in SUBSET Buckets
      BY BucketsAreFinite
    <3> QED BY <2>2, <3>1, CombinedIs DEF SpendSums
  <2>4. n \in 0..MaxSpent
    BY <1>0, <2>3, Caps
  <2>5. spender' = [phase |-> "working", iteration |-> 0, snapshot |-> n, working |-> {}, done |-> {}, ids |-> {}]
    BY <1>1, <2>2 DEF BeginBill, NoTurn
  <2>6. spender' \in Spenders
    BY <2>4, <2>5, Caps DEF Spenders
  <2>7. SpendTyped'
    BY <2>1, <2>6 DEF SpendTyped, Nothing
  <2>8. SpendPhases'
    BY <2>1, <2>5 DEF SpendPhases
  <2>9. Involved' = {Main} /\ Spent' = 0
    BY <2>1, <2>5 DEF Involved, Spent, Nothing
  <2>10. Combined(Involved)' = n /\ Combined(Buckets)' = Combined(Buckets)
    BY <2>1, <2>2, <2>9 DEF Combined, Held
  <2>11. Combined(Buckets \ Involved)' = Combined(Buckets \ {Main})
    BY <2>1, <2>9 DEF Combined, Held
  <2>12. Combined(Buckets \ {Main}) \in Nat /\ Combined(Buckets \ {Main}) <= Combined(Buckets)
    BY CombinedIs
  <2>13. SpendSums'
    BY <1>0, <2>1, <2>3, <2>5, <2>9, <2>10, <2>11, <2>12 DEF SpendSums
  <2> QED BY <2>7, <2>8, <2>13
<1>2. CASE MainCall
  <2>1. /\ spender.phase = "working" /\ Book(Main) /\ really' = [really EXCEPT !.own = @ + 1]
        /\ UNCHANGED <<spender, known, evicted, scrubbing, bill, lost, turns>>
    BY <1>2 DEF MainCall
  <2>2. Spent' = Spent + 1 /\ really' \in [own : Nat, cleaning : Nat, before : Nat]
    BY <1>0, <2>1 DEF Spent
  <2>3. evicted => lost
    BY <2>1 DEF SpendPhases
  <2>4. SpendTyped' /\ SpendPhases'
    BY <2>1, <2>2, <2>3, BookTypes, BucketsAreFinite DEF SpendTyped
  <2>5. SpendSums'
    BY <1>0, <2>1, <2>2, BookKeeps, BucketsAreFinite
  <2> QED BY <2>4, <2>5
<1>3. CASE Iterate
  <2>1. /\ spender.phase = "working" /\ spender' = [spender EXCEPT !.iteration = spender.iteration + 1]
        /\ spender.iteration < MaxIterations
        /\ UNCHANGED <<ledger, known, evicted, scrubbing, bill, really, lost, calls, turns>>
    BY <1>3 DEF Iterate
  <2>2. spender.iteration + 1 \in 0..MaxIterations
    BY <1>0, <2>1, Caps
  <2>3. spender' \in Spenders
    BY <1>0, <2>1, <2>2 DEF Spenders
  <2>4. /\ spender'.phase = spender.phase /\ spender'.working = spender.working /\ spender'.done = spender.done
        /\ spender'.ids = spender.ids /\ spender'.snapshot = spender.snapshot
    BY <1>0, <2>1 DEF Spenders
  <2>5. Involved' = Involved
    BY <2>4 DEF Involved
  <2>6. SpendSums'
    BY <2>1, <2>4, <2>5, SumsStay DEF SpendSums
  <2>7. SpendTyped'
    BY <2>1, <2>3 DEF SpendTyped
  <2>8. SpendPhases'
    BY <2>1, <2>4 DEF SpendPhases
  <2> QED BY <2>6, <2>7, <2>8
<1>4. CASE FanOut
  <2>1. /\ spender.phase = "working" /\ spender.iteration > 0 /\ Branches \cap spender.ids = {}
        /\ known' = known \cup Branches
        /\ UNCHANGED <<ledger, evicted, scrubbing, bill, lost, calls, turns>>
    BY <1>4 DEF FanOut
  <2>2. PICK B : B = Branches
    OBVIOUS
  <2>3. B \subseteq Kids
    <3>1. \A b \in 1..2 : BranchId(spender.iteration, b) \in Kids
      BY <1>0, <2>1 DEF BranchId, Kids
    <3> QED BY <2>2, <3>1 DEF Branches
  <2>4. spender' = [spender EXCEPT !.phase = "fanned out", !.working = B, !.done = {}]
    BY <1>4, <2>2 DEF FanOut
  <2>5. spender' \in Spenders
    BY <1>0, <2>3, <2>4 DEF Spenders
  <2>6. /\ spender'.phase = "fanned out" /\ spender'.working = B /\ spender'.done = {}
        /\ spender'.ids = spender.ids /\ spender'.snapshot = spender.snapshot
    BY <1>0, <2>4 DEF Spenders
  <2>7. PICK T : T = Involved
    OBVIOUS
  <2>8. spender.working = {} /\ spender.done = {} /\ bill = NoBill
    BY <2>1 DEF SpendPhases
  <2>9. T \in SUBSET Buckets /\ B \in SUBSET Buckets /\ T \cap B = {}
    BY <1>0, <2>1, <2>2, <2>3, <2>7, <2>8, BucketsAreFinite DEF Involved
  <2>10. Involved' = T \cup B
    BY <2>6, <2>7, <2>8 DEF Involved
  <2>11. PICK O, P : O = Buckets \ T /\ P = Buckets \ (T \cup B)
    OBVIOUS
  <2>12. PICK t, b, u, o, q : t = Combined(T) /\ b = Combined(B) /\ u = Combined(T \cup B) /\ o = Combined(O) /\ q = Combined(P)
    OBVIOUS
  <2>13. t \in Nat /\ b \in Nat /\ u \in Nat /\ o \in Nat /\ q \in Nat
    BY <2>9, <2>11, <2>12, CombinedIs
  <2>14. u = t + b
    <3>1. T \cup B \in SUBSET Buckets /\ T \in SUBSET (T \cup B) /\ (T \cup B) \ T = B
      BY <2>9
    <3>2. IsFiniteSet(T \cup B) /\ \A x \in T \cup B : Amounts[x] \in Nat
      BY <3>1, CombinedIs
    <3>3. SumFunctionOnSet(Amounts, T \cup B) = SumFunctionOnSet(Amounts, T) + SumFunctionOnSet(Amounts, B)
      BY <3>1, <3>2, SumApart
    <3> QED BY <2>12, <3>3 DEF Combined, Amounts
  <2>15. o = b + q
    <3>1. O \in SUBSET Buckets /\ B \in SUBSET O /\ O \ B = P
      BY <2>9, <2>11
    <3>2. IsFiniteSet(O) /\ \A x \in O : Amounts[x] \in Nat
      BY <3>1, CombinedIs
    <3>3. SumFunctionOnSet(Amounts, O) = SumFunctionOnSet(Amounts, B) + SumFunctionOnSet(Amounts, P)
      BY <3>1, <3>2, SumApart
    <3> QED BY <2>12, <3>3 DEF Combined, Amounts
  <2>16. really' = [really EXCEPT !.before = really.before + b]
    BY <1>4, <2>2, <2>12 DEF FanOut
  <2>17. really' \in [own : Nat, cleaning : Nat, before : Nat] /\ Spent' = Spent + b
    BY <1>0, <2>13, <2>16 DEF Spent
  <2>18. Combined(Involved)' = u /\ Combined(Buckets \ Involved)' = q /\ Combined(Buckets)' = Combined(Buckets)
    BY <2>1, <2>10, <2>11, <2>12 DEF Combined, Held
  <2>19. Combined(Involved) = t /\ Combined(Buckets \ Involved) = o
    BY <2>7, <2>11, <2>12
  <2>20. Spent + o <= calls /\ (~lost => t = spender.snapshot + Spent)
    BY <2>1, <2>19 DEF SpendSums
  <2>21. Spent' + q <= calls' /\ (~lost => u = spender'.snapshot + Spent')
    <3>1. PICK s, c, k \in Nat : s = Spent /\ c = calls /\ k = spender.snapshot
      BY <1>0, Caps
    <3>2. s + o <= c /\ (~lost => t = k + s)
      BY <2>20, <3>1
    <3>3. (s + b) + q <= c /\ (~lost => u = k + (s + b))
      BY ONLY <2>13, <2>14, <2>15, <3>1, <3>2
    <3> QED BY <2>1, <2>6, <2>17, <3>1, <3>3
  <2>22. SpendSums'
    BY <2>1, <2>6, <2>8, <2>18, <2>21 DEF SpendSums
  <2>24. SpendTyped'
    BY <2>1, <2>2, <2>3, <2>5, <2>17 DEF SpendTyped
  <2>25. SpendPhases'
    BY <2>1, <2>2, <2>6, <2>8 DEF SpendPhases
  <2> QED BY <2>22, <2>24, <2>25
<1>5. CASE FoldBack
  <2>1. /\ spender.phase = "fanned out"
        /\ spender' = [spender EXCEPT !.phase = "working", !.working = {}, !.done = {},
                                  !.ids = spender.ids \cup spender.working \cup spender.done]
        /\ UNCHANGED <<ledger, known, evicted, scrubbing, bill, really, lost, calls, turns>>
    BY <1>5 DEF FoldBack
  <2>2. spender' \in Spenders
    BY <1>0, <2>1 DEF Spenders
  <2>3. /\ spender'.phase = "working" /\ spender'.working = {} /\ spender'.done = {}
        /\ spender'.ids = spender.ids \cup spender.working \cup spender.done /\ spender'.snapshot = spender.snapshot
    BY <1>0, <2>1 DEF Spenders
  <2>4. Involved' = Involved
    BY <2>3 DEF Involved
  <2>5. SpendSums'
    BY <2>1, <2>3, <2>4, SumsStay DEF SpendSums
  <2>6. SpendTyped'
    BY <2>1, <2>2 DEF SpendTyped
  <2>7. SpendPhases'
    BY <2>1, <2>3 DEF SpendPhases
  <2> QED BY <2>5, <2>6, <2>7
<1>6. CASE Bill
  <2>1. /\ spender.phase = "working" /\ bill' = Since({Main} \cup spender.ids) /\ spender' = NoTurn
        /\ UNCHANGED <<ledger, known, evicted, scrubbing, really, lost, calls, turns>>
    BY <1>6 DEF Bill
  <2>2. {Main} \cup spender.ids = Involved
    BY <2>1 DEF SpendPhases, Involved
  <2>3. PICK t : t = Combined(Involved)
    OBVIOUS
  <2>4. t \in Nat /\ t <= Combined(Buckets) /\ Combined(Buckets) \in Nat /\ Combined(Buckets) <= calls
    BY <1>0, <2>3, CombinedIs DEF SpendSums
  <2>5. bill' = IF t - spender.snapshot > 0 THEN t - spender.snapshot ELSE 0
    BY <2>1, <2>2, <2>3 DEF Since
  <2>6. bill' \in 0..MaxSpent
    BY <1>0, <2>4, <2>5, Caps
  <2>7. ~lost => bill' = Spent
    <3>1. ~lost => t = spender.snapshot + Spent
      BY <2>1, <2>3 DEF SpendSums
    <3> QED BY <1>0, <2>4, <2>5, <3>1, Caps
  <2>8. spender' \in Spenders /\ spender'.phase = "idle" /\ spender'.working = {} /\ spender'.done = {} /\ spender'.ids = {}
    BY <2>1, Caps DEF NoTurn, Spenders
  <2>9. SpendTyped'
    BY <2>1, <2>6, <2>8 DEF SpendTyped
  <2>10. SpendPhases'
    BY <2>1, <2>8 DEF SpendPhases
  <2>11. Combined(Buckets)' = Combined(Buckets) /\ Spent' = Spent
    BY <2>1, CombinedStays DEF Spent
  <2>12. Spent <= calls
    <3>1. Combined(Buckets \ Involved) \in Nat
      BY CombinedIs
    <3> QED BY <1>0, <2>1, <3>1 DEF SpendSums
  <2>13. SpendSums'
    BY <1>0, <2>1, <2>4, <2>7, <2>8, <2>11, <2>12 DEF SpendSums
  <2> QED BY <2>9, <2>10, <2>13
<1>7. CASE CutOff
  <2>1. /\ spender.phase # "idle" /\ spender' = NoTurn
        /\ UNCHANGED <<ledger, known, evicted, scrubbing, bill, really, lost, calls, turns>>
    BY <1>7 DEF CutOff
  <2>2. spender' \in Spenders /\ spender'.phase = "idle" /\ spender'.working = {} /\ spender'.done = {} /\ spender'.ids = {}
    BY <2>1, Caps DEF NoTurn, Spenders
  <2>3. SpendTyped'
    BY <2>1, <2>2 DEF SpendTyped
  <2>4. SpendPhases' /\ bill = NoBill
    BY <2>1, <2>2 DEF SpendPhases
  <2>5. Combined(Buckets)' = Combined(Buckets) /\ Spent' = Spent
    BY <2>1, CombinedStays DEF Spent
  <2>6. Spent <= calls
    <3>1. Combined(Buckets \ Involved) \in Nat
      BY CombinedIs
    <3> QED BY <1>0, <2>1, <3>1 DEF SpendSums
  <2>7. SpendSums'
    BY <1>0, <2>1, <2>2, <2>4, <2>5, <2>6 DEF SpendSums
  <2> QED BY <2>3, <2>4, <2>7
<1>8. ASSUME NEW id \in Kids, BranchCall(id) PROVE SpendInv'
  <2>1. /\ id \in spender.working /\ Book(id) /\ really' = [really EXCEPT !.own = @ + 1]
        /\ UNCHANGED <<spender, known, evicted, scrubbing, bill, lost, turns>>
    BY <1>8 DEF BranchCall
  <2>2. Spent' = Spent + 1 /\ really' \in [own : Nat, cleaning : Nat, before : Nat]
    BY <1>0, <2>1 DEF Spent
  <2>3. spender.phase = "fanned out" /\ id \in Involved /\ id \in Buckets
    BY <2>1, BucketsAreFinite DEF SpendPhases, Involved
  <2>4. (evicted => lost) /\ (~evicted => id \in {Main} \cup known)
    BY <2>1, <2>3 DEF SpendPhases
  <2>5. SpendTyped' /\ SpendPhases'
    BY <2>1, <2>2, <2>3, <2>4, BookTypes DEF SpendTyped
  <2>6. SpendSums'
    BY <2>1, <2>2, <2>3, BookKeeps
  <2> QED BY <2>5, <2>6
<1>9. ASSUME NEW id \in Kids, BranchEnds(id) PROVE SpendInv'
  <2>1. /\ id \in spender.working
        /\ spender' = [spender EXCEPT !.working = spender.working \ {id}, !.done = spender.done \cup {id}]
        /\ UNCHANGED <<ledger, known, evicted, scrubbing, bill, really, lost, calls, turns>>
    BY <1>9 DEF BranchEnds
  <2>2. spender' \in Spenders
    BY <1>0, <2>1 DEF Spenders
  <2>3. /\ spender'.phase = spender.phase /\ spender'.working = spender.working \ {id} /\ spender'.done = spender.done \cup {id}
        /\ spender'.ids = spender.ids /\ spender'.snapshot = spender.snapshot
    BY <1>0, <2>1 DEF Spenders
  <2>4. Involved' = Involved
    BY <2>1, <2>3 DEF Involved
  <2>5. SpendSums'
    BY <2>1, <2>3, <2>4, SumsStay DEF SpendSums
  <2>6. SpendTyped'
    BY <2>1, <2>2 DEF SpendTyped
  <2>7. SpendPhases'
    BY <2>1, <2>3 DEF SpendPhases
  <2> QED BY <2>5, <2>6, <2>7
<1>10. CASE BeginScrub
  <2>1. ~evicted /\ scrubbing' = TRUE /\ UNCHANGED <<ledger, spender, known, evicted, bill, really, lost, calls, turns>>
    BY <1>10 DEF BeginScrub
  <2>2. Involved' = Involved
    BY <2>1 DEF Involved
  <2>3. SpendSums'
    BY <2>1, <2>2, SumsStay DEF SpendSums
  <2>4. SpendTyped'
    BY <2>1 DEF SpendTyped
  <2>5. SpendPhases'
    BY <2>1 DEF SpendPhases
  <2> QED BY <2>3, <2>4, <2>5
<1>11. CASE Scrubbed
  <2>1. scrubbing /\ scrubbing' = FALSE /\ UNCHANGED <<spender, known, evicted, bill, lost, turns>>
    BY <1>11 DEF Scrubbed
  <2>2. CASE UNCHANGED <<ledger, calls, really>>
    <3>1. Involved' = Involved
      BY <2>1 DEF Involved
    <3>2. SpendSums'
      BY <2>1, <2>2, <3>1, SumsStay DEF SpendSums
    <3>3. SpendTyped'
      BY <2>1, <2>2 DEF SpendTyped
    <3>4. SpendPhases'
      BY <2>1, <2>2 DEF SpendPhases
    <3> QED BY <3>2, <3>3, <3>4
  <2>3. CASE Book(Main) /\ really' = [really EXCEPT !.cleaning = @ + (IF spender.phase = "idle" THEN 0 ELSE 1)]
    <3>1. evicted => lost
      BY <2>1 DEF SpendPhases
    <3>2. spender.phase = "idle" => really' = really
      BY <1>0, <2>3
    <3>3. spender.phase # "idle" => really' \in [own : Nat, cleaning : Nat, before : Nat] /\ Spent' = Spent + 1
      BY <1>0, <2>3 DEF Spent
    <3>4. SpendTyped' /\ SpendPhases'
      BY <1>0, <2>1, <2>3, <3>1, <3>2, <3>3, BookTypes, BucketsAreFinite
    <3>5. SpendSums'
      BY <1>0, <2>1, <2>3, <3>2, <3>3, BookKeeps, BucketsAreFinite
    <3> QED BY <3>4, <3>5
  <2> QED BY <1>11, <2>2, <2>3 DEF Scrubbed
<1>12. CASE Evict
  <2>1. /\ ~evicted /\ evicted' = TRUE /\ known' = {} /\ lost' = (spender.phase # "idle" \/ scrubbing)
        /\ ledger' = [id \in DOMAIN ledger \ ({Main} \cup known) |-> ledger[id]]
        /\ UNCHANGED <<spender, scrubbing, bill, really, calls, turns>>
    BY <1>12 DEF Evict
  <2>2. DOMAIN ledger \ ({Main} \cup known) = {} /\ ~lost
    BY <2>1 DEF SpendPhases
  <2>3. ledger' = << >>
    <3>1. ledger' = [id \in {} |-> ledger[id]]
      BY <2>1, <2>2
    <3> QED BY <3>1, NothingIsEmpty
  <2>4. DOMAIN ledger' = {}
    BY <2>1, <2>2
  <2>5. SpendTyped'
    BY <2>1, <2>4 DEF SpendTyped
  <2>6. SpendPhases'
    BY <2>1, <2>3 DEF SpendPhases
  <2>7. \A S \in SUBSET Buckets : Combined(S)' \in Nat /\ Combined(S)' <= Combined(S)
    BY <2>1, ShrinksIs
  <2>8. PICK O : O = Buckets \ Involved /\ O = Buckets \ Involved'
    BY <2>1 DEF Involved
  <2>9. PICK g, h, m, n : g = Combined(Buckets) /\ h = Combined(Buckets)' /\ m = Combined(O) /\ n = Combined(O)'
    OBVIOUS
  <2>10. /\ g \in Nat /\ h \in Nat /\ m \in Nat /\ n \in Nat /\ h <= g /\ n <= m
    <3>1. O \in SUBSET Buckets /\ Buckets \in SUBSET Buckets
      BY <2>8
    <3> QED BY <2>7, <2>9, <3>1, CombinedIs
  <2>11. Combined(Buckets \ Involved)' = n /\ Combined(Buckets \ Involved) = m
    BY <2>8, <2>9 DEF Combined
  <2>12. Spent' = Spent
    BY <2>1 DEF Spent
  <2>13. g <= calls /\ Spent + (IF spender.phase = "idle" THEN 0 ELSE m) <= calls
    BY <2>9, <2>11 DEF SpendSums
  <2>14. h <= calls /\ Spent + (IF spender.phase = "idle" THEN 0 ELSE n) <= calls
    BY <1>0, <2>10, <2>13
  <2>15. SpendSums'
    BY <2>1, <2>2, <2>9, <2>11, <2>12, <2>14 DEF SpendSums
  <2> QED BY <2>5, <2>6, <2>15
<1> QED BY <1>1, <1>2, <1>3, <1>4, <1>5, <1>6, <1>7, <1>8, <1>9, <1>10, <1>11, <1>12 DEF SpendNext

\* Where nothing moves.
LEMMA SpendStands == ASSUME SpendInv, UNCHANGED spendVars PROVE SpendInv'
<1>1. UNCHANGED <<ledger, spender, known, evicted, scrubbing, bill, really, lost, calls, turns>>
  BY DEF spendVars
<1>2. Involved' = Involved /\ Spent' = Spent
  BY <1>1 DEF Involved, Spent
<1>3. SpendSums'
  BY <1>1, <1>2, SumsStay DEF SpendInv, SpendSums
<1> QED BY <1>1, <1>3 DEF SpendInv, SpendTyped, SpendPhases

\* What the run checks of it.
LEMMA SpendShown == ASSUME SpendInv PROVE SpendTypeOK /\ SpendingHolds
<1> USE DEF SpendInv
<1>1. calls \in 0..MaxSpent /\ Spent <= calls /\ Spent \in Nat
      /\ really.own \in Nat /\ really.cleaning \in Nat /\ really.before \in Nat
  <2>1. Combined(Buckets \ Involved) \in Nat
    BY CombinedIs
  <2> QED BY <2>1, InvolvedAre DEF SpendTyped, SpendSums
<1>2. really.own \in 0..MaxSpent /\ really.cleaning \in 0..MaxSpent /\ really.before \in 0..MaxSpent
  BY <1>1, Caps DEF Spent
<1>3. really \in [own : 0..MaxSpent, cleaning : 0..MaxSpent, before : 0..MaxSpent]
  BY <1>2 DEF SpendTyped
<1>4. ASSUME NEW id \in DOMAIN ledger PROVE ledger[id] \in 1..MaxSpent
  <2>1. id \in Buckets /\ ledger[id] \in Nat \ {0}
    BY DEF SpendTyped
  <2>2. PICK s : s = SumFunctionOnSet(Amounts, Buckets)
    OBVIOUS
  <2>3. Amounts[id] <= s /\ s \in Nat
    <3>1. IsFiniteSet(Buckets) /\ \A x \in Buckets : Amounts[x] \in Nat
      BY CombinedIs
    <3>2. PICK a, r \in Nat : a = Amounts[id] /\ s = a + r
      BY <2>1, <2>2, <3>1, SumByOne
    <3> QED BY <3>2
  <2>4. s = Combined(Buckets) /\ s <= calls
    BY <2>2 DEF Combined, Amounts, SpendSums
  <2>5. Amounts[id] = ledger[id]
    BY <2>1 DEF Amounts, Held
  <2> QED BY <1>1, <2>1, <2>3, <2>4, <2>5, Caps
<1>5. SpendTypeOK
  BY <1>3, <1>4 DEF SpendTypeOK, SpendTyped, Spenders
<1>6. SpendingHolds
  BY DEF SpendingHolds, BillIsExact, LedgerIsEmptied, BranchesAreKnown, SpendPhases, SpendSums, Spent
<1> QED BY <1>5, <1>6

\* For any calls, branches and evictions: a turn is billed what it spent, with what a cleaning
\* and earlier turns of the same branch ids spent, and a session that is gone leaves no bucket (Spending.tla).
THEOREM TurnsAreBilled == SpendSpec => [](SpendTypeOK /\ SpendingHolds)
<1>1. SpendInv /\ [SpendNext]_spendVars => SpendInv'
  BY SpendStep, SpendStands
<1> QED BY <1>1, SpendInitHolds, SpendShown, PTL DEF SpendSpec

-----------------------------------------------------------------------------
(* Where they go (ModelAccess).                                             *)

\* What may change under a call.
Moved == {"mode", "policy", "choice", "key"}

\* What a caller has read of it.
Reading == [at : {"idle", "prompted", "captured", "redacted", "asking", "resolved"}, redact : BOOLEAN,
            provider : Places \cup {Unset}, model : Places \cup {Unset}, mode : Plans, key : KeyVersions]

\* Types.
AccessTyped ==
    /\ dataMode \in Plans /\ fallback \in Places
    /\ schemaOnly \in BOOLEAN /\ forgetting \in BOOLEAN /\ strayed \in BOOLEAN /\ staleKey \in BOOLEAN
    /\ assigned \in [provider : Places \cup {Unset}, model : Places \cup {Unset}]
    /\ selecting \in [provider : Places \cup {Unset}, checked : BOOLEAN]
    /\ keys \in [settings : KeyVersions, stored : KeyVersions]
    /\ DOMAIN clients \subseteq Places /\ \A m \in DOMAIN clients : clients[m] \in KeyVersions
    /\ caller \in [Callers -> Reading]
    /\ since \in [Callers -> SUBSET Moved]
    /\ moves \in 0..MaxMoves

\* What a session has chosen, and what a selection that waits may still set.
ChoiceStands ==
    ~strayed =>
        IF selecting = NoSelection
        THEN /\ assigned.provider # Unset => Permits(dataMode, assigned.provider)
             /\ assigned.model # Unset => assigned.model = assigned.provider
        ELSE /\ selecting.provider # Unset /\ Permits(dataMode, selecting.provider)
             /\ ~selecting.checked => assigned.provider = selecting.provider

\* The clients, and the key that the cleaning may build one with, are of the key in force.
KeysStand ==
    ~staleKey /\ ~forgetting =>
        /\ \A m \in DOMAIN clients : clients[m] = KeyOf("cloud")
        /\ caller["cleaning"].at = "resolved" => caller["cleaning"].key = KeyOf(caller["cleaning"].provider)

\* A selection overlapped a switch or another selection, or one waits.
Straying == strayed \/ selecting # NoSelection

\* None of these changed since the caller began; and where its calls would go now.
Same(c, kinds) == since[c] \cap kinds = {}
Current == Resolved(assigned.provider)

\* What a turn has read is so, as far as nothing of it has changed since.
TurnSeen ==
    LET me == caller["turn"] IN
    /\ me.at \in {"idle", "prompted", "captured"}
    /\ me.at = "prompted" /\ Same("turn", {"mode", "policy", "choice"}) => me.redact = Redacts(Current)
    /\ me.at # "idle" /\ Same("turn", {"mode", "choice"}) /\ ~Straying => me.model \in {Unset, Current}

\* And what a cleaning has read.
CleaningSeen ==
    LET me == caller["cleaning"] IN
    /\ me.at # "captured"
    /\ me.at \in {"prompted", "redacted", "resolved"} => me.provider \in Places
    /\ me.at \in {"prompted", "redacted"} /\ Same("cleaning", {"mode", "choice"}) => me.provider = Current
    /\ me.at \in {"asking", "resolved"} /\ Same("cleaning", {"mode", "choice"}) => Resolved(me.provider) = Current
    /\ me.at \in {"redacted", "asking", "resolved"} /\ Same("cleaning", {"mode", "policy", "choice"}) => me.redact = Redacts(Current)
    /\ me.at = "asking" /\ Same("cleaning", {"mode"}) => me.mode = dataMode
    /\ me.at = "asking" /\ Same("cleaning", {"mode", "choice"}) /\ ~Straying => me.model \in {Unset, Current}
    /\ me.at = "resolved" => me.model # Unset
    /\ me.at = "resolved" /\ Same("cleaning", {"mode"}) => Permits(dataMode, me.provider)
    /\ me.at = "resolved" /\ Same("cleaning", {"mode", "choice"}) /\ ~Straying => me.model = me.provider

\* The inductive invariant.
AccessInv == AccessTyped /\ ChoiceStands /\ KeysStand /\ TurnSeen /\ CleaningSeen /\ CallFits

\* Types, by the field.
LEMMA ReadingIs ==
    ASSUME AccessTyped, NEW c \in Callers
    PROVE  /\ caller[c] \in Reading /\ since[c] \in SUBSET Moved /\ caller[c].redact \in BOOLEAN /\ caller[c].key \in KeyVersions
           /\ caller[c].provider \in Places \cup {Unset} /\ caller[c].model \in Places \cup {Unset} /\ caller[c].mode \in Plans
BY DEF AccessTyped, Reading

\* The key that is in force is one.
LEMMA KeyIs == ASSUME AccessTyped, NEW p PROVE KeyOf(p) \in KeyVersions
BY DEF AccessTyped, KeyOf, KeyVersions, NoKey

\* There is always somewhere that calls would go now.
LEMMA CurrentIs ==
    ASSUME AccessTyped
    PROVE  /\ Current \in Places /\ assigned.provider \in Places \cup {Unset} /\ assigned.model \in Places \cup {Unset}
           /\ \A p \in Places : Resolved(p) = p /\ Resolved(Unset) = fallback
BY DEF AccessTyped, Current, Resolved, Places, Unset

\* A change: who is in the midst of a call has it among what has changed since.
LEMMA TouchIs ==
    ASSUME AccessTyped, NEW kind \in Moved, Touch(kind)
    PROVE  /\ since' \in [Callers -> SUBSET Moved]
           /\ \A c \in Callers : since'[c] = IF caller[c].at = "idle" THEN {} ELSE since[c] \cup {kind}
<1>1. since' = [c \in Callers |-> IF caller[c].at = "idle" THEN {} ELSE since[c] \cup {kind}]
  BY DEF Touch
<1>2. \A c \in Callers : since[c] \in SUBSET Moved
  BY DEF AccessTyped
<1> QED BY <1>1, <1>2

\* A change leaves what was read true, for it is now among what changed.
LEMMA SeenAfterTouch ==
    ASSUME AccessInv, NEW kind \in Moved, Touch(kind), caller' = caller,
           kind \in {"key", "policy"} => UNCHANGED <<dataMode, fallback, assigned, strayed, selecting>>,
           kind = "key" => UNCHANGED schemaOnly,
           kind = "choice" => UNCHANGED dataMode
    PROVE  TurnSeen' /\ CleaningSeen'
<1> USE DEF AccessInv
<1>1. \A c \in Callers : since'[c] = IF caller[c].at = "idle" THEN {} ELSE since[c] \cup {kind}
  BY TouchIs
<1>2. kind \in {"key", "policy"} => Current' = Current /\ Straying' = Straying
  BY DEF Current, Resolved, Straying
<1>3. kind = "key" => Redacts(Current)' = Redacts(Current)
  BY <1>2 DEF Redacts
<1>4. ASSUME NEW c \in Callers, caller[c].at # "idle"
      PROVE  /\ Same(c, {"mode", "policy", "choice"})' => kind = "key" /\ Same(c, {"mode", "policy", "choice"})
             /\ Same(c, {"mode", "choice"})' => kind \in {"key", "policy"} /\ Same(c, {"mode", "choice"})
             /\ Same(c, {"mode"})' => kind # "mode" /\ Same(c, {"mode"})
  <2>1. since'[c] = since[c] \cup {kind}
    BY <1>1, <1>4
  <2> QED BY <2>1 DEF Same, Moved
<1>5. "turn" \in Callers /\ "cleaning" \in Callers
  BY DEF Callers
<1>6. PICK t : t = caller["turn"]
  OBVIOUS
<1>7. TurnSeen'
  <2>1. t.at = "prompted" /\ Same("turn", {"mode", "policy", "choice"})' => t.redact = Redacts(Current)'
    BY <1>3, <1>4, <1>5, <1>6 DEF TurnSeen
  <2>2. t.at # "idle" /\ Same("turn", {"mode", "choice"})' /\ ~Straying' => t.model \in {Unset, Current'}
    BY <1>2, <1>4, <1>5, <1>6 DEF TurnSeen
  <2> QED BY <1>6, <2>1, <2>2 DEF TurnSeen
<1>8. PICK d : d = caller["cleaning"]
  OBVIOUS
<1>9. CleaningSeen'
  <2>1. d.at # "idle" /\ Same("cleaning", {"mode", "choice"})' => Current' = Current /\ Same("cleaning", {"mode", "choice"}) /\ Straying' = Straying
    BY <1>2, <1>4, <1>5, <1>8
  <2>2. d.at # "idle" /\ Same("cleaning", {"mode"})' => Same("cleaning", {"mode"}) /\ dataMode' = dataMode
    BY <1>4, <1>5, <1>8 DEF Moved
  <2>3. d.at # "idle" /\ Same("cleaning", {"mode", "policy", "choice"})' => Same("cleaning", {"mode", "policy", "choice"}) /\ Redacts(Current)' = Redacts(Current)
    BY <1>3, <1>4, <1>5, <1>8
  <2>4. d.at \in {"prompted", "redacted"} /\ Same("cleaning", {"mode", "choice"})' => d.provider = Current'
    BY <1>8, <2>1 DEF CleaningSeen
  <2>5. d.at \in {"asking", "resolved"} /\ Same("cleaning", {"mode", "choice"})' => Resolved(d.provider)' = Current'
    <3>1. d.at \in {"asking", "resolved"} /\ Same("cleaning", {"mode", "choice"})' => fallback' = fallback
      BY <1>4, <1>5, <1>8
    <3>2. d.at \in {"asking", "resolved"} /\ Same("cleaning", {"mode", "choice"})' => Resolved(d.provider)' = Resolved(d.provider)
      BY <3>1 DEF Resolved
    <3> QED BY <1>8, <2>1, <3>2 DEF CleaningSeen
  <2>6. d.at \in {"redacted", "asking", "resolved"} /\ Same("cleaning", {"mode", "policy", "choice"})' => d.redact = Redacts(Current)'
    BY <1>8, <2>3 DEF CleaningSeen
  <2>7. d.at = "asking" /\ Same("cleaning", {"mode"})' => d.mode = dataMode'
    BY <1>8, <2>2 DEF CleaningSeen
  <2>8. d.at = "asking" /\ Same("cleaning", {"mode", "choice"})' /\ ~Straying' => d.model \in {Unset, Current'}
    BY <1>8, <2>1 DEF CleaningSeen
  <2>9. d.at = "resolved" /\ Same("cleaning", {"mode"})' => Permits(dataMode', d.provider)
    BY <1>8, <2>2 DEF CleaningSeen
  <2>10. d.at = "resolved" /\ Same("cleaning", {"mode", "choice"})' /\ ~Straying' => d.model = d.provider
    BY <1>8, <2>1 DEF CleaningSeen
  <2>11. d.at # "captured" /\ (d.at \in {"prompted", "redacted", "resolved"} => d.provider \in Places) /\ (d.at = "resolved" => d.model # Unset)
    BY <1>8 DEF CleaningSeen
  <2>12. d = caller'["cleaning"]
    BY <1>8
  <2> QED BY <2>4, <2>5, <2>6, <2>7, <2>8, <2>9, <2>10, <2>11, <2>12 DEF CleaningSeen
<1> QED BY <1>7, <1>9

\* No call leaves.
LEMMA UnsentFits == ASSUME Unsent PROVE CallFits'
BY DEF Unsent, CallFits

\* A call that leaves, with what was read for it.
LEMMA SendIs ==
    ASSUME AccessInv, NEW c \in Callers, NEW redact \in BOOLEAN, NEW p \in Places, NEW model \in Places, NEW key \in KeyVersions,
           SendWith(c, redact, p, model, key), UNCHANGED <<keys, staleKey, forgetting>>,
           ~staleKey /\ ~forgetting => key = KeyOf(p),
           Permits(dataMode, p) \/ ~Same(c, {"mode"}),
           Redacts(p) => redact \/ ~Same(c, {"mode", "policy", "choice"}),
           model = p \/ Straying \/ ~Same(c, {"mode", "choice"})
    PROVE  /\ CallFits'
           /\ DOMAIN clients' \subseteq Places /\ \A m \in DOMAIN clients' : clients'[m] \in KeyVersions
           /\ ~staleKey /\ ~forgetting => \A m \in DOMAIN clients' : clients'[m] = KeyOf("cloud")
<1> USE DEF AccessInv
<1>1. PICK used : used = IF p = "cloud" /\ model \in DOMAIN clients THEN clients[model] ELSE key
  OBVIOUS
<1>2. clients' = IF p = "cloud" THEN [m \in DOMAIN clients \cup {model} |-> IF m = model THEN used ELSE clients[m]] ELSE clients
  BY <1>1 DEF SendWith
<1>3. used \in KeyVersions
  BY <1>1 DEF AccessTyped
<1>4. DOMAIN clients' \subseteq Places /\ \A m \in DOMAIN clients' : clients'[m] \in KeyVersions
  BY <1>2, <1>3 DEF AccessTyped
<1>5. ~staleKey /\ ~forgetting => used = KeyOf(p)
  BY <1>1 DEF KeysStand
<1>6. ~staleKey /\ ~forgetting => \A m \in DOMAIN clients' : clients'[m] = KeyOf("cloud")
  BY <1>2, <1>5 DEF KeysStand
<1>7. PICK i : i = issued'
  OBVIOUS
<1>8. PICK permitted, secret, straying, stale \in BOOLEAN :
        /\ permitted = Permits(dataMode, p) /\ secret = Redacts(p) /\ straying = Straying /\ stale = (staleKey \/ forgetting)
  <2>1. Permits(dataMode, p) \in BOOLEAN /\ Redacts(p) \in BOOLEAN /\ Straying \in BOOLEAN /\ (staleKey \/ forgetting) \in BOOLEAN
    BY DEF Permits, Redacts, Straying
  <2> QED BY <2>1
<1>9. i = [at |-> "sent", redacted |-> redact, provider |-> p, model |-> model, key |-> used, moved |-> since[c],
           permitted |-> permitted, secret |-> secret, current |-> KeyOf(p), straying |-> straying, stale |-> stale]
  BY <1>1, <1>7, <1>8, Zenon DEF SendWith, Straying
<1>10. /\ i.permitted \/ "mode" \in i.moved
       /\ i.secret => i.redacted \/ i.moved \cap {"mode", "policy", "choice"} # {}
       /\ i.model = i.provider \/ i.straying \/ i.moved \cap {"mode", "choice"} # {}
       /\ i.key = i.current \/ i.stale \/ "key" \in i.moved
  <2>1. i.permitted = permitted /\ i.secret = secret /\ i.redacted = redact /\ i.straying = straying /\ i.stale = stale
        /\ i.moved = since[c] /\ i.model = model /\ i.provider = p /\ i.key = used /\ i.current = KeyOf(p)
    BY <1>9
  <2>2. permitted \/ "mode" \in since[c]
    BY <1>8 DEF Same
  <2>3. secret => redact \/ since[c] \cap {"mode", "policy", "choice"} # {}
    BY <1>8 DEF Same
  <2>4. model = p \/ straying \/ since[c] \cap {"mode", "choice"} # {}
    BY <1>8 DEF Same
  <2>5. used = KeyOf(p) \/ stale
    BY <1>5, <1>8
  <2> QED BY <2>1, <2>2, <2>3, <2>4, <2>5
<1>11. CallFits'
  BY <1>7, <1>10 DEF CallFits
<1> QED BY <1>4, <1>6, <1>11

\* It holds at the start.
LEMMA AccessInitHolds == ASSUME AccessInit PROVE AccessInv
<1> USE DEF AccessInit
<1>1. caller \in [Callers -> Reading]
  BY DEF Reading, Idle, Plans, KeyVersions, NoKey
<1>2. AccessTyped
  <2>1. keys \in [settings : KeyVersions, stored : KeyVersions]
    BY DEF KeyVersions, NoKey
  <2>2. /\ assigned \in [provider : Places \cup {Unset}, model : Places \cup {Unset}]
        /\ selecting \in [provider : Places \cup {Unset}, checked : BOOLEAN]
    BY DEF NoSelection
  <2>3. moves \in 0..MaxMoves
    BY ModelAccessAssumption
  <2>4. DOMAIN clients = {}
    OBVIOUS
  <2>5. since \in [Callers -> SUBSET Moved]
    OBVIOUS
  <2> QED BY <1>1, <2>1, <2>2, <2>3, <2>4, <2>5 DEF AccessTyped
<1>3. ChoiceStands
  BY DEF ChoiceStands
<1>4. \A c \in Callers : caller[c].at = "idle"
  BY DEF Idle
<1>5. KeysStand
  BY <1>4 DEF KeysStand, Callers
<1>6. TurnSeen /\ CleaningSeen
  BY <1>4 DEF TurnSeen, CleaningSeen, Callers
<1>7. CallFits
  BY DEF CallFits
<1> QED BY <1>2, <1>3, <1>5, <1>6, <1>7 DEF AccessInv

\* What a caller has read stays true while nothing of it changes, whatever the other does.
LEMMA TurnStands ==
    ASSUME AccessInv, UNCHANGED <<policyVars, choiceVars>>, caller'["turn"] = caller["turn"], since'["turn"] = since["turn"]
    PROVE  TurnSeen'
<1>1. UNCHANGED <<dataMode, schemaOnly, fallback, assigned, selecting, strayed>>
  BY DEF policyVars, choiceVars
<1>2. Current' = Current /\ Redacts(Current)' = Redacts(Current) /\ Straying' = Straying
  BY <1>1 DEF Current, Resolved, Redacts, Straying
<1> QED BY <1>2 DEF AccessInv, TurnSeen, Same

\* What does not move stays true: of a cleaning,
LEMMA CleaningStands ==
    ASSUME AccessInv, UNCHANGED <<policyVars, choiceVars>>, caller'["cleaning"] = caller["cleaning"], since'["cleaning"] = since["cleaning"]
    PROVE  CleaningSeen'
<1>1. UNCHANGED <<dataMode, schemaOnly, fallback, assigned, selecting, strayed>>
  BY DEF policyVars, choiceVars
<1>2. Current' = Current /\ Redacts(Current)' = Redacts(Current) /\ Straying' = Straying
  BY <1>1 DEF Current, Resolved, Redacts, Straying
<1>3. \A p : Resolved(p)' = Resolved(p)
  BY <1>1 DEF Resolved
<1> QED BY <1>1, <1>2, <1>3 DEF AccessInv, CleaningSeen, Same

\* of the choice,
LEMMA ChoiceStays ==
    ASSUME AccessInv, UNCHANGED <<dataMode, assigned, selecting, strayed>>
    PROVE  ChoiceStands'
BY DEF AccessInv, ChoiceStands

\* of the keys,
LEMMA KeysStay ==
    ASSUME AccessInv, UNCHANGED <<keyVars, clients>>, caller'["cleaning"] = caller["cleaning"]
    PROVE  KeysStand'
<1>1. UNCHANGED <<keys, forgetting, staleKey>>
  BY DEF keyVars
<1>2. \A p : KeyOf(p)' = KeyOf(p)
  BY <1>1 DEF KeyOf
<1> QED BY <1>1, <1>2 DEF AccessInv, KeysStand

\* With the clients cleared, what stays stale is the key that a cleaning is about to use.
LEMMA ClearedIs ==
    ASSUME AccessInv, Cleared, UNCHANGED <<keys, caller>>
    PROVE  /\ DOMAIN clients' \subseteq Places /\ \A m \in DOMAIN clients' : clients'[m] \in KeyVersions
           /\ staleKey' \in BOOLEAN /\ KeysStand'
<1>1. DOMAIN clients' = {}
  BY DEF Cleared
<1>2. PICK p : p = caller["cleaning"].provider
  OBVIOUS
<1>3. PICK k : k = KeyOf(p)
  OBVIOUS
<1>4. KeyOf(p)' = k
  BY <1>3 DEF KeyOf
<1>5. staleKey' = (caller["cleaning"].at = "resolved" /\ caller["cleaning"].key # k)
  BY <1>2, <1>3 DEF Cleared
<1>6. KeysStand'
  BY <1>1, <1>2, <1>4, <1>5 DEF KeysStand
<1> QED BY <1>1, <1>5, <1>6

\* and the bound on changes.
LEMMA MovesStay == ASSUME AccessTyped, moves < MaxMoves, moves' = moves + 1 PROVE moves' \in 0..MaxMoves
BY ModelAccessAssumption DEF AccessTyped

\* The changes.
LEMMA ModelChangeStep ==
    ASSUME AccessInv,
           \/ \E mode \in Plans : SwitchPlan(mode)
           \/ SetSchemaOnly \/ PatchKey
           \/ \E removed \in BOOLEAN : StoreKey(removed)
           \/ \E p \in Places : SetFallback(p) \/ Select(p) \/ SelectBeside(p)
    PROVE  AccessInv'
<1> USE DEF AccessInv
<1>0. /\ dataMode \in Plans /\ fallback \in Places
      /\ schemaOnly \in BOOLEAN /\ forgetting \in BOOLEAN /\ strayed \in BOOLEAN /\ staleKey \in BOOLEAN
      /\ assigned \in [provider : Places \cup {Unset}, model : Places \cup {Unset}]
      /\ selecting \in [provider : Places \cup {Unset}, checked : BOOLEAN]
      /\ keys \in [settings : KeyVersions, stored : KeyVersions]
      /\ assigned = [provider |-> assigned.provider, model |-> assigned.model]
      /\ assigned.provider \in Places \cup {Unset} /\ assigned.model \in Places \cup {Unset}
  BY DEF AccessTyped
<1>1. ASSUME NEW kind \in Moved, Move(kind) PROVE moves' \in 0..MaxMoves /\ since' \in [Callers -> SUBSET Moved] /\ Touch(kind) /\ CallFits'
  BY <1>1, MovesStay, TouchIs, UnsentFits DEF Move
<1>2. ASSUME NEW mode \in Plans, SwitchPlan(mode) PROVE AccessInv'
  <2>1. /\ Move("mode") /\ dataMode' = mode
        /\ UNCHANGED <<schemaOnly, fallback, selecting, keyVars, clients, caller>>
        /\ strayed' = (strayed \/ selecting # NoSelection)
        /\ assigned' = IF assigned.provider # Unset /\ ~Permits(mode, assigned.provider) THEN [provider |-> Unset, model |-> Unset] ELSE assigned
    BY <1>2 DEF SwitchPlan
  <2>2. "mode" \in Moved
    BY DEF Moved
  <2>3. moves' \in 0..MaxMoves /\ since' \in [Callers -> SUBSET Moved] /\ Touch("mode") /\ CallFits'
    BY <1>1, <2>1, <2>2
  <2>4. TurnSeen' /\ CleaningSeen'
    BY <2>1, <2>2, <2>3, SeenAfterTouch
  <2>5. KeysStand'
    BY <2>1, KeysStay
  <2>6. assigned' \in [provider : Places \cup {Unset}, model : Places \cup {Unset}]
    BY <1>0, <2>1
  <2>7. AccessTyped'
    BY <1>0, <2>1, <2>3, <2>6 DEF AccessTyped, keyVars
  <2>8. ChoiceStands'
    <3>1. SUFFICES ASSUME ~strayed', selecting = NoSelection, ~strayed
                   PROVE  /\ assigned'.provider # Unset => Permits(mode, assigned'.provider)
                          /\ assigned'.model # Unset => assigned'.model = assigned'.provider
      BY <1>0, <2>1 DEF ChoiceStands
    <3>2. assigned.model # Unset => assigned.model = assigned.provider
      BY <3>1 DEF ChoiceStands
    <3> QED BY <2>1, <3>2
  <2> QED BY <2>3, <2>4, <2>5, <2>7, <2>8
<1>3. CASE SetSchemaOnly
  <2>1. /\ Move("policy") /\ schemaOnly' = ~schemaOnly
        /\ UNCHANGED <<dataMode, fallback, choiceVars, keyVars, clients, caller>>
    BY <1>3 DEF SetSchemaOnly
  <2>2. "policy" \in Moved /\ UNCHANGED <<assigned, selecting, strayed>> /\ UNCHANGED <<keys, forgetting, staleKey>>
    BY <2>1 DEF Moved, choiceVars, keyVars
  <2>3. moves' \in 0..MaxMoves /\ since' \in [Callers -> SUBSET Moved] /\ Touch("policy") /\ CallFits'
    BY <1>1, <2>1, <2>2
  <2>4. TurnSeen' /\ CleaningSeen'
    BY <2>1, <2>2, <2>3, SeenAfterTouch
  <2>5. KeysStand' /\ ChoiceStands'
    BY <2>1, <2>2, KeysStay, ChoiceStays
  <2>6. AccessTyped'
    BY <1>0, <2>1, <2>2, <2>3 DEF AccessTyped
  <2> QED BY <2>3, <2>4, <2>5, <2>6
<1>4. CASE PatchKey
  <2>1. /\ Move("key") /\ staleKey' = TRUE /\ UNCHANGED <<policyVars, choiceVars, forgetting, clients, caller>>
    BY <1>4 DEF PatchKey
  <2>2. "key" \in Moved /\ UNCHANGED <<dataMode, schemaOnly, fallback, assigned, selecting, strayed>>
    BY <2>1 DEF Moved, choiceVars, policyVars
  <2>3. moves' \in 0..MaxMoves /\ since' \in [Callers -> SUBSET Moved] /\ Touch("key") /\ CallFits'
    BY <1>1, <2>1, <2>2
  <2>4. TurnSeen' /\ CleaningSeen'
    BY <2>1, <2>2, <2>3, SeenAfterTouch
  <2>5. KeysStand' /\ ChoiceStands'
    BY <2>1, <2>2, ChoiceStays DEF KeysStand
  <2>6. keys' \in [settings : KeyVersions, stored : KeyVersions]
    BY <1>4 DEF PatchKey, NewKeys, KeyVersions
  <2>7. AccessTyped'
    BY <1>0, <2>1, <2>2, <2>3, <2>6 DEF AccessTyped
  <2> QED BY <2>3, <2>4, <2>5, <2>7
<1>5. ASSUME NEW removed \in BOOLEAN, StoreKey(removed) PROVE AccessInv'
  <2>1. /\ Move("key") /\ forgetting' = TRUE /\ UNCHANGED <<policyVars, choiceVars, staleKey, clients, caller>>
    BY <1>5 DEF StoreKey
  <2>2. "key" \in Moved /\ UNCHANGED <<dataMode, schemaOnly, fallback, assigned, selecting, strayed>>
    BY <2>1 DEF Moved, choiceVars, policyVars
  <2>3. moves' \in 0..MaxMoves /\ since' \in [Callers -> SUBSET Moved] /\ Touch("key") /\ CallFits'
    BY <1>1, <2>1, <2>2
  <2>4. TurnSeen' /\ CleaningSeen'
    BY <2>1, <2>2, <2>3, SeenAfterTouch
  <2>5. KeysStand' /\ ChoiceStands'
    BY <2>1, <2>2, ChoiceStays DEF KeysStand
  <2>6. PICK k \in KeyVersions : keys' = [keys EXCEPT !.stored = k]
    BY <1>5 DEF StoreKey, NewKeys, KeyVersions, NoKey
  <2>7. keys' \in [settings : KeyVersions, stored : KeyVersions]
    BY <1>0, <2>6
  <2>8. AccessTyped'
    BY <1>0, <2>1, <2>2, <2>3, <2>7 DEF AccessTyped
  <2> QED BY <2>3, <2>4, <2>5, <2>8
<1>6. ASSUME NEW p \in Places, SetFallback(p) PROVE AccessInv'
  <2>1. /\ Move("choice") /\ fallback' = p
        /\ UNCHANGED <<dataMode, schemaOnly, choiceVars, keyVars, clients, caller>>
    BY <1>6 DEF SetFallback
  <2>2. "choice" \in Moved /\ UNCHANGED <<assigned, selecting, strayed>> /\ UNCHANGED <<keys, forgetting, staleKey>>
    BY <2>1 DEF Moved, choiceVars, keyVars
  <2>3. moves' \in 0..MaxMoves /\ since' \in [Callers -> SUBSET Moved] /\ Touch("choice") /\ CallFits'
    BY <1>1, <2>1, <2>2
  <2>4. TurnSeen' /\ CleaningSeen'
    BY <2>1, <2>2, <2>3, SeenAfterTouch
  <2>5. KeysStand' /\ ChoiceStands'
    BY <2>1, <2>2, KeysStay, ChoiceStays
  <2>6. AccessTyped'
    BY <1>0, <2>1, <2>2, <2>3 DEF AccessTyped
  <2> QED BY <2>3, <2>4, <2>5, <2>6
<1>7. ASSUME NEW p \in Places, Select(p) PROVE AccessInv'
  <2>1. /\ Permits(dataMode, p) /\ selecting = NoSelection /\ Move("choice") /\ UNCHANGED <<policyVars, keys, forgetting, caller>>
    BY <1>7 DEF Select
  <2>2. "choice" \in Moved /\ UNCHANGED <<dataMode, schemaOnly, fallback>> /\ p # Unset
    BY <2>1 DEF Moved, policyVars, Places, Unset
  <2>3. moves' \in 0..MaxMoves /\ since' \in [Callers -> SUBSET Moved] /\ Touch("choice") /\ CallFits'
    BY <1>1, <2>1, <2>2
  <2>4. TurnSeen' /\ CleaningSeen'
    BY <2>1, <2>2, <2>3, SeenAfterTouch
  <2>5. CASE assigned' = [provider |-> p, model |-> p] /\ strayed' = FALSE /\ Cleared /\ UNCHANGED selecting
    <3>1. DOMAIN clients' \subseteq Places /\ (\A m \in DOMAIN clients' : clients'[m] \in KeyVersions) /\ staleKey' \in BOOLEAN /\ KeysStand'
      BY <2>1, <2>5, ClearedIs
    <3>2. AccessTyped'
      BY <1>0, <2>1, <2>2, <2>3, <2>5, <3>1 DEF AccessTyped
    <3>3. ChoiceStands'
      BY <2>1, <2>2, <2>5 DEF ChoiceStands
    <3> QED BY <2>3, <2>4, <3>1, <3>2, <3>3
  <2>6. CASE /\ assigned' = [assigned EXCEPT !.provider = p]
             /\ selecting' = [provider |-> p, checked |-> FALSE]
             /\ UNCHANGED <<strayed, clients, staleKey>>
    <3>1. KeysStand'
      BY <2>1, <2>6, KeysStay DEF keyVars
    <3>2. AccessTyped'
      BY <1>0, <2>1, <2>2, <2>3, <2>6 DEF AccessTyped
    <3>3. ChoiceStands'
      BY <1>0, <2>1, <2>2, <2>6 DEF ChoiceStands, NoSelection
    <3> QED BY <2>3, <2>4, <3>1, <3>2, <3>3
  <2>7. CASE selecting' = [provider |-> p, checked |-> TRUE] /\ UNCHANGED <<assigned, strayed, clients, staleKey>>
    <3>1. KeysStand'
      BY <2>1, <2>7, KeysStay DEF keyVars
    <3>2. AccessTyped'
      BY <1>0, <2>1, <2>2, <2>3, <2>7 DEF AccessTyped
    <3>3. ChoiceStands'
      BY <1>0, <2>1, <2>2, <2>7 DEF ChoiceStands, NoSelection
    <3> QED BY <2>3, <2>4, <3>1, <3>2, <3>3
  <2> QED BY <1>7, <2>5, <2>6, <2>7 DEF Select
<1>8. ASSUME NEW p \in Places, SelectBeside(p) PROVE AccessInv'
  <2>1. /\ Move("choice") /\ assigned' = [provider |-> p, model |-> p] /\ strayed' = TRUE /\ Cleared
        /\ UNCHANGED <<policyVars, selecting, keys, forgetting, caller>>
    BY <1>8 DEF SelectBeside
  <2>2. "choice" \in Moved /\ UNCHANGED <<dataMode, schemaOnly, fallback>>
    BY <2>1 DEF Moved, policyVars
  <2>3. moves' \in 0..MaxMoves /\ since' \in [Callers -> SUBSET Moved] /\ Touch("choice") /\ CallFits'
    BY <1>1, <2>1, <2>2
  <2>4. TurnSeen' /\ CleaningSeen'
    BY <2>1, <2>2, <2>3, SeenAfterTouch
  <2>5. DOMAIN clients' \subseteq Places /\ (\A m \in DOMAIN clients' : clients'[m] \in KeyVersions) /\ staleKey' \in BOOLEAN /\ KeysStand'
    BY <2>1, ClearedIs
  <2>6. AccessTyped'
    BY <1>0, <2>1, <2>2, <2>3, <2>5 DEF AccessTyped
  <2>7. ChoiceStands'
    BY <2>1 DEF ChoiceStands
  <2> QED BY <2>3, <2>4, <2>5, <2>6, <2>7
<1> QED BY <1>2, <1>3, <1>4, <1>5, <1>6, <1>7, <1>8

\* The ends of what waited.
LEMMA LateStep == ASSUME AccessInv, KeyStored \/ Selected PROVE AccessInv'
<1> USE DEF AccessInv
<1>1. CASE KeyStored
  <2>1. /\ forgetting' = FALSE /\ Cleared /\ Unsent /\ UNCHANGED <<policyVars, choiceVars, keys, caller, since, moves>>
    BY <1>1 DEF KeyStored
  <2>2. DOMAIN clients' \subseteq Places /\ (\A m \in DOMAIN clients' : clients'[m] \in KeyVersions) /\ staleKey' \in BOOLEAN /\ KeysStand'
    BY <2>1, ClearedIs
  <2>3. UNCHANGED <<dataMode, schemaOnly, fallback, assigned, selecting, strayed>>
    BY <2>1 DEF policyVars, choiceVars
  <2>4. AccessTyped'
    BY <2>1, <2>2, <2>3 DEF AccessTyped
  <2> QED BY <2>1, <2>2, <2>3, <2>4, TurnStands, CleaningStands, ChoiceStays, UnsentFits
<1>2. CASE Selected
  <2>1. /\ selecting # NoSelection /\ selecting' = NoSelection /\ Touch("choice") /\ Cleared /\ Unsent
        /\ UNCHANGED <<policyVars, strayed, keys, forgetting, caller, moves>>
    BY <1>2 DEF Selected
  <2>2. PICK m \in Suggested(selecting.provider) :
        assigned' = IF selecting.checked
                    THEN [provider |-> selecting.provider, model |-> selecting.provider]
                    ELSE [assigned EXCEPT !.model = m]
    BY <1>2 DEF Selected
  <2>3. "choice" \in Moved /\ UNCHANGED <<dataMode, schemaOnly, fallback>>
    BY <2>1 DEF Moved, policyVars
  <2>4. since' \in [Callers -> SUBSET Moved] /\ CallFits'
    BY <2>1, <2>3, TouchIs, UnsentFits
  <2>5. TurnSeen' /\ CleaningSeen'
    BY <2>1, <2>3, SeenAfterTouch
  <2>6. DOMAIN clients' \subseteq Places /\ (\A n \in DOMAIN clients' : clients'[n] \in KeyVersions) /\ staleKey' \in BOOLEAN /\ KeysStand'
    BY <2>1, ClearedIs
  <2>7. selecting.provider \in Places \cup {Unset} /\ selecting.checked \in BOOLEAN /\ m \in {selecting.provider, Unset}
        /\ assigned \in [provider : Places \cup {Unset}, model : Places \cup {Unset}]
    BY <2>2 DEF AccessTyped, Suggested
  <2>8. assigned' \in [provider : Places \cup {Unset}, model : Places \cup {Unset}]
    BY <2>2, <2>7
  <2>9. NoSelection \in [provider : Places \cup {Unset}, checked : BOOLEAN]
    BY DEF NoSelection
  <2>10. AccessTyped'
    BY <2>1, <2>3, <2>4, <2>6, <2>8, <2>9 DEF AccessTyped
  <2>11. ChoiceStands'
    <3>1. SUFFICES ASSUME ~strayed
                   PROVE  /\ assigned'.provider # Unset => Permits(dataMode, assigned'.provider)
                          /\ assigned'.model # Unset => assigned'.model = assigned'.provider
      BY <2>1, <2>3 DEF ChoiceStands
    <3>2. selecting.provider # Unset /\ Permits(dataMode, selecting.provider) /\ (~selecting.checked => assigned.provider = selecting.provider)
      BY <2>1, <3>1 DEF ChoiceStands
    <3> QED BY <2>2, <2>7, <3>2
  <2> QED BY <2>4, <2>5, <2>6, <2>10, <2>11
<1> QED BY <1>1, <1>2

\* A caller that moves on alone: what it reads is of its kind, and the other stands.
LEMMA CallerIs ==
    ASSUME AccessTyped, NEW c \in Callers, NEW me \in Reading, caller' = [caller EXCEPT ![c] = me]
    PROVE  /\ caller' \in [Callers -> Reading] /\ caller'[c] = me /\ \A o \in Callers \ {c} : caller'[o] = caller[o]
BY DEF AccessTyped

\* One that begins has read all anew.
LEMMA AnewIs ==
    ASSUME AccessTyped, NEW c \in Callers, since' = [since EXCEPT ![c] = {}]
    PROVE  since' \in [Callers -> SUBSET Moved] /\ \A o \in Callers \ {c} : since'[o] = since[o]
<1>1. PICK f \in [Callers -> SUBSET Moved] : f = since
  BY DEF AccessTyped
<1>2. PICK g : g = since'
  OBVIOUS
<1>3. g = [f EXCEPT ![c] = {}]
  BY <1>1, <1>2
<1>4. g \in [Callers -> SUBSET Moved] /\ \A o \in Callers \ {c} : g[o] = f[o]
  BY ONLY <1>3, f \in [Callers -> SUBSET Moved]
<1> QED BY <1>1, <1>2, <1>4

\* What turns do.
LEMMA ModelTurnStep == ASSUME AccessInv, Converse \/ Analyse \/ TurnCalls \/ TurnLeaves PROVE AccessInv'
<1> USE DEF AccessInv
<1>0. /\ UNCHANGED <<policyVars, choiceVars, keyVars, moves>>
      /\ UNCHANGED <<dataMode, schemaOnly, fallback, assigned, selecting, strayed, keys, forgetting, staleKey>>
  BY DEF Converse, Analyse, TurnCalls, TurnLeaves, policyVars, choiceVars, keyVars
<1>1. Current' = Current /\ Redacts(Current)' = Redacts(Current) /\ Straying' = Straying /\ Redacts(Current) \in BOOLEAN
  BY <1>0 DEF Current, Resolved, Redacts, Straying
<1>2. "turn" \in Callers /\ "cleaning" \in Callers /\ Idle \in Reading /\ Idle.at = "idle"
  BY DEF Callers, Idle, Reading, Plans, KeyVersions, NoKey
<1>3. ChoiceStands'
  BY <1>0, ChoiceStays
<1>4. PICK t : t = caller["turn"]
  OBVIOUS
<1>5. t \in Reading /\ t.redact \in BOOLEAN /\ t.model \in Places \cup {Unset}
  BY <1>2, <1>4, ReadingIs
<1>6. ASSUME NEW m \in Captures, NEW me, me.model = m PROVE m \in Places \cup {Unset} /\ (~Straying => m \in {Unset, Current})
  <2>1. /\ Current \in Places /\ assigned.provider \in Places \cup {Unset} /\ assigned.model \in Places \cup {Unset}
        /\ \A p \in Places : Resolved(p) = p
    BY CurrentIs
  <2>2. CASE assigned.model = Unset
    BY <2>1, <2>2 DEF Captures, Suggested, Current
  <2>3. CASE assigned.model # Unset
    <3>1. m = assigned.model
      BY <2>3 DEF Captures
    <3>2. ~Straying => assigned.model = assigned.provider
      BY <2>3 DEF Straying, ChoiceStands
    <3> QED BY <2>1, <2>3, <3>1, <3>2 DEF Current
  <2> QED BY <2>2, <2>3
<1>7. CASE Converse \/ Analyse
  <2>1. Unsent /\ UNCHANGED clients /\ since' = [since EXCEPT !["turn"] = {}]
    BY ZenonT(60), <1>7 DEF Converse, Analyse
  <2>2. PICK m \in Captures :
        \/ caller' = [caller EXCEPT !["turn"] = [Idle EXCEPT !.at = "prompted", !.redact = Redacts(Current), !.model = m]]
        \/ caller' = [caller EXCEPT !["turn"] = [Idle EXCEPT !.at = "captured", !.model = m]]
    <3>1. CASE Converse
      BY <3>1 DEF Converse, Current
    <3>2. CASE Analyse
      BY <3>2 DEF Analyse
    <3> QED BY <1>7, <3>1, <3>2
  <2>3. m \in Places \cup {Unset} /\ (~Straying => m \in {Unset, Current})
    <3>1. PICK it : it = [model |-> m]
      OBVIOUS
    <3> QED BY <1>6, <3>1
  <2>4. PICK me \in Reading :
        /\ caller' = [caller EXCEPT !["turn"] = me]
        /\ me.at \in {"prompted", "captured"} /\ me.model = m
        /\ me.at = "prompted" => me.redact = Redacts(Current)
    <3>1. PICK b \in BOOLEAN : b = Redacts(Current)
      BY <1>1
    <3>2. PICK x : x = [Idle EXCEPT !.at = "prompted", !.redact = b, !.model = m]
      OBVIOUS
    <3>3. PICK y : y = [Idle EXCEPT !.at = "captured", !.model = m]
      OBVIOUS
    <3>4. x \in Reading /\ x.at = "prompted" /\ x.model = m /\ x.redact = b
      BY <1>2, <2>3, <3>2 DEF Idle, Reading
    <3>5. y \in Reading /\ y.at = "captured" /\ y.model = m
      BY <1>2, <2>3, <3>3 DEF Idle, Reading
    <3> QED BY <2>2, <3>1, <3>2, <3>3, <3>4, <3>5
  <2>5. caller' \in [Callers -> Reading] /\ caller'["turn"] = me /\ caller'["cleaning"] = caller["cleaning"]
    <3>1. "cleaning" \in Callers \ {"turn"}
      BY DEF Callers
    <3> QED BY <1>2, <2>4, <3>1, CallerIs
  <2>6. since' \in [Callers -> SUBSET Moved] /\ since'["cleaning"] = since["cleaning"]
    <3>1. "cleaning" \in Callers \ {"turn"}
      BY DEF Callers
    <3> QED BY <1>2, <2>1, <3>1, AnewIs
  <2>7. AccessTyped'
    BY <1>0, <2>1, <2>5, <2>6 DEF AccessTyped
  <2>8. TurnSeen'
    <3>1. me.at = "prompted" => me.redact = Redacts(Current)'
      BY <1>1, <2>4
    <3>2. ~Straying' => me.model \in {Unset, Current'}
      BY <1>1, <2>3, <2>4
    <3> QED BY <2>4, <2>5, <3>1, <3>2 DEF TurnSeen
  <2>9. CleaningSeen' /\ KeysStand' /\ CallFits'
    BY <1>0, <2>1, <2>5, <2>6, CleaningStands, KeysStay, UnsentFits
  <2> QED BY <1>3, <2>7, <2>8, <2>9
<1>8. CASE TurnCalls
  <2>1. UNCHANGED since /\ caller' \in {caller, [caller EXCEPT !["turn"] = Idle]}
    BY <1>8 DEF TurnCalls
  <2>2. caller' \in [Callers -> Reading] /\ caller'["turn"] \in {t, Idle} /\ caller'["cleaning"] = caller["cleaning"]
    BY <1>2, <1>4, <2>1, CallerIs DEF AccessTyped
  <2>3. PICK redact : /\ Call("turn", redact, assigned.provider, ModelOfTurn, dataMode)
                      /\ redact \in BOOLEAN
                      /\ Redacts(Current) => redact \/ ~Same("turn", {"mode", "policy", "choice"})
                      /\ t.at # "idle"
    <3>1. CASE t.at = "prompted"
      <4>1. Call("turn", t.redact, assigned.provider, ModelOfTurn, dataMode)
        BY <1>4, <1>8, <3>1 DEF TurnCalls
      <4>2. Redacts(Current) => t.redact \/ ~Same("turn", {"mode", "policy", "choice"})
        BY <1>4, <3>1 DEF TurnSeen
      <4> QED BY <1>5, <3>1, <4>1, <4>2
    <3>2. CASE t.at = "captured"
      <4>1. Call("turn", Redacts(Current), assigned.provider, ModelOfTurn, dataMode)
        BY <1>4, <1>8, <3>2 DEF TurnCalls, Current
      <4> QED BY <1>1, <3>2, <4>1
    <3> QED BY <1>4, <1>8, <3>1, <3>2 DEF TurnCalls
  <2>4. PICK p \in Places : p = Current
    BY CurrentIs
  <2>5. PICK m \in IF ModelOfTurn = Unset THEN Suggested(p) ELSE {ModelOfTurn} :
            IF Permits(dataMode, p) /\ m # Unset THEN SendWith("turn", redact, p, m, KeyOf(p)) ELSE GivesUp
    BY <2>3, <2>4 DEF Call, Current
  <2>6. m # Unset => m \in Places
    <3>1. ModelOfTurn \in Places \cup {Unset}
      BY <1>4, <1>5, CurrentIs DEF ModelOfTurn
    <3> QED BY <2>4, <2>5, <3>1 DEF Suggested
  <2>7. m # Unset => m = p \/ Straying \/ ~Same("turn", {"mode", "choice"})
    <3>1. SUFFICES ASSUME m # Unset, ~Straying, Same("turn", {"mode", "choice"}) PROVE m = p
      OBVIOUS
    <3>2. t.model \in {Unset, p}
      BY <1>4, <2>3, <2>4, <3>1 DEF TurnSeen
    <3>3. assigned.model # Unset => assigned.model = p
      <4>1. assigned.model # Unset => assigned.model = assigned.provider
        BY <3>1 DEF Straying, ChoiceStands
      <4> QED BY <2>4, <4>1, CurrentIs DEF Current
    <3>4. ModelOfTurn \in {Unset, p}
      BY <1>4, <3>2, <3>3 DEF ModelOfTurn
    <3> QED BY <2>5, <3>1, <3>4 DEF Suggested
  <2>8. /\ CallFits'
        /\ DOMAIN clients' \subseteq Places /\ \A n \in DOMAIN clients' : clients'[n] \in KeyVersions
        /\ ~staleKey /\ ~forgetting => \A n \in DOMAIN clients' : clients'[n] = KeyOf("cloud")
    <3>1. CASE Permits(dataMode, p) /\ m # Unset
      <4>1. SendWith("turn", redact, p, m, KeyOf(p)) /\ KeyOf(p) \in KeyVersions /\ m \in Places
        BY <2>5, <2>6, <3>1, KeyIs
      <4>2. (Redacts(p) => redact \/ ~Same("turn", {"mode", "policy", "choice"})) /\ redact \in BOOLEAN
        BY <2>3, <2>4
      <4>3. m = p \/ Straying \/ ~Same("turn", {"mode", "choice"})
        BY <2>7, <3>1
      <4> QED BY <1>0, <1>2, <3>1, <4>1, <4>2, <4>3, SendIs
    <3>2. CASE ~(Permits(dataMode, p) /\ m # Unset)
      <4>1. UNCHANGED clients /\ Unsent
        BY <2>5, <3>2 DEF GivesUp
      <4> QED BY <4>1, UnsentFits DEF AccessTyped, KeysStand
    <3> QED BY <3>1, <3>2
  <2>9. AccessTyped'
    BY <1>0, <2>1, <2>2, <2>8 DEF AccessTyped
  <2>10. TurnSeen'
    BY <1>1, <1>2, <1>4, <2>1, <2>2 DEF TurnSeen, Same
  <2>11. CleaningSeen'
    BY <1>0, <2>1, <2>2, CleaningStands
  <2>12. KeysStand'
    <3>1. \A q : KeyOf(q)' = KeyOf(q)
      BY <1>0 DEF KeyOf
    <3> QED BY <1>0, <2>2, <2>8, <3>1 DEF KeysStand
  <2> QED BY <1>3, <2>8, <2>9, <2>10, <2>11, <2>12
<1>9. CASE TurnLeaves
  <2>1. Unsent /\ UNCHANGED <<clients, since>> /\ caller' = [caller EXCEPT !["turn"] = Idle]
    BY <1>9 DEF TurnLeaves
  <2>2. caller' \in [Callers -> Reading] /\ caller'["turn"] = Idle /\ caller'["cleaning"] = caller["cleaning"]
    BY <1>2, <2>1, CallerIs
  <2>3. AccessTyped'
    BY <1>0, <2>1, <2>2 DEF AccessTyped
  <2>4. TurnSeen'
    BY <1>2, <2>2 DEF TurnSeen
  <2>5. CleaningSeen' /\ KeysStand' /\ CallFits'
    BY <1>0, <2>1, <2>2, CleaningStands, KeysStay, UnsentFits
  <2> QED BY <1>3, <2>3, <2>4, <2>5
<1> QED BY <1>7, <1>8, <1>9

\* What a cleaning does.
LEMMA CleaningStep ==
    ASSUME AccessInv, CleaningReads \/ CleaningRedacts \/ CleaningAsks \/ CleaningResolves \/ CleaningCalls
    PROVE  AccessInv'
<1> USE DEF AccessInv
<1>0. /\ UNCHANGED <<policyVars, choiceVars, keyVars, moves>>
      /\ UNCHANGED <<dataMode, schemaOnly, fallback, assigned, selecting, strayed, keys, forgetting, staleKey>>
  BY DEF CleaningReads, CleaningRedacts, CleaningAsks, CleaningResolves, CleaningCalls, policyVars, choiceVars, keyVars
<1>1. /\ Current' = Current /\ Redacts(Current)' = Redacts(Current) /\ Straying' = Straying /\ Redacts(Current) \in BOOLEAN
      /\ \A p : Resolved(p)' = Resolved(p) /\ KeyOf(p)' = KeyOf(p) /\ Redacts(p) \in BOOLEAN
  BY <1>0 DEF Current, Resolved, Redacts, Straying, KeyOf
<1>2. "turn" \in Callers /\ "cleaning" \in Callers /\ Idle \in Reading /\ Idle.at = "idle"
  BY DEF Callers, Idle, Reading, Plans, KeyVersions, NoKey
<1>3. ChoiceStands'
  BY <1>0, ChoiceStays
<1>4. PICK d : d = caller["cleaning"]
  OBVIOUS
<1>5. /\ d \in Reading /\ d.redact \in BOOLEAN /\ d.key \in KeyVersions /\ d.mode \in Plans
      /\ d.provider \in Places \cup {Unset} /\ d.model \in Places \cup {Unset}
  BY <1>2, <1>4, ReadingIs
<1>6. /\ Current \in Places /\ assigned.provider \in Places \cup {Unset} /\ assigned.model \in Places \cup {Unset}
      /\ \A p \in Places : Resolved(p) = p
      /\ Resolved(Unset) \in Places
  BY CurrentIs DEF AccessTyped
\* One step of it for all: what it has read is typed and true, and the turn stands.
<1>7. ASSUME NEW me \in Reading, caller' = [caller EXCEPT !["cleaning"] = me], CleaningSeen', KeysStand', CallFits',
             since' \in [Callers -> SUBSET Moved], since'["turn"] = since["turn"],
             DOMAIN clients' \subseteq Places, \A n \in DOMAIN clients' : clients'[n] \in KeyVersions
      PROVE  AccessInv'
  <2>1. caller' \in [Callers -> Reading] /\ caller'["turn"] = caller["turn"]
    BY <1>2, <1>7, CallerIs
  <2>2. TurnSeen'
    BY <1>0, <1>7, <2>1, TurnStands
  <2>3. AccessTyped'
    BY <1>0, <1>7, <2>1 DEF AccessTyped
  <2> QED BY <1>3, <1>7, <2>2, <2>3
<1>8. ASSUME NEW me \in Reading, caller' = [caller EXCEPT !["cleaning"] = me] PROVE caller'["cleaning"] = me
  BY <1>2, <1>8 DEF AccessTyped
<1>9. CASE CleaningReads
  <2>1. Unsent /\ UNCHANGED clients /\ since' = [since EXCEPT !["cleaning"] = {}]
    BY <1>9 DEF CleaningReads
  <2>2. PICK me : me = [Idle EXCEPT !.at = "prompted", !.provider = Current]
    OBVIOUS
  <2>3. caller' = [caller EXCEPT !["cleaning"] = me]
    BY <1>9, <2>2 DEF CleaningReads, Current
  <2>4. me \in Reading /\ me.at = "prompted" /\ me.provider = Current
    BY <1>2, <1>6, <2>2 DEF Reading, Idle
  <2>5. caller'["cleaning"] = me
    BY <1>8, <2>3, <2>4
  <2>6. CleaningSeen'
    BY <1>1, <1>6, <2>4, <2>5 DEF CleaningSeen
  <2>7. KeysStand'
    BY <1>0, <1>1, <2>1, <2>4, <2>5 DEF KeysStand
  <2>8. since' \in [Callers -> SUBSET Moved] /\ since'["turn"] = since["turn"]
    <3>1. "turn" \in Callers \ {"cleaning"}
      BY DEF Callers
    <3> QED BY <1>2, <2>1, <3>1, AnewIs
  <2>9. DOMAIN clients' \subseteq Places /\ \A n \in DOMAIN clients' : clients'[n] \in KeyVersions
    BY <2>1 DEF AccessTyped
  <2>10. CallFits'
    BY <2>1, UnsentFits
  <2> QED BY <1>7, <2>3, <2>4, <2>6, <2>7, <2>8, <2>9, <2>10
<1>10. CASE CleaningRedacts \/ CleaningAsks \/ CleaningResolves
  <2>1. Unsent /\ UNCHANGED <<clients, since>>
    BY <1>10 DEF CleaningRedacts, CleaningAsks, CleaningResolves
  <2>2. /\ since' \in [Callers -> SUBSET Moved] /\ since'["turn"] = since["turn"]
        /\ DOMAIN clients' \subseteq Places /\ \A n \in DOMAIN clients' : clients'[n] \in KeyVersions
        /\ CallFits'
    BY <2>1, UnsentFits DEF AccessTyped
  <2>3. \A kinds : Same("cleaning", kinds)' = Same("cleaning", kinds)
    BY <2>1 DEF Same
  <2>4. CASE CleaningRedacts
    <3>1. PICK b \in BOOLEAN : b = Redacts(d.provider)
      BY <1>1
    <3>2. PICK me : me = [d EXCEPT !.at = "redacted", !.redact = b]
      OBVIOUS
    <3>3. caller' = [caller EXCEPT !["cleaning"] = me]
      BY <1>4, <2>4, <3>1, <3>2 DEF CleaningRedacts, AccessTyped
    <3>4. me \in Reading /\ me.at = "redacted" /\ me.provider = d.provider /\ me.redact = b
      BY <1>5, <3>2 DEF Reading
    <3>5. caller'["cleaning"] = me
      BY <1>8, <3>3, <3>4
    <3>6. d.at = "prompted"
      BY <1>4, <2>4 DEF CleaningRedacts
    <3>7. d.provider \in Places /\ (Same("cleaning", {"mode", "choice"}) => d.provider = Current)
      BY <1>4, <3>6 DEF CleaningSeen
    <3>8. Same("cleaning", {"mode", "policy", "choice"}) => Same("cleaning", {"mode", "choice"})
      BY DEF Same
    <3>9. CleaningSeen'
      BY <1>1, <2>3, <3>1, <3>4, <3>5, <3>7, <3>8 DEF CleaningSeen
    <3>10. KeysStand'
      BY <1>0, <1>1, <2>1, <3>4, <3>5 DEF KeysStand
    <3> QED BY <1>7, <2>2, <3>3, <3>4, <3>9, <3>10
  <2>5. CASE CleaningAsks
    <3>1. PICK me : me = [d EXCEPT !.at = "asking", !.provider = assigned.provider, !.model = assigned.model, !.mode = dataMode]
      OBVIOUS
    <3>2. caller' = [caller EXCEPT !["cleaning"] = me]
      BY <1>4, <2>5, <3>1 DEF CleaningAsks, AccessTyped
    <3>3. /\ me \in Reading /\ me.at = "asking" /\ me.provider = assigned.provider /\ me.model = assigned.model /\ me.mode = dataMode
          /\ me.redact = d.redact
      BY <1>5, <1>6, <3>1 DEF Reading, AccessTyped
    <3>4. caller'["cleaning"] = me
      BY <1>8, <3>2, <3>3
    <3>5. d.at = "redacted"
      BY <1>4, <2>5 DEF CleaningAsks
    <3>6. Same("cleaning", {"mode", "policy", "choice"}) => d.redact = Redacts(Current)
      BY <1>4, <3>5 DEF CleaningSeen
    <3>7. ~Straying => assigned.model \in {Unset, Current}
      <4>1. ~Straying /\ assigned.model # Unset => assigned.model = assigned.provider
        BY DEF Straying, ChoiceStands
      <4> QED BY <1>6, <4>1 DEF Current
    <3>8. Resolved(me.provider) = Current
      BY <3>3 DEF Current
    <3>9. CleaningSeen'
      BY <1>0, <1>1, <2>3, <3>3, <3>4, <3>6, <3>7, <3>8 DEF CleaningSeen
    <3>10. KeysStand'
      BY <1>0, <1>1, <2>1, <3>3, <3>4 DEF KeysStand
    <3> QED BY <1>7, <2>2, <3>2, <3>3, <3>9, <3>10
  <2>6. CASE CleaningResolves
    <3>1. PICK p \in Places : p = Resolved(d.provider)
      BY <1>5, <1>6
    <3>2. PICK m \in IF d.model = Unset THEN Suggested(p) ELSE {d.model} :
               caller' = [caller EXCEPT !["cleaning"] =
                   IF Permits(d.mode, p) /\ m # Unset
                   THEN [d EXCEPT !.at = "resolved", !.provider = p, !.model = m, !.key = KeyOf(p)]
                   ELSE Idle]
      BY <1>2, <1>4, <2>6, <3>1 DEF CleaningResolves, AccessTyped
    <3>3. d.at = "asking"
      BY <1>4, <2>6 DEF CleaningResolves
    <3>4. CASE Permits(d.mode, p) /\ m # Unset
      <4>1. PICK me : me = [d EXCEPT !.at = "resolved", !.provider = p, !.model = m, !.key = KeyOf(p)]
        OBVIOUS
      <4>2. caller' = [caller EXCEPT !["cleaning"] = me]
        BY <3>2, <3>4, <4>1
      <4>3. m \in Places
        BY <1>5, <3>2, <3>4 DEF Suggested
      <4>4. KeyOf(p) \in KeyVersions
        BY KeyIs
      <4>5. /\ me \in Reading /\ me.at = "resolved" /\ me.provider = p /\ me.model = m /\ me.key = KeyOf(p)
            /\ me.redact = d.redact
        BY <1>5, <4>1, <4>3, <4>4 DEF Reading
      <4>6. caller'["cleaning"] = me
        BY <1>8, <4>2, <4>5
      <4>7. Same("cleaning", {"mode", "choice"}) => p = Current /\ Resolved(p) = Current
        BY <1>4, <1>6, <3>1, <3>3 DEF CleaningSeen
      <4>8. Same("cleaning", {"mode", "policy", "choice"}) => d.redact = Redacts(Current)
        BY <1>4, <3>3 DEF CleaningSeen
      <4>9. Same("cleaning", {"mode"}) => Permits(dataMode, p)
        BY <1>4, <3>3, <3>4 DEF CleaningSeen
      <4>10. Same("cleaning", {"mode", "choice"}) /\ ~Straying => m = p
        <5>1. Same("cleaning", {"mode", "choice"}) /\ ~Straying => d.model \in {Unset, Current}
          BY <1>4, <3>3 DEF CleaningSeen
        <5> QED BY <3>2, <3>4, <4>7, <5>1 DEF Suggested
      <4>11. CleaningSeen'
        BY <1>0, <1>1, <2>3, <3>4, <4>5, <4>6, <4>7, <4>8, <4>9, <4>10 DEF CleaningSeen
      <4>12. KeysStand'
        BY <1>0, <1>1, <2>1, <4>5, <4>6 DEF KeysStand
      <4> QED BY <1>7, <2>2, <4>2, <4>5, <4>11, <4>12
    <3>5. CASE ~(Permits(d.mode, p) /\ m # Unset)
      <4>1. caller' = [caller EXCEPT !["cleaning"] = Idle]
        BY <3>2, <3>5
      <4>2. caller'["cleaning"] = Idle
        BY <1>2, <1>8, <4>1
      <4>3. CleaningSeen' /\ KeysStand'
        BY <1>0, <1>1, <1>2, <2>1, <4>2 DEF CleaningSeen, KeysStand
      <4> QED BY <1>2, <1>7, <2>2, <4>1, <4>3
    <3> QED BY <3>4, <3>5
  <2> QED BY <1>10, <2>4, <2>5, <2>6
<1>11. CASE CleaningCalls
  <2>1. /\ d.at = "resolved" /\ SendWith("cleaning", d.redact, d.provider, d.model, d.key)
        /\ caller' = [caller EXCEPT !["cleaning"] = Idle] /\ UNCHANGED since
    BY <1>4, <1>11 DEF CleaningCalls
  <2>2. d.provider \in Places /\ d.model \in Places
    BY <1>4, <1>5, <2>1 DEF CleaningSeen
  <2>3. ~staleKey /\ ~forgetting => d.key = KeyOf(d.provider)
    BY <1>4, <2>1 DEF KeysStand
  <2>4. Permits(dataMode, d.provider) \/ ~Same("cleaning", {"mode"})
    BY <1>4, <2>1 DEF CleaningSeen
  <2>5. Redacts(d.provider) => d.redact \/ ~Same("cleaning", {"mode", "policy", "choice"})
    <3>1. SUFFICES ASSUME Same("cleaning", {"mode", "policy", "choice"}) PROVE Redacts(d.provider) => d.redact
      OBVIOUS
    <3>2. Same("cleaning", {"mode", "choice"})
      BY <3>1 DEF Same
    <3>3. d.provider = Current
      BY <1>4, <1>6, <2>1, <2>2, <3>2 DEF CleaningSeen
    <3>4. d.redact = Redacts(Current)
      BY <1>4, <2>1, <3>1 DEF CleaningSeen
    <3> QED BY <3>3, <3>4
  <2>6. d.model = d.provider \/ Straying \/ ~Same("cleaning", {"mode", "choice"})
    BY <1>4, <2>1 DEF CleaningSeen
  <2>7. /\ CallFits'
        /\ DOMAIN clients' \subseteq Places /\ \A n \in DOMAIN clients' : clients'[n] \in KeyVersions
        /\ ~staleKey /\ ~forgetting => \A n \in DOMAIN clients' : clients'[n] = KeyOf("cloud")
    BY <1>0, <1>2, <1>5, <2>1, <2>2, <2>3, <2>4, <2>5, <2>6, SendIs
  <2>8. caller'["cleaning"] = Idle
    BY <1>2, <1>8, <2>1
  <2>9. CleaningSeen' /\ KeysStand'
    BY <1>0, <1>1, <1>2, <2>7, <2>8 DEF CleaningSeen, KeysStand
  <2>10. since' \in [Callers -> SUBSET Moved] /\ since'["turn"] = since["turn"]
    BY <2>1 DEF AccessTyped
  <2> QED BY <1>2, <1>7, <2>1, <2>7, <2>9, <2>10
<1> QED BY <1>9, <1>10, <1>11

\* Every step.
LEMMA AccessStep == ASSUME AccessInv, AccessNext PROVE AccessInv'
BY ModelChangeStep, LateStep, ModelTurnStep, CleaningStep DEF AccessNext

\* Where nothing moves.
LEMMA AccessStands == ASSUME AccessInv, UNCHANGED accessVars PROVE AccessInv'
<1>1. /\ UNCHANGED <<policyVars, choiceVars, keyVars, clients>>
      /\ UNCHANGED <<dataMode, schemaOnly, fallback, assigned, selecting, strayed, keys, forgetting, staleKey, caller, since, issued, moves>>
  BY DEF accessVars, policyVars, choiceVars, keyVars
<1>2. AccessTyped'
  BY <1>1 DEF AccessInv, AccessTyped
<1>3. CallFits'
  BY <1>1 DEF AccessInv, CallFits
<1> QED BY <1>1, <1>2, <1>3, TurnStands, CleaningStands, ChoiceStays, KeysStay DEF AccessInv

\* What the run checks of it.
LEMMA AccessShown == ASSUME AccessInv PROVE AccessTypeOK /\ AccessHolds
<1>1. AccessTypeOK
  <2>1. \A c \in Callers : caller[c].at \in {"idle", "prompted", "captured", "redacted", "asking", "resolved"} /\ caller[c].key \in KeyVersions
    BY DEF AccessInv, AccessTyped, Reading
  <2> QED BY <2>1 DEF AccessInv, AccessTyped, AccessTypeOK, Moved
<1>2. ChoiceFits
  BY DEF AccessInv, ChoiceStands, ChoiceFits
<1> QED BY <1>1, <1>2 DEF AccessInv, AccessHolds

\* For any changes of mode, policy, choice and keys under a turn and a cleaning: a call goes
\* where the mode allows, redacted where the policy withholds, to a model of its provider and with the key
\* in force, as far as none of these changed while it was made (ModelAccess.tla).
THEOREM CallsGoWhereTheyMay == AccessSpec => [](AccessTypeOK /\ AccessHolds)
<1>1. AccessInv /\ [AccessNext]_accessVars => AccessInv'
  BY AccessStep, AccessStands
<1> QED BY <1>1, AccessInitHolds, AccessShown, PTL DEF AccessSpec
=============================================================================
