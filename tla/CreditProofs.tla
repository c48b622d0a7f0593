---------------------------- MODULE CreditProofs ----------------------------
(***************************************************************************)
(* The laws of credits that the proofs about every component use: the      *)
(* arithmetic of billing.py, and sums over finite sets.                    *)
(***************************************************************************)
EXTENDS Billing, FiniteSetsExt, FiniteSetTheorems, WellFoundedInduction, TLAPS

-----------------------------------------------------------------------------
(* The arithmetic of billing.py.                                           *)

\* A charge the wallet can afford takes exactly the amount, in two parts that
\* are both non-negative, and leaves both columns non-negative.
THEOREM ChargeIsExact ==
  ASSUME NEW w \in SolventWallet, NEW amount \in Nat, CanAfford(w, amount)
  PROVE  /\ ChargeCredits(w, amount) \in SolventWallet
         /\ Total(ChargeCredits(w, amount)) = Total(w) - amount
         /\ ChargeCredits(w, amount).paid <= w.paid
         /\ ChargeCredits(w, amount).bonus <= w.bonus
BY DEF SolventWallet, CanAfford, Total, ChargeCredits, BonusUsed, PaidUsed

\* Bonus credits go first: paid credits are touched only when no bonus is left.
THEOREM BonusGoesFirst ==
  ASSUME NEW w \in SolventWallet, NEW amount \in Nat,
         ChargeCredits(w, amount).paid # w.paid
  PROVE  ChargeCredits(w, amount).bonus = 0
BY DEF SolventWallet, ChargeCredits, BonusUsed, PaidUsed

\* Refunding the two parts of a charge undoes it, column by column.
THEOREM RefundUndoesCharge ==
  ASSUME NEW w \in SolventWallet, NEW amount \in Nat, CanAfford(w, amount)
  PROVE  RefundCredits(ChargeCredits(w, amount), BonusUsed(w, amount), PaidUsed(w, amount))
         = w
BY DEF SolventWallet, CanAfford, Total, ChargeCredits, BonusUsed, PaidUsed, RefundCredits

\* What a session writes is solvent if the row and the object it assigned are,
\* however stale the object is: each column comes from one of the two.
LEMMA WriteBackSolvent ==
  ASSUME NEW row \in SolventWallet, NEW loaded, NEW assigned \in SolventWallet
  PROVE  WriteBack(row, loaded, assigned) \in SolventWallet
BY DEF SolventWallet, WriteBack, WriteColumn

\* The columns written are integers, whatever the object was.
LEMMA WriteBackType ==
  ASSUME NEW row \in Wallet, NEW loaded, NEW assigned \in Wallet
  PROVE  WriteBack(row, loaded, assigned) \in Wallet
BY DEF Wallet, WriteBack, WriteColumn

-----------------------------------------------------------------------------
(* Least elements: induction over a set of numbers that a formula defines. *)

\* A non-empty set of natural numbers has a least element.
LEMMA HasLeast ==
  ASSUME NEW T, T \subseteq Nat, T # {}
  PROVE  \E x \in T : \A y \in T : x <= y
<1> DEFINE less == OpToRel(<, Nat)
<1>1. IsWellFoundedOn(less, Nat)
  BY NatLessThanWellFounded
<1>2. PICK x \in T : \A y \in T : ~ (<<y, x>> \in less)
  BY <1>1, WFMin
<1>3. \A y \in T : <<y, x>> \in less <=> y < x
  BY DEF OpToRel
<1> HIDE DEF less
<1>4. \A y \in T : ~ (y < x)
  BY <1>2, <1>3
<1>5. QED
  BY <1>4

\* A non-empty bounded set of natural numbers has a greatest one.
LEMMA BoundedHasGreatest ==
  ASSUME NEW S, S \subseteq Nat, S # {}, NEW b \in Nat, \A x \in S : x <= b
  PROVE  \E m \in S : \A x \in S : x <= m
<1> DEFINE T == {b - x : x \in S}
<1>a. T \subseteq Nat
  OBVIOUS
<1>b. T # {}
  OBVIOUS
<1>1. PICK d \in T : \A y \in T : d <= y
  BY <1>a, <1>b, HasLeast
<1>2. PICK m \in S : d = b - m
  OBVIOUS
<1>3. \A x \in S : b - m <= b - x
  BY <1>1, <1>2
<1>4. \A x \in S : x \in Nat /\ (b - m <= b - x => x <= m)
  OBVIOUS
<1>5. QED
  BY <1>3, <1>4

\* A set of natural numbers with 0 and every successor has them all.
LEMMA AllNumbers ==
  ASSUME NEW T, T \subseteq Nat, 0 \in T, \A n \in T : n + 1 \in T
  PROVE  T = Nat
<1>1. SUFFICES ASSUME Nat \ T # {} PROVE FALSE
  OBVIOUS
<1>2. PICK m \in Nat \ T : \A y \in Nat \ T : m <= y
  BY <1>1, HasLeast
<1>3. m - 1 \in T /\ m - 1 + 1 = m
  BY <1>2
<1>4. QED
  BY <1>2, <1>3

\* Induction over the subsets of a finite set, for a property given as the set
\* of subsets that have it.
LEMMA AllSubsets ==
  ASSUME NEW S, IsFiniteSet(S), NEW Good, Good \subseteq SUBSET S, {} \in Good,
         \A s \in SUBSET S : s # {} /\ (\A x \in s : s \ {x} \in Good) => s \in Good
  PROVE  Good = SUBSET S
<1> DEFINE T == {n \in Nat : \A s \in SUBSET S : Cardinality(s) <= n => s \in Good}
<1>f. \A s \in SUBSET S : IsFiniteSet(s) /\ Cardinality(s) \in Nat
                          /\ (Cardinality(s) = 0 <=> s = {})
  BY FS_Subset, FS_CardinalityType, FS_EmptySet
<1>1. 0 \in T
  <2>1. \A s \in SUBSET S : Cardinality(s) <= 0 => s = {}
    BY <1>f
  <2>2. QED
    BY <2>1
<1>2. ASSUME NEW n \in T PROVE n + 1 \in T
  <2>1. ASSUME NEW s \in SUBSET S, Cardinality(s) <= n + 1, s # {}, NEW x \in s
        PROVE  s \ {x} \in Good
    <3>1. s \ {x} \in SUBSET S /\ Cardinality(s \ {x}) <= n
      BY <1>f, <2>1, FS_RemoveElement
    <3>2. QED
      BY <3>1
  <2>2. QED
    BY <2>1
<1>3. T \subseteq Nat
  OBVIOUS
<1>4. T = Nat
  <2> HIDE DEF T
  <2>1. QED
    BY <1>1, <1>2, <1>3, AllNumbers
<1>5. \A s \in SUBSET S : s \in Good
  BY <1>f, <1>4
<1>6. QED
  BY <1>5

-----------------------------------------------------------------------------
(* Sums.  SumFunctionOnSet takes the elements of a set in the order of a   *)
(* CHOOSE; the laws below show that the order does not matter.             *)

Pick(s) == CHOOSE x \in s : TRUE

\* The equation of the fold behind a sum: its value at s from that of less.
SumStep(f, g, s) == IF s = {} THEN 0 ELSE f[Pick(s)] + g[s \ {Pick(s)}]

Fold(f, S) == CHOOSE g : g = [s \in SUBSET S |-> SumStep(f, g, s)]

\* A non-empty set has the element that is picked.
LEMMA PickMember == ASSUME NEW s, s # {} PROVE Pick(s) \in s
BY DEF Pick

\* A sum is the value of its fold.
LEMMA SumIsFold == ASSUME NEW f, NEW S PROVE SumFunctionOnSet(f, S) = Fold(f, S)[S]
BY DEF SumFunctionOnSet, FoldFunctionOnSet, MapThenFoldSet, Fold, SumStep, Pick

\* On a finite set the equation of the fold has a solution: one that is right
\* for all sets of n elements extends to those of n + 1.
LEMMA FoldExists ==
  ASSUME NEW f, NEW S, IsFiniteSet(S)
  PROVE  \E g : g = [s \in SUBSET S |-> SumStep(f, g, s)]
<1> DEFINE Right(g, n) == \A s \in SUBSET S :
             Cardinality(s) <= n => g[s] = SumStep(f, g, s)
           T == {n \in Nat : \E g : g = [s \in SUBSET S |-> g[s]] /\ Right(g, n)}
<1>f. \A s \in SUBSET S : IsFiniteSet(s) /\ Cardinality(s) \in Nat
                          /\ (Cardinality(s) = 0 <=> s = {})
  BY FS_Subset, FS_CardinalityType, FS_EmptySet
<1>1. 0 \in T
  <2> DEFINE g == [s \in SUBSET S |-> 0]
  <2>1. Right(g, 0)
    BY <1>f DEF SumStep
  <2>2. QED
    BY <2>1
<1>2. ASSUME NEW n \in T PROVE n + 1 \in T
  <2>1. PICK g : g = [s \in SUBSET S |-> g[s]] /\ Right(g, n)
    BY <1>2
  <2> DEFINE h == [s \in SUBSET S |-> SumStep(f, g, s)]
  <2>2. ASSUME NEW s \in SUBSET S, Cardinality(s) <= n + 1
        PROVE  h[s] = SumStep(f, h, s)
    <3>1. CASE s = {}
      BY <3>1 DEF SumStep
    <3>2. CASE s # {}
      <4> DEFINE less == s \ {Pick(s)}
      <4>1. less \in SUBSET S /\ Cardinality(less) <= n
        BY <1>f, <2>2, <3>2, PickMember, FS_RemoveElement
      <4>2. g[less] = h[less]
        BY <2>1, <4>1
      <4>3. QED
        BY <3>2, <4>2 DEF SumStep
    <3>3. QED
      BY <3>1, <3>2
  <2>3. h = [s \in SUBSET S |-> h[s]] /\ Right(h, n + 1)
    BY <2>2
  <2> HIDE DEF h, Right
  <2>4. QED
    BY <2>3
<1>3. Cardinality(S) \in T
  <2>1. T \subseteq Nat
    OBVIOUS
  <2> HIDE DEF T
  <2>2. QED
    BY <1>1, <1>2, <1>f, <2>1, AllNumbers
<1>4. PICK g : g = [s \in SUBSET S |-> g[s]] /\ Right(g, Cardinality(S))
  BY <1>3
<1>5. \A s \in SUBSET S : Cardinality(s) <= Cardinality(S)
  BY FS_Subset
<1>6. g = [s \in SUBSET S |-> SumStep(f, g, s)]
  BY <1>4, <1>5
<1>7. QED
  BY <1>6

\* The equation has one solution, and it depends on the summed values only.
LEMMA FoldUnique ==
  ASSUME NEW S, IsFiniteSet(S), NEW f, NEW k, NEW g, NEW h,
         \A x \in S : f[x] = k[x],
         \A s \in SUBSET S : g[s] = SumStep(f, g, s) /\ h[s] = SumStep(k, h, s)
  PROVE  g[S] = h[S]
<1> DEFINE Good == {s \in SUBSET S : g[s] = h[s]}
<1>1. {} \in Good
  BY DEF SumStep
<1>2. ASSUME NEW s \in SUBSET S, s # {}, \A x \in s : s \ {x} \in Good
      PROVE  s \in Good
  <2>1. Pick(s) \in s /\ Pick(s) \in S /\ g[s \ {Pick(s)}] = h[s \ {Pick(s)}]
    BY <1>2, PickMember
  <2>2. QED
    BY <1>2, <2>1 DEF SumStep
<1>3. Good \subseteq SUBSET S
  OBVIOUS
<1>4. Good = SUBSET S
  <2> HIDE DEF Good
  <2>1. QED
    BY <1>1, <1>2, <1>3, AllSubsets
<1>5. QED
  BY <1>4

\* The fold of a finite set satisfies its equation.
LEMMA FoldSolves ==
  ASSUME NEW f, NEW S, IsFiniteSet(S)
  PROVE  \A s \in SUBSET S : Fold(f, S)[s] = SumStep(f, Fold(f, S), s)
<1>1. Fold(f, S) = [s \in SUBSET S |-> SumStep(f, Fold(f, S), s)]
  BY FoldExists DEF Fold
<1> HIDE DEF Fold
<1>2. QED
  BY <1>1

\* Sums of functions that agree on the set are equal.
LEMMA SumCongruent ==
  ASSUME NEW S, IsFiniteSet(S), NEW f, NEW k, \A x \in S : f[x] = k[x]
  PROVE  SumFunctionOnSet(f, S) = SumFunctionOnSet(k, S)
<1>1. Fold(f, S)[S] = Fold(k, S)[S]
  BY FoldSolves, FoldUnique
<1>2. QED
  BY <1>1, SumIsFold

\* The sum over a finite set obeys the equation of the fold.
LEMMA SumEquation ==
  ASSUME NEW f, NEW S, IsFiniteSet(S)
  PROVE  /\ SumFunctionOnSet(f, {}) = 0
         /\ S # {} => SumFunctionOnSet(f, S)
                      = f[Pick(S)] + SumFunctionOnSet(f, S \ {Pick(S)})
<1>1. ASSUME NEW s \in SUBSET S PROVE Fold(f, S)[s] = SumFunctionOnSet(f, s)
  <2>1. IsFiniteSet(s)
    BY FS_Subset
  <2>2. \A r \in SUBSET s : /\ Fold(f, S)[r] = SumStep(f, Fold(f, S), r)
                            /\ Fold(f, s)[r] = SumStep(f, Fold(f, s), r)
    BY <2>1, FoldSolves
  <2>3. Fold(f, S)[s] = Fold(f, s)[s]
    BY <2>1, <2>2, FoldUnique
  <2>4. QED
    BY <2>3, SumIsFold
<1>2. Fold(f, S)[S] = SumStep(f, Fold(f, S), S) /\ Fold(f, S)[{}] = SumStep(f, Fold(f, S), {})
  BY FoldSolves
<1>3. QED
  BY <1>1, <1>2 DEF SumStep

\* A sum of integers is an integer, one of natural numbers a natural number.
LEMMA SumType ==
  ASSUME NEW S, IsFiniteSet(S), NEW f, NEW N \in {Int, Nat}, \A x \in S : f[x] \in N
  PROVE  SumFunctionOnSet(f, S) \in N
<1> DEFINE Good == {s \in SUBSET S : SumFunctionOnSet(f, s) \in N}
<1>f. \A s \in SUBSET S : IsFiniteSet(s)
  BY FS_Subset
<1>1. {} \in Good
  <2>1. SumFunctionOnSet(f, {}) = 0
    BY SumEquation
  <2>2. 0 \in N
    OBVIOUS
  <2>3. QED
    BY <2>1, <2>2
<1>2. ASSUME NEW s \in SUBSET S, s # {}, \A x \in s : s \ {x} \in Good
      PROVE  s \in Good
  <2>1. f[Pick(s)] \in N /\ SumFunctionOnSet(f, s \ {Pick(s)}) \in N
    BY <1>2, PickMember
  <2>2. SumFunctionOnSet(f, s) = f[Pick(s)] + SumFunctionOnSet(f, s \ {Pick(s)})
    BY <1>2, <1>f, SumEquation
  <2>3. QED
    BY <2>1, <2>2
<1>3. Good \subseteq SUBSET S
  OBVIOUS
<1>4. Good = SUBSET S
  <2> HIDE DEF Good
  <2>1. QED
    BY <1>1, <1>2, <1>3, AllSubsets
<1>5. QED
  BY <1>4

\* Any element can be taken out of a sum, whichever the fold picks.
LEMMA SumRemove ==
  ASSUME NEW S, IsFiniteSet(S), NEW f, \A x \in S : f[x] \in Int, NEW y \in S
  PROVE  SumFunctionOnSet(f, S) = f[y] + SumFunctionOnSet(f, S \ {y})
<1> DEFINE Good == {s \in SUBSET S : \A x \in s :
             SumFunctionOnSet(f, s) = f[x] + SumFunctionOnSet(f, s \ {x})}
<1>f. \A s \in SUBSET S : IsFiniteSet(s) /\ SumFunctionOnSet(f, s) \in Int
  BY FS_Subset, SumType
<1>1. {} \in Good
  OBVIOUS
<1>2. ASSUME NEW s \in SUBSET S, s # {}, \A x \in s : s \ {x} \in Good
      PROVE  s \in Good
  <2> DEFINE p == Pick(s)
  <2>1. p \in s /\ SumFunctionOnSet(f, s) = f[p] + SumFunctionOnSet(f, s \ {p})
    BY <1>2, <1>f, PickMember, SumEquation
  <2> HIDE DEF p
  <2>2. ASSUME NEW x \in s, x # p
        PROVE  SumFunctionOnSet(f, s) = f[x] + SumFunctionOnSet(f, s \ {x})
    <3>1. SumFunctionOnSet(f, s \ {p}) = f[x] + SumFunctionOnSet(f, (s \ {p}) \ {x})
      BY <1>2, <2>1, <2>2
    <3>2. SumFunctionOnSet(f, s \ {x}) = f[p] + SumFunctionOnSet(f, (s \ {x}) \ {p})
      BY <1>2, <2>1, <2>2
    <3> DEFINE r == SumFunctionOnSet(f, (s \ {p}) \ {x})
    <3>3. (s \ {p}) \ {x} = (s \ {x}) \ {p}
      OBVIOUS
    <3>4. r \in Int /\ f[x] \in Int /\ f[p] \in Int
      BY <1>f, <2>1
    <3>5. SumFunctionOnSet(f, s) = f[p] + (f[x] + r)
      BY <2>1, <3>1
    <3>6. SumFunctionOnSet(f, s \ {x}) = f[p] + r
      BY <3>2, <3>3
    <3> HIDE DEF r
    <3>7. f[p] + (f[x] + r) = f[x] + (f[p] + r)
      BY <3>4
    <3>8. QED
      BY <3>5, <3>6, <3>7
  <2>3. QED
    BY <2>1, <2>2
<1>3. Good \subseteq SUBSET S
  OBVIOUS
<1>4. Good = SUBSET S
  <2> HIDE DEF Good
  <2>1. QED
    BY <1>1, <1>2, <1>3, AllSubsets
<1>5. QED
  BY <1>4

\* A new element adds its value to a sum.
LEMMA SumAdd ==
  ASSUME NEW S, IsFiniteSet(S), NEW y, y \notin S, NEW f, \A x \in S \cup {y} : f[x] \in Int
  PROVE  SumFunctionOnSet(f, S \cup {y}) = f[y] + SumFunctionOnSet(f, S)
<1>1. IsFiniteSet(S \cup {y}) /\ (S \cup {y}) \ {y} = S
  BY FS_AddElement
<1>2. QED
  BY <1>1, SumRemove

\* Changing one summand changes a sum by the difference.
LEMMA SumChange ==
  ASSUME NEW S, IsFiniteSet(S), NEW y \in S, NEW f, NEW k,
         \A x \in S : f[x] \in Int /\ k[x] \in Int,
         \A x \in S : x # y => f[x] = k[x]
  PROVE  SumFunctionOnSet(k, S) = SumFunctionOnSet(f, S) - f[y] + k[y]
<1>1. /\ SumFunctionOnSet(f, S) = f[y] + SumFunctionOnSet(f, S \ {y})
      /\ SumFunctionOnSet(k, S) = k[y] + SumFunctionOnSet(k, S \ {y})
  BY SumRemove
<1>2. IsFiniteSet(S \ {y})
  BY FS_RemoveElement
<1>3. SumFunctionOnSet(f, S \ {y}) = SumFunctionOnSet(k, S \ {y})
      /\ SumFunctionOnSet(f, S \ {y}) \in Int
  BY <1>2, SumCongruent, SumType
<1>4. QED
  BY <1>1, <1>3

\* A sum of zeros is zero.
LEMMA SumZero ==
  ASSUME NEW S, IsFiniteSet(S), NEW f, \A x \in S : f[x] = 0
  PROVE  SumFunctionOnSet(f, S) = 0
<1> DEFINE Good == {s \in SUBSET S : SumFunctionOnSet(f, s) = 0}
<1>f. \A s \in SUBSET S : IsFiniteSet(s)
  BY FS_Subset
<1>1. {} \in Good
  BY <1>f, SumEquation
<1>2. ASSUME NEW s \in SUBSET S, s # {}, \A x \in s : s \ {x} \in Good
      PROVE  s \in Good
  <2>1. f[Pick(s)] = 0 /\ SumFunctionOnSet(f, s \ {Pick(s)}) = 0
    BY <1>2, PickMember
  <2>2. QED
    BY <1>2, <1>f, <2>1, SumEquation
<1>3. Good \subseteq SUBSET S
  OBVIOUS
<1>4. Good = SUBSET S
  <2> HIDE DEF Good
  <2>1. QED
    BY <1>1, <1>2, <1>3, AllSubsets
<1>5. QED
  BY <1>4

\* A sum of equal numbers is their number times their value.
LEMMA SumConstant ==
  ASSUME NEW S, IsFiniteSet(S), NEW c \in Nat, NEW f, \A x \in S : f[x] = c
  PROVE  SumFunctionOnSet(f, S) = c * Cardinality(S)
<1> DEFINE Good == {s \in SUBSET S : SumFunctionOnSet(f, s) = c * Cardinality(s)}
<1>f. \A s \in SUBSET S : IsFiniteSet(s) /\ Cardinality(s) \in Nat
  BY FS_Subset, FS_CardinalityType
<1>1. {} \in Good
  <2>1. Cardinality({}) = 0 /\ SumFunctionOnSet(f, {}) = 0
    BY FS_EmptySet, SumEquation
  <2>2. QED
    BY <2>1
<1>2. ASSUME NEW s \in SUBSET S, s # {}, \A x \in s : s \ {x} \in Good
      PROVE  s \in Good
  <2> DEFINE rest == s \ {Pick(s)}
             n == Cardinality(rest)
  <2>1. f[Pick(s)] = c /\ SumFunctionOnSet(f, rest) = c * n
    BY <1>2, PickMember
  <2>2. SumFunctionOnSet(f, s) = f[Pick(s)] + SumFunctionOnSet(f, rest)
    BY <1>2, <1>f, SumEquation
  <2>3. Cardinality(s) = n + 1 /\ n \in Nat
    BY <1>2, <1>f, PickMember, FS_RemoveElement
  <2> HIDE DEF rest, n
  <2>4. c * (n + 1) = c + c * n
    BY <2>3
  <2>5. QED
    BY <2>1, <2>2, <2>3, <2>4
<1>3. Good \subseteq SUBSET S
  OBVIOUS
<1>4. Good = SUBSET S
  <2> HIDE DEF Good
  <2>1. QED
    BY <1>1, <1>2, <1>3, AllSubsets
<1>5. QED
  BY <1>4

\* If the elements of a part are worth at least c each and the others nothing
\* negative, the whole is worth at least c for each element of the part.
LEMMA SumAtLeast ==
  ASSUME NEW S, IsFiniteSet(S), NEW f, \A x \in S : f[x] \in Nat,
         NEW part, part \subseteq S, NEW c \in Nat, \A x \in part : c <= f[x]
  PROVE  c * Cardinality(part) <= SumFunctionOnSet(f, S)
<1> DEFINE Good == {s \in SUBSET S :
             c * Cardinality(s \cap part) <= SumFunctionOnSet(f, s)}
<1>f. \A s \in SUBSET S : /\ IsFiniteSet(s) /\ SumFunctionOnSet(f, s) \in Nat
                          /\ IsFiniteSet(s \cap part) /\ Cardinality(s \cap part) \in Nat
  BY FS_Subset, FS_CardinalityType, SumType
<1>1. {} \in Good
  <2>1. Cardinality({} \cap part) = 0 /\ SumFunctionOnSet(f, {}) = 0
    BY FS_EmptySet, SumEquation
  <2>2. QED
    BY <2>1
<1>2. ASSUME NEW s \in SUBSET S, s # {}, \A x \in s : s \ {x} \in Good
      PROVE  s \in Good
  <2> DEFINE p == Pick(s)
             rest == s \ {p}
             n == Cardinality(rest \cap part)
  <2>1. p \in s /\ SumFunctionOnSet(f, s) = f[p] + SumFunctionOnSet(f, rest)
    BY <1>2, <1>f, PickMember, SumEquation
  <2>2. c * n <= SumFunctionOnSet(f, rest) /\ n \in Nat /\ f[p] \in Nat
        /\ SumFunctionOnSet(f, rest) \in Nat
    BY <1>2, <1>f, <2>1
  <2>3. CASE p \in part
    <3>1. Cardinality(s \cap part) = n + 1
      <4>1. s \cap part = (rest \cap part) \cup {p} /\ p \notin rest \cap part
        BY <2>1, <2>3
      <4>2. QED
        BY <1>f, <4>1, FS_AddElement
    <3>2. c * (n + 1) = c * n + c /\ c * n \in Nat
      BY <2>2
    <3> HIDE DEF p, rest, n
    <3>3. QED
      BY <2>1, <2>2, <2>3, <3>1, <3>2
  <2>4. CASE p \notin part
    <3>1. s \cap part = rest \cap part
      BY <2>4
    <3>2. c * Cardinality(s \cap part) = c * n
      BY <3>1
    <3> HIDE DEF p, rest, n
    <3>3. c * n \in Nat
      BY <2>2
    <3>4. c * n <= SumFunctionOnSet(f, s)
      BY <2>1, <2>2, <3>3
    <3>5. QED
      BY <3>2, <3>4
  <2>5. QED
    BY <2>3, <2>4
<1>3. Good \subseteq SUBSET S
  OBVIOUS
<1>4. Good = SUBSET S
  <2> HIDE DEF Good
  <2>1. QED
    BY <1>1, <1>2, <1>3, AllSubsets
<1>5. S \cap part = part
  OBVIOUS
<1>6. QED
  BY <1>4, <1>5
=============================================================================
