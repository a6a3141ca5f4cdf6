------------------------------ MODULE SumLemmas ------------------------------
(***************************************************************************)
(* What SumFunction computes.  It is a fold, a function defined by         *)
(* recursion on the subsets of the domain that takes its elements in the   *)
(* order CHOOSE gives them: that such a function exists, that the order is *)
(* of no account, and what follows for the sum over a sequence, is proved  *)
(* here by induction.  The induction is on sets of numbers that have a     *)
(* least element, by the least-element theorem of WellFoundedInduction.    *)
(***************************************************************************)
EXTENDS Integers, Sequences, FiniteSets, Functions, FiniteSetTheorems,
        WellFoundedInduction, TLAPS

(* A set of natural numbers that is not empty has a least element.         *)
LEMMA LeastElement ==
    ASSUME NEW T \in SUBSET Nat, T # {}
    PROVE  \E m \in T : \A k \in T : m <= k
<1>1. PICK m \in T : \A k \in T : <<k, m>> \notin OpToRel(<, Nat)
    <2>1. T \subseteq Nat
        OBVIOUS
    <2>2. QED
        BY <2>1, WFMin, NatLessThanWellFounded
<1>2. ASSUME NEW k \in T, k < m
      PROVE  <<k, m>> \in OpToRel(<, Nat)
    <2>1. k \in Nat /\ m \in Nat
        OBVIOUS
    <2>2. <<k, m>> \in {p \in Nat \X Nat : p[1] < p[2]}
        BY <1>2, <2>1
    <2>3. QED
        BY <2>2 DEF OpToRel
<1>3. ASSUME NEW k \in T
      PROVE  m <= k
    <2>1. m \in Nat /\ k \in Nat /\ ~(k < m)
        BY <1>1, <1>2
    <2>2. QED
        BY <2>1
<1>4. QED
    BY <1>3

(* Induction on a set of numbers: with 0 and every successor, it has all.  *)
LEMMA AllNumbers ==
    ASSUME NEW T \in SUBSET Nat, 0 \in T, \A n \in T : n + 1 \in T
    PROVE  T = Nat
<1>1. SUFFICES ASSUME Nat \ T # {}
               PROVE  FALSE
    OBVIOUS
<1>2. PICK m \in Nat \ T : \A k \in Nat \ T : m <= k
    BY <1>1, LeastElement
<1>3. m # 0 /\ m - 1 \in Nat
    BY <1>2
<1>4. m - 1 \in T
    BY <1>2, <1>3
<1>5. QED
    BY <1>2, <1>3, <1>4

(* Induction on the subsets of a finite set.                               *)
LEMMA AllSubsets ==
    ASSUME NEW S, IsFiniteSet(S), NEW T \in SUBSET SUBSET S,
           \A s \in SUBSET S :
               (\A r \in SUBSET s : r # s => r \in T) => s \in T
    PROVE  \A s \in SUBSET S : s \in T
<1> DEFINE Sizes == {Cardinality(s) : s \in (SUBSET S) \ T}
<1>1. SUFFICES ASSUME (SUBSET S) \ T # {}
               PROVE  FALSE
    OBVIOUS
<1>2. \A s \in SUBSET S : IsFiniteSet(s) /\ Cardinality(s) \in Nat
    BY FS_Subset, FS_CardinalityType
<1>3. PICK n \in Sizes : \A k \in Sizes : n <= k
    <2>1. Sizes \subseteq Nat
        BY <1>2
    <2>2. Sizes # {}
        BY <1>1
    <2>3. QED
        BY <2>1, <2>2, LeastElement
<1>4. PICK s \in (SUBSET S) \ T : Cardinality(s) = n
    BY <1>3
<1>5. ASSUME NEW r \in SUBSET s, r # s
      PROVE  r \in T
    <2>1. r \in SUBSET S /\ Cardinality(r) < Cardinality(s)
        <3>1. r \in SUBSET S /\ IsFiniteSet(s)
            BY <1>2
        <3>2. Cardinality(r) <= Cardinality(s) /\ Cardinality(r) # Cardinality(s)
            BY <1>5, <3>1, FS_Subset
        <3>3. QED
            BY <1>2, <3>1, <3>2
    <2>2. Cardinality(r) \in Nat /\ Cardinality(s) \in Nat
        BY <1>2, <2>1
    <2>3. QED
        BY <1>3, <1>4, <2>1, <2>2
<1>6. QED
    BY <1>4, <1>5

-----------------------------------------------------------------------------
(* iter is the recursive function of the fold, on the subsets of S.        *)
FoldsOn(f, S, iter) ==
    iter = [s \in SUBSET S |->
               IF s = {} THEN 0
               ELSE LET x == CHOOSE x \in s : TRUE
                    IN  f[x] + iter[s \ {x}]]

(* A sum is what such a function has for the whole set.                    *)
LEMMA SumIsFold ==
    ASSUME NEW f, NEW S, \E iter : FoldsOn(f, S, iter)
    PROVE  \E iter : FoldsOn(f, S, iter) /\ SumFunctionOnSet(f, S) = iter[S]
BY DEF FoldsOn, SumFunctionOnSet, FoldFunctionOnSet, MapThenFoldSet

(* One turn of the recursion.                                              *)
LEMMA FoldsAt ==
    ASSUME NEW f, NEW S, NEW iter, FoldsOn(f, S, iter), NEW s \in SUBSET S
    PROVE  /\ s = {} => iter[s] = 0
           /\ s # {} => \E x \in s : /\ x = CHOOSE y \in s : TRUE
                                    /\ iter[s] = f[x] + iter[s \ {x}]
BY DEF FoldsOn

(* Two such functions agree where both are defined.                        *)
LEMMA FoldsAgree ==
    ASSUME NEW f, NEW S, IsFiniteSet(S), NEW R \in SUBSET S, NEW a, NEW b,
           FoldsOn(f, S, a), FoldsOn(f, R, b)
    PROVE  a[R] = b[R]
<1> DEFINE T == {s \in SUBSET R : a[s] = b[s]}
<1>1. IsFiniteSet(R)
    BY FS_Subset
<1>2. ASSUME NEW s \in SUBSET R, \A r \in SUBSET s : r # s => r \in T
      PROVE  a[s] = b[s]
    <2>1. CASE s = {}
        BY <2>1, FoldsAt
    <2>2. CASE s # {}
        <3>1. PICK x \in s : /\ x = CHOOSE y \in s : TRUE
                             /\ a[s] = f[x] + a[s \ {x}]
            BY <2>2, FoldsAt
        <3>2. PICK z \in s : /\ z = CHOOSE y \in s : TRUE
                             /\ b[s] = f[z] + b[s \ {z}]
            BY <2>2, FoldsAt
        <3>3. x = z
            BY <3>1, <3>2
        <3>4. s \ {x} \in T
            BY <1>2, <3>1
        <3>5. QED
            BY <3>1, <3>2, <3>3, <3>4
    <2>3. QED
        BY <2>1, <2>2
<1>3. \A s \in SUBSET R : s \in T
    <2>1. T \in SUBSET SUBSET R
        OBVIOUS
    <2>2. \A s \in SUBSET R : (\A r \in SUBSET s : r # s => r \in T) => s \in T
        BY <1>2
    <2> HIDE DEF T
    <2>3. QED
        BY <1>1, <2>1, <2>2, AllSubsets
<1>4. QED
    BY <1>3

(* The recursion of the fold is well founded, so it has its function.      *)
LEMMA FoldsExist ==
    ASSUME NEW f, NEW S, IsFiniteSet(S)
    PROVE  \E iter : FoldsOn(f, S, iter)
<1> DEFINE T == {s \in SUBSET S : \E iter : FoldsOn(f, s, iter)}
<1> DEFINE Turn(s) == IF s = {} THEN 0
                      ELSE LET x == CHOOSE x \in s : TRUE
                           IN  f[x] + SumFunctionOnSet(f, s \ {x})
<1>1. ASSUME NEW s \in T
      PROVE  /\ s = {} => SumFunctionOnSet(f, s) = 0
             /\ s # {} => \E x \in s :
                    /\ x = CHOOSE y \in s : TRUE
                    /\ s \ {x} \in T =>
                          SumFunctionOnSet(f, s)
                            = f[x] + SumFunctionOnSet(f, s \ {x})
    <2>1. PICK it : FoldsOn(f, s, it) /\ SumFunctionOnSet(f, s) = it[s]
        BY SumIsFold
    <2>2. CASE s = {}
        BY <2>1, <2>2, FoldsAt
    <2>3. CASE s # {}
        <3>1. PICK x \in s : /\ x = CHOOSE y \in s : TRUE
                             /\ it[s] = f[x] + it[s \ {x}]
            BY <2>1, <2>3, FoldsAt
        <3>2. ASSUME s \ {x} \in T
              PROVE  it[s \ {x}] = SumFunctionOnSet(f, s \ {x})
            <4>1. PICK jt : /\ FoldsOn(f, s \ {x}, jt)
                            /\ SumFunctionOnSet(f, s \ {x}) = jt[s \ {x}]
                BY <3>2, SumIsFold
            <4>2. IsFiniteSet(s) /\ s \ {x} \in SUBSET s
                BY FS_Subset
            <4>3. it[s \ {x}] = jt[s \ {x}]
                BY <2>1, <4>1, <4>2, FoldsAgree
            <4>4. QED
                BY <4>1, <4>3
        <3>3. QED
            BY <2>1, <2>3, <3>1, <3>2
    <2>4. QED
        BY <2>2, <2>3
<1>2. ASSUME NEW s \in SUBSET S, \A r \in SUBSET s : r # s => r \in T
      PROVE  s \in T
    <2> DEFINE it == [r \in SUBSET s |-> Turn(r)]
    <2>1. ASSUME NEW r \in SUBSET s, r # {}, NEW x \in r
          PROVE  it[r \ {x}] = SumFunctionOnSet(f, r \ {x})
        <3>1. r \ {x} \in T /\ it[r \ {x}] = Turn(r \ {x})
            BY <1>2
        <3>2. CASE r \ {x} = {}
            BY <1>1, <3>1, <3>2
        <3>3. CASE r \ {x} # {}
            <4>1. PICK z \in r \ {x} :
                      /\ z = CHOOSE y \in r \ {x} : TRUE
                      /\ (r \ {x}) \ {z} \in T =>
                            SumFunctionOnSet(f, r \ {x})
                              = f[z] + SumFunctionOnSet(f, (r \ {x}) \ {z})
                BY <1>1, <3>1, <3>3
            <4>2. (r \ {x}) \ {z} \in T
                BY <1>2
            <4>3. QED
                BY <3>1, <3>3, <4>1, <4>2
        <3>4. QED
            BY <3>2, <3>3
    <2>2. ASSUME NEW r \in SUBSET s
          PROVE  Turn(r) = IF r = {} THEN 0
                           ELSE LET x == CHOOSE x \in r : TRUE
                                IN  f[x] + it[r \ {x}]
        <3>1. CASE r = {}
            BY <3>1
        <3>2. CASE r # {}
            <4>1. PICK x \in r : x = CHOOSE y \in r : TRUE
                BY <3>2
            <4>2. it[r \ {x}] = SumFunctionOnSet(f, r \ {x})
                BY <2>1, <3>2
            <4> HIDE DEF it
            <4>3. QED
                BY <3>2, <4>1, <4>2
        <3>3. QED
            BY <3>1, <3>2
    <2>3. FoldsOn(f, s, it)
        BY <2>2 DEF FoldsOn
    <2>4. QED
        BY <2>3
<1>3. \A s \in SUBSET S : s \in T
    <2>1. T \in SUBSET SUBSET S
        OBVIOUS
    <2>2. \A s \in SUBSET S : (\A r \in SUBSET s : r # s => r \in T) => s \in T
        BY <1>2
    <2> HIDE DEF T
    <2>3. QED
        BY <2>1, <2>2, AllSubsets
<1>4. QED
    BY <1>3

-----------------------------------------------------------------------------
(* The sum over no element is zero.                                        *)
LEMMA SumOfNone == ASSUME NEW f PROVE SumFunctionOnSet(f, {}) = 0
<1>1. PICK iter : FoldsOn(f, {}, iter) /\ SumFunctionOnSet(f, {}) = iter[{}]
    BY FoldsExist, SumIsFold, FS_EmptySet
<1>2. QED
    BY <1>1, FoldsAt

(* The fold takes the element CHOOSE gives first.                          *)
LEMMA SumByChoice ==
    ASSUME NEW f, NEW S, IsFiniteSet(S), S # {}
    PROVE  \E x \in S :
               /\ x = CHOOSE y \in S : TRUE
               /\ SumFunctionOnSet(f, S) = f[x] + SumFunctionOnSet(f, S \ {x})
<1>1. PICK it : FoldsOn(f, S, it) /\ SumFunctionOnSet(f, S) = it[S]
    BY FoldsExist, SumIsFold
<1>2. PICK x \in S : x = (CHOOSE y \in S : TRUE) /\ it[S] = f[x] + it[S \ {x}]
    BY <1>1, FoldsAt
<1>3. IsFiniteSet(S \ {x})
    BY FS_Subset
<1>4. PICK jt : /\ FoldsOn(f, S \ {x}, jt)
                /\ SumFunctionOnSet(f, S \ {x}) = jt[S \ {x}]
    BY <1>3, FoldsExist, SumIsFold
<1>5. it[S \ {x}] = jt[S \ {x}]
    BY <1>1, <1>4, FoldsAgree
<1>6. QED
    BY <1>1, <1>2, <1>4, <1>5

(* A sum of natural numbers is one.                                        *)
LEMMA SumIsNat ==
    ASSUME NEW f, NEW S, IsFiniteSet(S), \A x \in S : f[x] \in Nat
    PROVE  SumFunctionOnSet(f, S) \in Nat
<1> DEFINE T == {s \in SUBSET S : SumFunctionOnSet(f, s) \in Nat}
<1>1. ASSUME NEW s \in SUBSET S, \A r \in SUBSET s : r # s => r \in T
      PROVE  s \in T
    <2>1. CASE s = {}
        BY <2>1, SumOfNone
    <2>2. CASE s # {}
        <3>1. IsFiniteSet(s)
            BY FS_Subset
        <3>2. PICK x \in s :
                  SumFunctionOnSet(f, s) = f[x] + SumFunctionOnSet(f, s \ {x})
            BY <2>2, <3>1, SumByChoice
        <3>3. f[x] \in Nat /\ SumFunctionOnSet(f, s \ {x}) \in Nat
            BY <1>1
        <3>4. QED
            BY <3>2, <3>3
    <2>3. QED
        BY <2>1, <2>2
<1>2. T \in SUBSET SUBSET S
    OBVIOUS
<1>3. \A s \in SUBSET S : (\A r \in SUBSET s : r # s => r \in T) => s \in T
    BY <1>1
<1>4. \A s \in SUBSET S : s \in T
    <2> HIDE DEF T
    <2>1. QED
        BY <1>2, <1>3, AllSubsets
<1>5. QED
    BY <1>4

(* Any element can be taken first.                                         *)
LEMMA SumWithout ==
    ASSUME NEW f, NEW S, IsFiniteSet(S), \A x \in S : f[x] \in Nat,
           NEW e \in S
    PROVE  SumFunctionOnSet(f, S) = f[e] + SumFunctionOnSet(f, S \ {e})
<1> DEFINE Sum(s) == SumFunctionOnSet(f, s)
<1> DEFINE T == {s \in SUBSET S : \A x \in s : Sum(s) = f[x] + Sum(s \ {x})}
<1>1. \A s \in SUBSET S : IsFiniteSet(s) /\ Sum(s) \in Nat
    <2>1. ASSUME NEW s \in SUBSET S
          PROVE  IsFiniteSet(s)
        BY FS_Subset
    <2>2. QED
        BY <2>1, SumIsNat
<1>2. ASSUME NEW s \in SUBSET S, \A r \in SUBSET s : r # s => r \in T,
             NEW x \in s
      PROVE  Sum(s) = f[x] + Sum(s \ {x})
    <2>1. PICK z \in s : Sum(s) = f[z] + Sum(s \ {z})
        BY <1>1, SumByChoice
    <2>2. CASE x # z
        <3>1. Sum(s \ {z}) = f[x] + Sum((s \ {z}) \ {x})
            <4>1. s \ {z} \in T /\ x \in s \ {z}
                BY <1>2, <2>2
            <4>2. QED
                BY <4>1
        <3>2. Sum(s \ {x}) = f[z] + Sum((s \ {x}) \ {z})
            <4>1. s \ {x} \in T /\ z \in s \ {x}
                BY <1>2, <2>2
            <4>2. QED
                BY <4>1
        <3>3. (s \ {x}) \ {z} = (s \ {z}) \ {x}
            OBVIOUS
        <3>4. f[x] \in Nat /\ f[z] \in Nat /\ Sum((s \ {z}) \ {x}) \in Nat
            BY <1>1
        <3> HIDE DEF Sum
        <3>5. QED
            BY <2>1, <3>1, <3>2, <3>3, <3>4
    <2>3. QED
        BY <2>1, <2>2
<1>3. T \in SUBSET SUBSET S
    OBVIOUS
<1>4. \A s \in SUBSET S : (\A r \in SUBSET s : r # s => r \in T) => s \in T
    BY <1>2
<1>5. \A s \in SUBSET S : s \in T
    <2> HIDE DEF T
    <2>1. QED
        BY <1>3, <1>4, AllSubsets
<1>6. QED
    BY <1>5

(* Functions that agree on a set have the same sum on it.                  *)
LEMMA SumOfEquals ==
    ASSUME NEW f, NEW g, NEW S, IsFiniteSet(S), \A x \in S : f[x] = g[x]
    PROVE  SumFunctionOnSet(f, S) = SumFunctionOnSet(g, S)
<1> DEFINE T == {s \in SUBSET S :
                    SumFunctionOnSet(f, s) = SumFunctionOnSet(g, s)}
<1>1. ASSUME NEW s \in SUBSET S, \A r \in SUBSET s : r # s => r \in T
      PROVE  s \in T
    <2>1. CASE s = {}
        BY <2>1, SumOfNone
    <2>2. CASE s # {}
        <3>1. IsFiniteSet(s)
            BY FS_Subset
        <3>2. PICK x \in s :
                  /\ x = CHOOSE y \in s : TRUE
                  /\ SumFunctionOnSet(f, s) = f[x] + SumFunctionOnSet(f, s \ {x})
            BY <2>2, <3>1, SumByChoice
        <3>3. PICK z \in s :
                  /\ z = CHOOSE y \in s : TRUE
                  /\ SumFunctionOnSet(g, s) = g[z] + SumFunctionOnSet(g, s \ {z})
            BY <2>2, <3>1, SumByChoice
        <3>4. x = z /\ f[x] = g[x] /\ s \ {x} \in T
            BY <1>1, <3>2, <3>3
        <3>5. QED
            BY <3>2, <3>3, <3>4
    <2>3. QED
        BY <2>1, <2>2
<1>2. T \in SUBSET SUBSET S
    OBVIOUS
<1>3. \A s \in SUBSET S : (\A r \in SUBSET s : r # s => r \in T) => s \in T
    BY <1>1
<1>4. \A s \in SUBSET S : s \in T
    <2> HIDE DEF T
    <2>1. QED
        BY <1>2, <1>3, AllSubsets
<1>5. QED
    BY <1>4

-----------------------------------------------------------------------------
(* Sequences of numbers.                                                   *)

(* The sum of a sequence of numbers is a number.                           *)
LEMMA SeqSumIsNat == ASSUME NEW s \in Seq(Nat) PROVE SumFunction(s) \in Nat
<1>1. DOMAIN s = 1 .. Len(s) /\ Len(s) \in Nat /\ \A i \in DOMAIN s : s[i] \in Nat
    OBVIOUS
<1>2. IsFiniteSet(DOMAIN s)
    BY <1>1, FS_Interval
<1>3. QED
    BY <1>1, <1>2, SumIsNat DEF SumFunction

(* That of the empty sequence is zero.                                     *)
LEMMA SeqSumOfNone == SumFunction(<<>>) = 0
<1>1. DOMAIN <<>> = {}
    OBVIOUS
<1>2. QED
    BY <1>1, SumOfNone DEF SumFunction

(* A number that is appended is added.                                     *)
LEMMA SeqSumOfAppend ==
    ASSUME NEW s \in Seq(Nat), NEW n \in Nat
    PROVE  SumFunction(Append(s, n)) = SumFunction(s) + n
<1> DEFINE t == Append(s, n)
<1>1. /\ Len(s) \in Nat
      /\ DOMAIN s = 1 .. Len(s)
      /\ DOMAIN t = 1 .. Len(s) + 1
      /\ t[Len(s) + 1] = n
      /\ \A i \in DOMAIN s : t[i] = s[i]
      /\ \A i \in DOMAIN t : t[i] \in Nat
    OBVIOUS
<1>2. IsFiniteSet(DOMAIN s) /\ IsFiniteSet(DOMAIN t)
    BY <1>1, FS_Interval
<1>3. (DOMAIN t) \ {Len(s) + 1} = DOMAIN s /\ Len(s) + 1 \in DOMAIN t
    BY <1>1
<1> HIDE DEF t
<1>4. SumFunctionOnSet(t, DOMAIN t) = n + SumFunctionOnSet(t, DOMAIN s)
    BY <1>1, <1>2, <1>3, SumWithout
<1>5. SumFunctionOnSet(t, DOMAIN s) = SumFunctionOnSet(s, DOMAIN s)
    BY <1>1, <1>2, SumOfEquals
<1>6. SumFunction(s) \in Nat
    BY SeqSumIsNat
<1>7. SumFunction(t) = SumFunction(s) + n
    BY <1>4, <1>5, <1>6 DEF SumFunction
<1>8. QED
    BY <1>7 DEF t

(* The sum of two sequences behind each other is that of their sums.       *)
LEMMA SeqSumOfConcat ==
    ASSUME NEW s \in Seq(Nat), NEW t \in Seq(Nat)
    PROVE  SumFunction(s \o t) = SumFunction(s) + SumFunction(t)
<1> DEFINE P(n) == SubSeq(t, 1, n)
<1> DEFINE T == {n \in Nat : n <= Len(t) =>
                    SumFunction(s \o P(n)) = SumFunction(s) + SumFunction(P(n))}
<1>1. Len(t) \in Nat /\ P(Len(t)) = t
    OBVIOUS
<1>2. 0 \in T
    <2>1. P(0) = <<>> /\ s \o P(0) = s
        OBVIOUS
    <2>2. SumFunction(s) \in Nat
        BY SeqSumIsNat
    <2>3. SumFunction(s \o P(0)) = SumFunction(s) + SumFunction(P(0))
        <3> HIDE DEF P, T
        <3>1. SumFunction(s \o P(0)) = SumFunction(s)
            BY <2>1, Zenon
        <3>2. SumFunction(P(0)) = 0
            BY <2>1, SeqSumOfNone, Zenon
        <3>3. QED
            BY <2>2, <3>1, <3>2
    <2>4. QED
        BY <2>3
<1>3. ASSUME NEW n \in T
      PROVE  n + 1 \in T
    <2>1. SUFFICES ASSUME n + 1 <= Len(t)
                   PROVE  SumFunction(s \o P(n + 1))
                            = SumFunction(s) + SumFunction(P(n + 1))
        OBVIOUS
    <2>2. n \in Nat /\ n <= Len(t)
        BY <2>1
    <2>3. /\ P(n) \in Seq(Nat)
          /\ t[n + 1] \in Nat
          /\ P(n + 1) = Append(P(n), t[n + 1])
        BY <2>1, <2>2
    <2>4. /\ s \o P(n) \in Seq(Nat)
          /\ s \o P(n + 1) = Append(s \o P(n), t[n + 1])
        BY <2>3
    <2>5. SumFunction(s \o P(n)) = SumFunction(s) + SumFunction(P(n))
        BY <2>2
    <2> HIDE DEF P
    <2>6. SumFunction(s \o P(n + 1)) = SumFunction(s \o P(n)) + t[n + 1]
        BY <2>3, <2>4, SeqSumOfAppend
    <2>7. SumFunction(P(n + 1)) = SumFunction(P(n)) + t[n + 1]
        BY <2>3, SeqSumOfAppend
    <2>8. SumFunction(s) \in Nat /\ SumFunction(P(n)) \in Nat
        BY <2>3, SeqSumIsNat
    <2>9. QED
        BY <2>3, <2>5, <2>6, <2>7, <2>8
<1>4. Len(t) \in T
    <2>1. T \in SUBSET Nat
        OBVIOUS
    <2>2. T = Nat
        <3> HIDE DEF T
        <3>1. QED
            BY <1>2, <1>3, <2>1, AllNumbers
    <2>3. QED
        BY <1>1, <2>2
<1>5. SumFunction(s \o P(Len(t))) = SumFunction(s) + SumFunction(P(Len(t)))
    BY <1>1, <1>4
<1>6. QED
    <2> HIDE DEF P
    <2>1. QED
        BY <1>1, <1>5

=============================================================================
