------------------------------ MODULE SumProofs ------------------------------
(***************************************************************************)
(* Lemmas about the sums that the specifications take with SumFunction and *)
(* SumFunctionOnSet (Functions.tla): of the bytes of a ring, of the drops  *)
(* that warnings report, of the items in the rows of a world.  They are    *)
(* proved by induction on the size of the index set, which is written with *)
(* the set of the numbers a claim holds for.                               *)
(***************************************************************************)
EXTENDS Functions, Sequences, FiniteSets, FiniteSetTheorems, SequenceTheorems,
        WellFoundedInduction, TLAPS

(* A nonempty set of numbers has a least one.                              *)
LEMMA LeastNumber ==
    ASSUME NEW T, T \subseteq Nat, T # {}
    PROVE  \E n \in T : \A m \in 0 .. n - 1 : m \notin T
<1>1. PICK n \in T : \A m \in T : ~(<<m, n>> \in OpToRel(<, Nat))
  BY NatLessThanWellFounded, WFMin
<1>2. ASSUME NEW m \in 0 .. n - 1 PROVE m \notin T
  <2>1. n \in Nat /\ m \in Nat /\ m < n
    BY <1>2
  <2>2. <<m, n>> \in OpToRel(<, Nat)
    BY <2>1 DEF OpToRel
  <2> QED
    BY <1>1, <2>2
<1> QED
  BY <1>2

(* A set of numbers that holds every number all smaller ones of which it   *)
(* holds, holds all numbers.                                               *)
LEMMA StrongInduction ==
    ASSUME NEW Holds, \A n \in Nat : (\A m \in 0 .. n - 1 : m \in Holds) => n \in Holds
    PROVE  \A n \in Nat : n \in Holds
<1> DEFINE Failing == {n \in Nat : n \notin Holds}
<1>1. SUFFICES ASSUME Failing # {} PROVE FALSE
  OBVIOUS
<1>2. PICK n \in Failing : \A m \in 0 .. n - 1 : m \notin Failing
  BY <1>1, LeastNumber
<1>3. \A m \in 0 .. n - 1 : m \in Nat
  BY <1>2
<1> QED
  BY <1>2, <1>3

(* Ordinary induction.                                                     *)
LEMMA Induction ==
    ASSUME NEW Holds, 0 \in Holds, \A n \in Nat : n \in Holds => n + 1 \in Holds
    PROVE  \A n \in Nat : n \in Holds
<1>1. ASSUME NEW n \in Nat, \A m \in 0 .. n - 1 : m \in Holds
      PROVE  n \in Holds
  <2>1. CASE n = 0
    BY <2>1
  <2>2. CASE n # 0
    <3>1. n - 1 \in Nat /\ n - 1 \in 0 .. n - 1 /\ n = (n - 1) + 1
      BY <2>2
    <3>2. n - 1 \in Holds
      BY <1>1, <3>1
    <3>3. (n - 1) + 1 \in Holds
      BY <3>1, <3>2
    <3> QED
      BY <3>1, <3>3
  <2> QED
    BY <2>1, <2>2
<1> QED
  BY <1>1, StrongInduction

-----------------------------------------------------------------------------
(* The function that the fold of a sum is the value of.                    *)

Some(s) == CHOOSE x \in s : TRUE

Unfolds(f, S, sum) ==
    sum = [s \in SUBSET S |-> IF s = {} THEN 0 ELSE f[Some(s)] + sum[s \ {Some(s)}]]

Unfolding(f, S) == CHOOSE sum : Unfolds(f, S, sum)

LEMMA SumIsUnfolding ==
    ASSUME NEW f, NEW S
    PROVE  SumFunctionOnSet(f, S) = Unfolding(f, S)[S]
BY DEF SumFunctionOnSet, FoldFunctionOnSet, MapThenFoldSet, Unfolds, Unfolding, Some

LEMMA SomeElement == ASSUME NEW S, S # {} PROVE Some(S) \in S
BY DEF Some

LEMMA SmallerSet ==
    ASSUME NEW S, IsFiniteSet(S), NEW x \in S
    PROVE  /\ IsFiniteSet(S \ {x})
           /\ Cardinality(S) \in Nat \ {0}
           /\ Cardinality(S \ {x}) = Cardinality(S) - 1
<1>1. Cardinality(S) \in Nat /\ Cardinality(S) # 0
  BY FS_CardinalityType, FS_EmptySet
<1> QED
  BY <1>1, FS_RemoveElement

(* On the subsets of at most n elements there is such a function for every *)
(* n, hence on all subsets of a finite set.                                *)
LEMMA UnfoldingExists ==
    ASSUME NEW f, NEW S, IsFiniteSet(S)
    PROVE  Unfolds(f, S, Unfolding(f, S))
<1> DEFINE Value(sum, s) == IF s = {} THEN 0 ELSE f[Some(s)] + sum[s \ {Some(s)}]
           Upto(n, sum) == \A s \in SUBSET S : Cardinality(s) <= n => sum[s] = Value(sum, s)
           Holds == {n \in Nat : \E sum : Upto(n, sum)}
<1>0. \A s \in SUBSET S : IsFiniteSet(s) /\ Cardinality(s) \in Nat /\ Cardinality(s) <= Cardinality(S)
  BY FS_Subset, FS_CardinalityType
<1>1. 0 \in Holds
  <2>1. \A s \in SUBSET S : Cardinality(s) <= 0 => s = {}
    BY <1>0, FS_EmptySet
  <2>2. Upto(0, [s \in SUBSET S |-> 0])
    BY <2>1
  <2> QED
    BY <2>2
<1>2. ASSUME NEW n \in Nat, n \in Holds PROVE n + 1 \in Holds
  <2>1. PICK sum : Upto(n, sum)
    BY <1>2
  <2> DEFINE more == [s \in SUBSET S |-> Value(sum, s)]
  <2>2. ASSUME NEW s \in SUBSET S, Cardinality(s) <= n + 1 PROVE more[s] = Value(more, s)
    <3>1. CASE s = {}
      BY <3>1
    <3>2. CASE s # {}
      <4> DEFINE t == s \ {Some(s)}
      <4>1. t \in SUBSET S /\ Cardinality(t) <= n
        BY <1>0, <2>2, <3>2, SomeElement, SmallerSet
      <4>2. sum[t] = Value(sum, t)
        BY <2>1, <4>1
      <4>3. more[t] = sum[t]
        BY <4>1, <4>2
      <4> QED
        BY <3>2, <4>3
    <3> QED
      BY <3>1, <3>2
  <2>3. Upto(n + 1, more)
    BY <2>2
  <2> HIDE DEF more, Upto
  <2>4. \E g : Upto(n + 1, g)
    BY <2>3
  <2> QED
    BY <2>4
<1> HIDE DEF Holds
<1>3. \A n \in Nat : n \in Holds
  BY <1>1, <1>2, Induction
<1>4. PICK sum : Upto(Cardinality(S), sum)
  BY <1>0, <1>3 DEF Holds
<1> DEFINE all == [s \in SUBSET S |-> Value(sum, s)]
<1>5. \A s \in SUBSET S : sum[s] = Value(sum, s)
  BY <1>0, <1>4
<1>6. Unfolds(f, S, all)
  <2>1. ASSUME NEW s \in SUBSET S PROVE all[s] = Value(all, s)
    <3>1. s \ {Some(s)} \in SUBSET S
      OBVIOUS
    <3>2. all[s \ {Some(s)}] = sum[s \ {Some(s)}]
      BY <1>5, <3>1
    <3> QED
      BY <3>2
  <2>2. all = [s \in SUBSET S |-> Value(all, s)]
    BY <2>1
  <2> QED
    BY <2>2 DEF Unfolds
<1> QED
  BY <1>6 DEF Unfolding

(* There is only one.                                                      *)
LEMMA UnfoldingUnique ==
    ASSUME NEW f, NEW S, IsFiniteSet(S), NEW T \in SUBSET S
    PROVE  Unfolding(f, S)[T] = Unfolding(f, T)[T]
<1> DEFINE g == Unfolding(f, S)
           h == Unfolding(f, T)
           Holds == {n \in Nat : \A s \in SUBSET T : Cardinality(s) = n => g[s] = h[s]}
<1>1. /\ IsFiniteSet(T)
      /\ \A s \in SUBSET T : IsFiniteSet(s) /\ Cardinality(s) \in Nat
  BY FS_Subset, FS_CardinalityType
<1>2. Unfolds(f, S, g) /\ Unfolds(f, T, h)
  BY <1>1, UnfoldingExists
<1> HIDE DEF g, h
<1>3. ASSUME NEW n \in Nat, \A m \in 0 .. n - 1 : m \in Holds PROVE n \in Holds
  <2>1. ASSUME NEW s \in SUBSET T, Cardinality(s) = n PROVE g[s] = h[s]
    <3> DEFINE t == s \ {Some(s)}
    <3>1. CASE s = {}
      BY <1>2, <3>1 DEF Unfolds
    <3>2. CASE s # {}
      <4>1. t \in SUBSET T /\ Cardinality(t) \in 0 .. n - 1
        BY <1>1, <2>1, <3>2, SomeElement, SmallerSet
      <4>2. g[t] = h[t]
        BY <1>3, <4>1
      <4>3. g[s] = f[Some(s)] + g[t] /\ h[s] = f[Some(s)] + h[t]
        BY <1>2, <3>2 DEF Unfolds
      <4> QED
        BY <4>2, <4>3
    <3> QED
      BY <3>1, <3>2
  <2> QED
    BY <2>1
<1> HIDE DEF Holds
<1>4. \A n \in Nat : n \in Holds
  BY <1>3, StrongInduction
<1> QED
  BY <1>1, <1>4 DEF Holds, g, h

-----------------------------------------------------------------------------
(* What sums satisfy.                                                      *)

LEMMA SumEmpty == ASSUME NEW f PROVE SumFunctionOnSet(f, {}) = 0
<1>1. Unfolds(f, {}, Unfolding(f, {}))
  BY UnfoldingExists, FS_EmptySet
<1> QED
  BY <1>1, SumIsUnfolding DEF Unfolds

LEMMA SumUnfold ==
    ASSUME NEW f, NEW S, IsFiniteSet(S), S # {}
    PROVE  SumFunctionOnSet(f, S) = f[Some(S)] + SumFunctionOnSet(f, S \ {Some(S)})
<1> DEFINE T == S \ {Some(S)}
<1>1. Unfolds(f, S, Unfolding(f, S))
  BY UnfoldingExists
<1>2. Unfolding(f, S)[S] = f[Some(S)] + Unfolding(f, S)[T]
  BY <1>1 DEF Unfolds
<1>3. Unfolding(f, S)[T] = Unfolding(f, T)[T]
  BY UnfoldingUnique
<1>4. SumFunctionOnSet(f, S) = Unfolding(f, S)[S] /\ SumFunctionOnSet(f, T) = Unfolding(f, T)[T]
  BY SumIsUnfolding
<1> QED
  BY <1>2, <1>3, <1>4

(* A sum of natural numbers is one.                                        *)
LEMMA SumNat ==
    ASSUME NEW f, NEW S, IsFiniteSet(S), \A x \in S : f[x] \in Nat
    PROVE  SumFunctionOnSet(f, S) \in Nat
<1> DEFINE Holds == {n \in Nat : \A T \in SUBSET S : Cardinality(T) = n => SumFunctionOnSet(f, T) \in Nat}
<1>1. \A T \in SUBSET S : IsFiniteSet(T) /\ Cardinality(T) \in Nat
  BY FS_Subset, FS_CardinalityType
<1>2. ASSUME NEW n \in Nat, \A m \in 0 .. n - 1 : m \in Holds PROVE n \in Holds
  <2>1. ASSUME NEW T \in SUBSET S, Cardinality(T) = n PROVE SumFunctionOnSet(f, T) \in Nat
    <3>1. CASE T = {}
      BY <3>1, SumEmpty
    <3>2. CASE T # {}
      <4>1. Some(T) \in T
        BY <3>2, SomeElement
      <4>2. T \ {Some(T)} \in SUBSET S /\ Cardinality(T \ {Some(T)}) \in 0 .. n - 1
        BY <1>1, <2>1, <4>1, SmallerSet
      <4>3. SumFunctionOnSet(f, T \ {Some(T)}) \in Nat
        BY <1>2, <4>2
      <4>4. f[Some(T)] \in Nat
        BY <4>1
      <4>5. SumFunctionOnSet(f, T) = f[Some(T)] + SumFunctionOnSet(f, T \ {Some(T)})
        BY <1>1, <3>2, SumUnfold
      <4> QED
        BY <4>3, <4>4, <4>5
    <3> QED
      BY <3>1, <3>2
  <2> QED
    BY <2>1
<1> HIDE DEF Holds
<1>3. \A n \in Nat : n \in Holds
  BY <1>2, StrongInduction
<1> QED
  BY <1>1, <1>3 DEF Holds

(* A sum of integers is one.                                                *)
LEMMA SumInt ==
    ASSUME NEW f, NEW S, IsFiniteSet(S), \A x \in S : f[x] \in Int
    PROVE  SumFunctionOnSet(f, S) \in Int
<1> DEFINE Holds == {n \in Nat : \A T \in SUBSET S : Cardinality(T) = n => SumFunctionOnSet(f, T) \in Int}
<1>1. \A T \in SUBSET S : IsFiniteSet(T) /\ Cardinality(T) \in Nat
  BY FS_Subset, FS_CardinalityType
<1>2. ASSUME NEW n \in Nat, \A m \in 0 .. n - 1 : m \in Holds PROVE n \in Holds
  <2>1. ASSUME NEW T \in SUBSET S, Cardinality(T) = n PROVE SumFunctionOnSet(f, T) \in Int
    <3>1. CASE T = {}
      BY <3>1, SumEmpty
    <3>2. CASE T # {}
      <4>1. Some(T) \in T
        BY <3>2, SomeElement
      <4>2. T \ {Some(T)} \in SUBSET S /\ Cardinality(T \ {Some(T)}) \in 0 .. n - 1
        BY <1>1, <2>1, <4>1, SmallerSet
      <4>3. SumFunctionOnSet(f, T \ {Some(T)}) \in Int
        BY <1>2, <4>2
      <4>4. f[Some(T)] \in Int
        BY <4>1
      <4>5. SumFunctionOnSet(f, T) = f[Some(T)] + SumFunctionOnSet(f, T \ {Some(T)})
        BY <1>1, <3>2, SumUnfold
      <4> QED
        BY <4>3, <4>4, <4>5
    <3> QED
      BY <3>1, <3>2
  <2> QED
    BY <2>1
<1> HIDE DEF Holds
<1>3. \A n \in Nat : n \in Holds
  BY <1>2, StrongInduction
<1> QED
  BY <1>1, <1>3 DEF Holds

(* Any element can be taken out of the sum.                                *)
LEMMA SumRemove ==
    ASSUME NEW f, NEW S, IsFiniteSet(S), \A x \in S : f[x] \in Int, NEW e \in S
    PROVE  SumFunctionOnSet(f, S) = f[e] + SumFunctionOnSet(f, S \ {e})
<1> DEFINE Sum(T) == SumFunctionOnSet(f, T)
           Holds == {n \in Nat : \A T \in SUBSET S : Cardinality(T) = n =>
                                    \A x \in T : Sum(T) = f[x] + Sum(T \ {x})}
<1>1. \A T \in SUBSET S : IsFiniteSet(T) /\ Cardinality(T) \in Nat /\ Sum(T) \in Int
  BY FS_Subset, FS_CardinalityType, SumInt
<1>2. ASSUME NEW n \in Nat, \A m \in 0 .. n - 1 : m \in Holds PROVE n \in Holds
  <2>1. ASSUME NEW T \in SUBSET S, Cardinality(T) = n, NEW x \in T
        PROVE  Sum(T) = f[x] + Sum(T \ {x})
    <3> DEFINE c == Some(T)
    <3>1. c \in T /\ Sum(T) = f[c] + Sum(T \ {c})
      BY <1>1, SumUnfold, SomeElement
    <3>2. CASE x = c
      BY <3>1, <3>2
    <3>3. CASE x # c
      <4>1. /\ T \ {c} \in SUBSET S /\ Cardinality(T \ {c}) \in 0 .. n - 1
            /\ T \ {x} \in SUBSET S /\ Cardinality(T \ {x}) \in 0 .. n - 1
        BY <1>1, <2>1, <3>1, SmallerSet
      <4>2. x \in T \ {c} /\ c \in T \ {x}
        BY <3>1, <3>3
      <4>3. Sum(T \ {c}) = f[x] + Sum((T \ {c}) \ {x}) /\ Sum(T \ {x}) = f[c] + Sum((T \ {x}) \ {c})
        BY <1>2, <4>1, <4>2
      <4>4. (T \ {c}) \ {x} = (T \ {x}) \ {c} /\ (T \ {c}) \ {x} \in SUBSET S
        OBVIOUS
      <4>5. Sum((T \ {c}) \ {x}) \in Int /\ f[x] \in Int /\ f[c] \in Int
        BY <1>1, <3>1, <4>4
      <4>6. PICK sum \in Int, fx \in Int, fc \in Int :
               /\ sum = Sum((T \ {c}) \ {x}) /\ sum = Sum((T \ {x}) \ {c})
               /\ fx = f[x] /\ fc = f[c]
        BY <4>4, <4>5
      <4> HIDE DEF c, Sum
      <4>7. Sum(T) = fc + (fx + sum) /\ Sum(T \ {x}) = fc + sum
        BY <3>1, <4>3, <4>6
      <4>8. fc + (fx + sum) = fx + (fc + sum)
        BY <4>6
      <4> QED
        BY <4>6, <4>7, <4>8
    <3> QED
      BY <3>2, <3>3
  <2> QED
    BY <2>1
<1> HIDE DEF Holds
<1>3. \A n \in Nat : n \in Holds
  BY <1>2, StrongInduction
<1> QED
  BY <1>1, <1>3 DEF Holds

(* Functions that agree on the set have the same sum.                      *)
LEMMA SumSame ==
    ASSUME NEW f, NEW g, NEW S, IsFiniteSet(S), \A x \in S : f[x] = g[x]
    PROVE  SumFunctionOnSet(f, S) = SumFunctionOnSet(g, S)
<1> DEFINE Holds == {n \in Nat : \A T \in SUBSET S : Cardinality(T) = n =>
                        SumFunctionOnSet(f, T) = SumFunctionOnSet(g, T)}
<1>1. \A T \in SUBSET S : IsFiniteSet(T) /\ Cardinality(T) \in Nat
  BY FS_Subset, FS_CardinalityType
<1>2. ASSUME NEW n \in Nat, \A m \in 0 .. n - 1 : m \in Holds PROVE n \in Holds
  <2>1. ASSUME NEW T \in SUBSET S, Cardinality(T) = n
        PROVE  SumFunctionOnSet(f, T) = SumFunctionOnSet(g, T)
    <3>1. CASE T = {}
      BY <3>1, SumEmpty
    <3>2. CASE T # {}
      <4> DEFINE c == Some(T)
      <4>1. c \in T /\ T \ {c} \in SUBSET S /\ Cardinality(T \ {c}) \in 0 .. n - 1
        BY <1>1, <2>1, <3>2, SmallerSet, SomeElement
      <4>2. SumFunctionOnSet(f, T \ {c}) = SumFunctionOnSet(g, T \ {c}) /\ f[c] = g[c]
        BY <1>2, <4>1
      <4>3. /\ SumFunctionOnSet(f, T) = f[c] + SumFunctionOnSet(f, T \ {c})
            /\ SumFunctionOnSet(g, T) = g[c] + SumFunctionOnSet(g, T \ {c})
        BY <1>1, <3>2, SumUnfold
      <4> QED
        BY <4>2, <4>3
    <3> QED
      BY <3>1, <3>2
  <2> QED
    BY <2>1
<1> HIDE DEF Holds
<1>3. \A n \in Nat : n \in Holds
  BY <1>2, StrongInduction
<1> QED
  BY <1>1, <1>3 DEF Holds

(* One index more.                                                         *)
LEMMA SumInsert ==
    ASSUME NEW f, NEW g, NEW S, IsFiniteSet(S), NEW e, e \notin S,
           \A x \in S \cup {e} : g[x] \in Int, \A x \in S : f[x] = g[x]
    PROVE  SumFunctionOnSet(g, S \cup {e}) = SumFunctionOnSet(f, S) + g[e]
<1>1. IsFiniteSet(S \cup {e}) /\ (S \cup {e}) \ {e} = S
  BY FS_AddElement
<1>2. SumFunctionOnSet(g, S \cup {e}) = g[e] + SumFunctionOnSet(g, S)
  BY <1>1, SumRemove
<1>3. SumFunctionOnSet(g, S) = SumFunctionOnSet(f, S) /\ SumFunctionOnSet(g, S) \in Int
  BY SumSame, SumInt
<1>4. g[e] \in Int
  OBVIOUS
<1> QED
  BY <1>2, <1>3, <1>4

(* One term changed.                                                       *)
LEMMA SumChange ==
    ASSUME NEW f, NEW g, NEW S, IsFiniteSet(S), NEW e \in S,
           \A x \in S : f[x] \in Int /\ g[x] \in Int, \A x \in S \ {e} : f[x] = g[x]
    PROVE  SumFunctionOnSet(g, S) + f[e] = SumFunctionOnSet(f, S) + g[e]
<1>1. /\ SumFunctionOnSet(g, S) = g[e] + SumFunctionOnSet(g, S \ {e})
      /\ SumFunctionOnSet(f, S) = f[e] + SumFunctionOnSet(f, S \ {e})
  BY SumRemove
<1>2. IsFiniteSet(S \ {e})
  BY FS_RemoveElement
<1>3. SumFunctionOnSet(g, S \ {e}) = SumFunctionOnSet(f, S \ {e})
  BY <1>2, SumSame
<1>4. SumFunctionOnSet(f, S \ {e}) \in Int
  BY <1>2, SumInt
<1>5. f[e] \in Int /\ g[e] \in Int
  OBVIOUS
<1> QED
  BY <1>1, <1>3, <1>4, <1>5

(* A sum of zeros.                                                         *)
LEMMA SumZero ==
    ASSUME NEW f, NEW S, IsFiniteSet(S), \A x \in S : f[x] = 0
    PROVE  SumFunctionOnSet(f, S) = 0
<1> DEFINE Holds == {n \in Nat : \A T \in SUBSET S : Cardinality(T) = n => SumFunctionOnSet(f, T) = 0}
<1>1. \A T \in SUBSET S : IsFiniteSet(T) /\ Cardinality(T) \in Nat
  BY FS_Subset, FS_CardinalityType
<1>2. ASSUME NEW n \in Nat, \A m \in 0 .. n - 1 : m \in Holds PROVE n \in Holds
  <2>1. ASSUME NEW T \in SUBSET S, Cardinality(T) = n PROVE SumFunctionOnSet(f, T) = 0
    <3>1. CASE T = {}
      BY <3>1, SumEmpty
    <3>2. CASE T # {}
      <4> DEFINE c == Some(T)
      <4>1. c \in T /\ T \ {c} \in SUBSET S /\ Cardinality(T \ {c}) \in 0 .. n - 1
        BY <1>1, <2>1, <3>2, SmallerSet, SomeElement
      <4>2. SumFunctionOnSet(f, T \ {c}) = 0 /\ f[c] = 0
        BY <1>2, <4>1
      <4>3. SumFunctionOnSet(f, T) = f[c] + SumFunctionOnSet(f, T \ {c})
        BY <1>1, <3>2, SumUnfold
      <4> QED
        BY <4>2, <4>3
    <3> QED
      BY <3>1, <3>2
  <2> QED
    BY <2>1
<1> HIDE DEF Holds
<1>3. \A n \in Nat : n \in Holds
  BY <1>2, StrongInduction
<1> QED
  BY <1>1, <1>3 DEF Holds

-----------------------------------------------------------------------------
(* Sums of sequences of natural numbers.                                   *)

LEMMA SumSeqNat == ASSUME NEW s \in Seq(Nat) PROVE SumFunction(s) \in Nat
<1>1. DOMAIN s = 1 .. Len(s) /\ Len(s) \in Nat /\ \A i \in DOMAIN s : s[i] \in Nat
  BY LenProperties
<1>2. IsFiniteSet(DOMAIN s)
  BY <1>1, FS_Interval
<1> QED
  BY <1>1, <1>2, SumNat DEF SumFunction

LEMMA SumAppend ==
    ASSUME NEW s \in Seq(Nat), NEW n \in Nat
    PROVE  SumFunction(Append(s, n)) = SumFunction(s) + n
<1> DEFINE t == Append(s, n)
<1>1. DOMAIN s = 1 .. Len(s) /\ Len(s) \in Nat /\ \A i \in DOMAIN s : s[i] \in Nat
  BY LenProperties
<1>2. /\ t \in Seq(Nat) /\ DOMAIN t = 1 .. Len(s) + 1
      /\ t[Len(s) + 1] = n
      /\ \A i \in 1 .. Len(s) : t[i] = s[i]
  BY <1>1, AppendProperties, LenProperties
<1> HIDE DEF t
<1>3. DOMAIN t = DOMAIN s \cup {Len(s) + 1} /\ Len(s) + 1 \notin DOMAIN s
  BY <1>1, <1>2
<1>4. IsFiniteSet(DOMAIN s)
  BY <1>1, FS_Interval
<1>5. \A x \in DOMAIN s \cup {Len(s) + 1} : t[x] \in Nat
  BY <1>1, <1>2
<1>6. SumFunctionOnSet(t, DOMAIN s \cup {Len(s) + 1}) = SumFunctionOnSet(s, DOMAIN s) + t[Len(s) + 1]
  BY <1>1, <1>2, <1>3, <1>4, <1>5, SumInsert
<1> QED
  BY <1>2, <1>3, <1>6 DEF SumFunction, t

(* A sequence cut in two.                                                  *)
LEMMA SumSplit ==
    ASSUME NEW s \in Seq(Nat), NEW n \in 0 .. Len(s)
    PROVE  SumFunction(s) = SumFunction(SubSeq(s, 1, n)) + SumFunction(SubSeq(s, n + 1, Len(s)))
<1> DEFINE Holds == {k \in Nat : n + k <= Len(s) =>
                       SumFunction(SubSeq(s, 1, n + k)) =
                       SumFunction(SubSeq(s, 1, n)) + SumFunction(SubSeq(s, n + 1, n + k))}
<1>1. Len(s) \in Nat /\ n \in Nat /\ n <= Len(s) /\ DOMAIN s = 1 .. Len(s)
  BY LenProperties
<1>2. 0 \in Holds
  <2>1. SubSeq(s, n + 1, n) = <<>>
    BY <1>1, SubSeqEmpty
  <2>2. SumFunction(<<>>) = 0
    BY SumEmpty DEF SumFunction
  <2>3. SubSeq(s, 1, n) \in Seq(Nat)
    BY <1>1, SubSeqProperties
  <2>4. SumFunction(SubSeq(s, 1, n)) \in Nat
    BY <2>3, SumSeqNat
  <2>5. SumFunction(SubSeq(s, n + 1, n)) = 0
    BY <2>1, <2>2
  <2>6. SumFunction(SubSeq(s, 1, n)) = SumFunction(SubSeq(s, 1, n)) + SumFunction(SubSeq(s, n + 1, n))
    BY <2>4, <2>5
  <2>7. n + 0 = n
    BY <1>1
  <2> QED
    BY <2>6, <2>7
<1>3. ASSUME NEW k \in Nat, k \in Holds PROVE k + 1 \in Holds
  <2>1. SUFFICES ASSUME n + (k + 1) <= Len(s)
                 PROVE  SumFunction(SubSeq(s, 1, n + (k + 1))) =
                        SumFunction(SubSeq(s, 1, n)) + SumFunction(SubSeq(s, n + 1, n + (k + 1)))
    OBVIOUS
  <2> DEFINE m == n + k
  <2>2. m \in Nat /\ n + (k + 1) = m + 1 /\ m + 1 <= Len(s) /\ n <= m
    BY <1>1, <2>1
  <2>3. s[m + 1] \in Nat
    BY <1>1, <2>2, ElementOfSeq
  <2>4. /\ SubSeq(s, 1, m) \in Seq(Nat) /\ SubSeq(s, n + 1, m) \in Seq(Nat)
        /\ SubSeq(s, 1, n) \in Seq(Nat)
    BY <1>1, <2>2, SubSeqProperties
  <2>5. SubSeq(s, 1, m + 1) = Append(SubSeq(s, 1, m), s[m + 1])
    BY <1>1, <2>2, SubSeqRecursiveSecond
  <2>6. SubSeq(s, n + 1, m + 1) = Append(SubSeq(s, n + 1, m), s[m + 1])
    BY <1>1, <2>2, SubSeqRecursiveSecond
  <2>7. SumFunction(SubSeq(s, 1, m)) = SumFunction(SubSeq(s, 1, n)) + SumFunction(SubSeq(s, n + 1, m))
    BY <1>3, <2>2
  <2>8. /\ SumFunction(SubSeq(s, 1, m + 1)) = SumFunction(SubSeq(s, 1, m)) + s[m + 1]
        /\ SumFunction(SubSeq(s, n + 1, m + 1)) = SumFunction(SubSeq(s, n + 1, m)) + s[m + 1]
    BY <2>3, <2>4, <2>5, <2>6, SumAppend
  <2>9. SumFunction(SubSeq(s, 1, n)) \in Nat /\ SumFunction(SubSeq(s, n + 1, m)) \in Nat
    BY <2>4, SumSeqNat
  <2> QED
    BY <2>2, <2>3, <2>7, <2>8, <2>9
<1> HIDE DEF Holds
<1>4. \A k \in Nat : k \in Holds
  BY <1>2, <1>3, Induction
<1>5. PICK k \in Nat : n + k = Len(s)
  <2>1. Len(s) - n \in Nat /\ n + (Len(s) - n) = Len(s)
    BY <1>1
  <2> QED
    BY <2>1
<1>6. SumFunction(SubSeq(s, 1, Len(s))) = SumFunction(SubSeq(s, 1, n)) + SumFunction(SubSeq(s, n + 1, Len(s)))
  <2>1. k \in Holds
    BY <1>4
  <2>2. n + k <= Len(s)
    BY <1>1, <1>5
  <2>3. SumFunction(SubSeq(s, 1, n + k)) = SumFunction(SubSeq(s, 1, n)) + SumFunction(SubSeq(s, n + 1, n + k))
    BY <2>1, <2>2 DEF Holds
  <2> QED
    BY <1>5, <2>3
<1>7. SubSeq(s, 1, Len(s)) = s
  BY SubSeqFull
<1> QED
  BY <1>6, <1>7
=============================================================================
