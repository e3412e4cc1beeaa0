----------------------------- MODULE SumsProofs -----------------------------
(***************************************************************************)
(* Induction over the natural numbers, and what it says about sums.        *)
(*                                                                         *)
(* The induction rule of the library takes the property as an operator.    *)
(* Here it is taken as the set of the numbers that have it, which rests    *)
(* on the well-foundedness of the order alone.                             *)
(***************************************************************************)
EXTENDS Sums, FiniteSetTheorems, WellFoundedInduction, TLAPS

(* A set of numbers that is not empty has a least element. *)
LEMMA LeastExists ==
    ASSUME NEW T \in SUBSET Nat, T # {}
    PROVE  \E x \in T : \A y \in T : x <= y
<1> DEFINE R == OpToRel(<, Nat)
<1>1. IsWellFoundedOn(R, Nat)
    BY NatLessThanWellFounded
<1> HIDE DEF R
<1>2. PICK x \in T : \A y \in T : ~ (<<y, x>> \in R)
    BY <1>1, WFMin
<1>3. \A a, b \in Nat : b < a => <<b, a>> \in R
    BY DEF R, OpToRel
<1>4. \A y \in T : ~ (y < x)
    BY <1>2, <1>3
<1> QED
    BY <1>2, <1>4

(* What holds of 0, and of n + 1 when it holds of n, holds of every n.     *)
LEMMA SetInduction ==
    ASSUME NEW S, 0 \in S, \A n \in Nat : n \in S => n + 1 \in S
    PROVE  Nat \subseteq S
<1> DEFINE T == Nat \ S
<1>1. SUFFICES ASSUME T # {} PROVE FALSE
    OBVIOUS
<1>2. PICK x \in T : \A y \in T : x <= y
    BY <1>1, LeastExists
<1>3. x # 0 /\ x - 1 \in Nat /\ x - 1 \notin T
    BY <1>2
<1>4. x - 1 \in S
    BY <1>3
<1>5. (x - 1) + 1 \in S
    BY <1>3, <1>4
<1> QED
    BY <1>5, <1>2
-----------------------------------------------------------------------------
(* SumOf is defined by recursion over the subsets: sums of all of them are *)
(* needed to speak of one.                                                 *)
Chosen(s) == CHOOSE x \in s : TRUE

Sums(f, D, h) ==
    h = [s \in D |-> IF s = {} THEN 0
                     ELSE f[Chosen(s)] + h[s \ {Chosen(s)}]]

LEMMA ChosenIn ==
    ASSUME NEW s, s # {}
    PROVE  Chosen(s) \in s
BY DEF Chosen

UpTo(S, n) == {s \in SUBSET S : Cardinality(s) <= n}

LEMMA SubsetFacts ==
    ASSUME NEW S, IsFiniteSet(S), NEW s \in SUBSET S
    PROVE  /\ IsFiniteSet(s) /\ Cardinality(s) \in Nat
           /\ Cardinality(s) <= Cardinality(S)
           /\ Cardinality(s) = 0 <=> s = {}
           /\ \A x \in s : /\ s \ {x} \in SUBSET S
                           /\ Cardinality(s \ {x}) = Cardinality(s) - 1
<1>1. IsFiniteSet(s) /\ Cardinality(s) <= Cardinality(S)
    BY FS_Subset
<1>2. Cardinality(s) \in Nat /\ (Cardinality(s) = 0 <=> s = {})
    BY <1>1, FS_CardinalityType, FS_EmptySet
<1>3. \A x \in s : Cardinality(s \ {x}) = Cardinality(s) - 1
    BY <1>1, FS_RemoveElement
<1> QED
    BY <1>1, <1>2, <1>3

(* The recursion has a solution over a finite set. *)
LEMMA SumsExist ==
    ASSUME NEW S, IsFiniteSet(S), NEW f
    PROVE  \E h : Sums(f, SUBSET S, h)
<1> DEFINE Has == {n \in Nat : \E h : Sums(f, UpTo(S, n), h)}
<1>1. 0 \in Has
    <2> DEFINE h == [s \in UpTo(S, 0) |-> 0]
    <2>1. \A s \in UpTo(S, 0) : s = {}
        BY SubsetFacts DEF UpTo
    <2>2. Sums(f, UpTo(S, 0), h)
        BY <2>1 DEF Sums
    <2> QED
        BY <2>2
<1>2. ASSUME NEW n \in Nat, n \in Has
      PROVE  n + 1 \in Has
    <2>1. PICK g : Sums(f, UpTo(S, n), g)
        BY <1>2
    <2> DEFINE h == [s \in UpTo(S, n + 1) |->
                        IF s = {} THEN 0
                        ELSE f[Chosen(s)] + g[s \ {Chosen(s)}]]
    <2>2. \A s \in UpTo(S, n) : s \in UpTo(S, n + 1) /\ h[s] = g[s]
        <3>1. \A s \in UpTo(S, n) : s \in UpTo(S, n + 1)
            BY SubsetFacts DEF UpTo
        <3>2. \A s \in UpTo(S, n) :
                  g[s] = IF s = {} THEN 0
                         ELSE f[Chosen(s)] + g[s \ {Chosen(s)}]
            BY <2>1 DEF Sums
        <3> QED
            BY <3>1, <3>2
    <2>3. \A s \in UpTo(S, n + 1) : s # {} => s \ {Chosen(s)} \in UpTo(S, n)
        BY SubsetFacts, ChosenIn DEF UpTo
    <2>4. \A s \in UpTo(S, n + 1) :
              s # {} => h[s \ {Chosen(s)}] = g[s \ {Chosen(s)}]
        BY <2>2, <2>3
    <2>5. Sums(f, UpTo(S, n + 1), h)
        BY <2>4 DEF Sums
    <2> QED
        BY <2>5
<1> HIDE DEF Has
<1>3. Cardinality(S) \in Has
    BY <1>1, <1>2, SetInduction, FS_CardinalityType
<1>4. UpTo(S, Cardinality(S)) = SUBSET S
    BY SubsetFacts DEF UpTo
<1> QED
    BY <1>3, <1>4 DEF Has

AllSums(f, S) == CHOOSE h : Sums(f, SUBSET S, h)

LEMMA SumOfDef ==
    ASSUME NEW f, NEW S
    PROVE  SumOf(f, S) = AllSums(f, S)[S]
BY DEF SumOf, MapThenSumSet, MapThenFoldSet, AllSums, Sums, Chosen

LEMMA AllSumsStep ==
    ASSUME NEW S, IsFiniteSet(S), NEW f
    PROVE  \A s \in SUBSET S :
               AllSums(f, S)[s] =
                   IF s = {} THEN 0
                   ELSE f[Chosen(s)] + AllSums(f, S)[s \ {Chosen(s)}]
<1>1. Sums(f, SUBSET S, AllSums(f, S))
    BY SumsExist DEF AllSums
<1> HIDE DEF AllSums
<1> QED
    BY <1>1 DEF Sums

(* The sum over a set depends on the values in that set alone.             *)
LEMMA AllSumsAgree ==
    ASSUME NEW S, IsFiniteSet(S), NEW T, IsFiniteSet(T), NEW f, NEW g,
           \A x \in S \cap T : f[x] = g[x]
    PROVE  \A s \in SUBSET (S \cap T) : AllSums(f, S)[s] = AllSums(g, T)[s]
<1> DEFINE Has == {n \in Nat : \A s \in SUBSET (S \cap T) :
                       Cardinality(s) = n => AllSums(f, S)[s] = AllSums(g, T)[s]}
<1>1. 0 \in Has
    <2>1. \A s \in SUBSET (S \cap T) : Cardinality(s) = 0 => s = {}
        BY SubsetFacts
    <2>2. AllSums(f, S)[{}] = 0 /\ AllSums(g, T)[{}] = 0
        BY AllSumsStep
    <2> QED
        BY <2>1, <2>2
<1>2. ASSUME NEW n \in Nat, n \in Has
      PROVE  n + 1 \in Has
    <2>1. ASSUME NEW s \in SUBSET (S \cap T), Cardinality(s) = n + 1
          PROVE  AllSums(f, S)[s] = AllSums(g, T)[s]
        <3> DEFINE x == Chosen(s)
        <3>1. s # {} /\ s \in SUBSET S /\ s \in SUBSET T
            BY <2>1, SubsetFacts
        <3>2. x \in s
            BY <3>1, ChosenIn
        <3>3. s \ {x} \in SUBSET (S \cap T) /\ Cardinality(s \ {x}) = n
            <4>1. Cardinality(s \ {x}) = Cardinality(s) - 1
                BY <3>1, <3>2, SubsetFacts
            <4>2. Cardinality(s \ {x}) = n
                <5> HIDE DEF x
                <5> QED
                    BY <2>1, <4>1
            <4>3. s \ {x} \in SUBSET (S \cap T)
                OBVIOUS
            <4> QED
                BY <4>2, <4>3
        <3>4. AllSums(f, S)[s \ {x}] = AllSums(g, T)[s \ {x}]
            BY <1>2, <3>3
        <3>5. f[x] = g[x]
            BY <3>1, <3>2
        <3>6. /\ AllSums(f, S)[s] = f[x] + AllSums(f, S)[s \ {x}]
              /\ AllSums(g, T)[s] = g[x] + AllSums(g, T)[s \ {x}]
            BY <3>1, AllSumsStep
        <3> QED
            BY <3>4, <3>5, <3>6
    <2> QED
        BY <2>1
<1> HIDE DEF Has
<1>3. Nat \subseteq Has
    BY <1>1, <1>2, SetInduction
<1>4. ASSUME NEW s \in SUBSET (S \cap T)
      PROVE  AllSums(f, S)[s] = AllSums(g, T)[s]
    <2>1. Cardinality(s) \in Has
        BY <1>3, SubsetFacts
    <2> QED
        BY <2>1 DEF Has
<1> QED
    BY <1>4

LEMMA SumAgree ==
    ASSUME NEW S, IsFiniteSet(S), NEW f, NEW g, \A x \in S : f[x] = g[x]
    PROVE  SumOf(f, S) = SumOf(g, S)
BY AllSumsAgree, SumOfDef

LEMMA SumEmpty ==
    ASSUME NEW f
    PROVE  SumOf(f, {}) = 0
BY AllSumsStep, SumOfDef, FS_EmptySet

LEMMA SumChosen ==
    ASSUME NEW S, IsFiniteSet(S), S # {}, NEW f
    PROVE  SumOf(f, S) = f[Chosen(S)] + SumOf(f, S \ {Chosen(S)})
<1> DEFINE T == S \ {Chosen(S)}
<1>1. IsFiniteSet(T) /\ S \cap T = T /\ T \in SUBSET S
    BY FS_Subset
<1>2. AllSums(f, S)[S] = f[Chosen(S)] + AllSums(f, S)[T]
    BY AllSumsStep
<1>3. AllSums(f, S)[T] = AllSums(f, T)[T]
    BY <1>1, AllSumsAgree
<1> QED
    BY <1>2, <1>3, SumOfDef

(* Sums of whole and of natural numbers.                                   *)
LEMMA SumType ==
    ASSUME NEW S, IsFiniteSet(S), NEW f,
           NEW Type, Type = Int \/ Type = Nat, \A x \in S : f[x] \in Type
    PROVE  \A s \in SUBSET S : SumOf(f, s) \in Type
<1> DEFINE Has == {n \in Nat : \A s \in SUBSET S :
                       Cardinality(s) = n => SumOf(f, s) \in Type}
<1>1. 0 \in Has
    BY SumEmpty, SubsetFacts
<1>2. ASSUME NEW n \in Nat, n \in Has
      PROVE  n + 1 \in Has
    <2>1. ASSUME NEW s \in SUBSET S, Cardinality(s) = n + 1
          PROVE  SumOf(f, s) \in Type
        <3> DEFINE x == Chosen(s)
        <3>1. s # {} /\ IsFiniteSet(s)
            BY <2>1, SubsetFacts
        <3>2. x \in s
            BY <3>1, ChosenIn
        <3>3. s \ {x} \in SUBSET S /\ Cardinality(s \ {x}) = n
            BY <2>1, <3>2, SubsetFacts
        <3>4. SumOf(f, s \ {x}) \in Type /\ f[x] \in Type
            BY <1>2, <3>2, <3>3
        <3>5. SumOf(f, s) = f[x] + SumOf(f, s \ {x})
            BY <3>1, SumChosen
        <3> QED
            BY <3>4, <3>5
    <2> QED
        BY <2>1
<1> HIDE DEF Has
<1>3. Nat \subseteq Has
    BY <1>1, <1>2, SetInduction
<1>4. ASSUME NEW s \in SUBSET S
      PROVE  SumOf(f, s) \in Type
    <2>1. Cardinality(s) \in Has
        BY <1>3, SubsetFacts
    <2> QED
        BY <2>1 DEF Has
<1> QED
    BY <1>4

(* The elements may be added in any order.                                 *)
LEMMA SumRemove ==
    ASSUME NEW S, IsFiniteSet(S), NEW f, \A x \in S : f[x] \in Int
    PROVE  \A s \in SUBSET S : \A x \in s :
               SumOf(f, s) = f[x] + SumOf(f, s \ {x})
<1> DEFINE Has == {n \in Nat : \A s \in SUBSET S :
                       Cardinality(s) = n =>
                           \A x \in s : SumOf(f, s) = f[x] + SumOf(f, s \ {x})}
<1>1. 0 \in Has
    BY SubsetFacts
<1>2. ASSUME NEW n \in Nat, n \in Has
      PROVE  n + 1 \in Has
    <2>1. ASSUME NEW s \in SUBSET S, Cardinality(s) = n + 1, NEW x \in s
          PROVE  SumOf(f, s) = f[x] + SumOf(f, s \ {x})
        <3> DEFINE y == Chosen(s)
        <3>1. s # {} /\ IsFiniteSet(s)
            BY <2>1, SubsetFacts
        <3>2. y \in s
            BY <3>1, ChosenIn
        <3>3. SumOf(f, s) = f[y] + SumOf(f, s \ {y})
            BY <3>1, SumChosen
        <3> HIDE DEF y
        <3>4. CASE x = y
            BY <3>3, <3>4
        <3>5. CASE x # y
            <4> DEFINE r == s \ {x, y}
            <4>1. /\ s \ {x} \in SUBSET S /\ Cardinality(s \ {x}) = n
                  /\ s \ {y} \in SUBSET S /\ Cardinality(s \ {y}) = n
                BY <2>1, <3>2, SubsetFacts
            <4>2. /\ x \in s \ {y} /\ (s \ {y}) \ {x} = r
                  /\ y \in s \ {x} /\ (s \ {x}) \ {y} = r
                BY <3>2, <3>5
            <4>3. SumOf(f, s \ {y}) = f[x] + SumOf(f, r)
                BY <1>2, <4>1, <4>2
            <4>4. SumOf(f, s \ {x}) = f[y] + SumOf(f, r)
                BY <1>2, <4>1, <4>2
            <4>5. f[x] \in Int /\ f[y] \in Int /\ SumOf(f, r) \in Int
                BY <3>2, SumType
            <4> QED
                BY <3>3, <4>3, <4>4, <4>5
        <3> QED
            BY <3>4, <3>5
    <2> QED
        BY <2>1
<1> HIDE DEF Has
<1>3. Nat \subseteq Has
    BY <1>1, <1>2, SetInduction
<1>4. ASSUME NEW s \in SUBSET S, NEW x \in s
      PROVE  SumOf(f, s) = f[x] + SumOf(f, s \ {x})
    <2>1. Cardinality(s) \in Has
        BY <1>3, SubsetFacts
    <2> QED
        BY <2>1 DEF Has
<1> QED
    BY <1>4
-----------------------------------------------------------------------------
(* What the other modules use. *)

(* One more element adds its value.                                        *)
THEOREM SumAdd ==
    ASSUME NEW S, IsFiniteSet(S), NEW f, NEW x, x \notin S,
           \A y \in S \cup {x} : f[y] \in Int
    PROVE  SumOf(f, S \cup {x}) = SumOf(f, S) + f[x]
<1> DEFINE T == S \cup {x}
<1>1. IsFiniteSet(T) /\ x \in T /\ T \ {x} = S
    BY FS_AddElement
<1>2. SumOf(f, T) = f[x] + SumOf(f, S)
    BY <1>1, SumRemove
<1>3. SumOf(f, S) \in Int
    BY <1>1, SumType
<1> QED
    BY <1>2, <1>3

(* The sum of natural numbers is one, and none of them exceeds it.         *)
THEOREM SumNat ==
    ASSUME NEW S, IsFiniteSet(S), NEW f, \A x \in S : f[x] \in Nat
    PROVE  /\ SumOf(f, S) \in Nat
           /\ \A x \in S : f[x] <= SumOf(f, S)
<1>1. \A s \in SUBSET S : SumOf(f, s) \in Nat
    BY SumType
<1>2. ASSUME NEW x \in S
      PROVE  f[x] <= SumOf(f, S)
    <2>1. SumOf(f, S) = f[x] + SumOf(f, S \ {x})
        BY SumRemove
    <2>2. SumOf(f, S \ {x}) \in Nat /\ f[x] \in Nat
        BY <1>1
    <2> QED
        BY <2>1, <2>2
<1> QED
    BY <1>1, <1>2

(* A value that changes changes the sum by as much.                        *)
THEOREM SumUpdate ==
    ASSUME NEW S, IsFiniteSet(S), NEW f, NEW g, NEW x \in S,
           \A y \in S : f[y] \in Int /\ g[y] \in Int,
           \A y \in S \ {x} : g[y] = f[y]
    PROVE  SumOf(g, S) = SumOf(f, S) - f[x] + g[x]
<1>1. IsFiniteSet(S \ {x})
    BY FS_Subset
<1>2. SumOf(g, S \ {x}) = SumOf(f, S \ {x})
    BY <1>1, SumAgree
<1>3. SumOf(f, S \ {x}) \in Int
    BY SumType
<1>4. /\ SumOf(f, S) = f[x] + SumOf(f, S \ {x})
      /\ SumOf(g, S) = g[x] + SumOf(g, S \ {x})
    BY SumRemove
<1> QED
    BY <1>2, <1>3, <1>4

(* A sum of zeros is zero.                                                 *)
THEOREM SumZero ==
    ASSUME NEW S, IsFiniteSet(S), NEW f, \A x \in S : f[x] = 0
    PROVE  SumOf(f, S) = 0
<1> DEFINE Has == {n \in Nat : \A s \in SUBSET S :
                       Cardinality(s) = n => SumOf(f, s) = 0}
<1>1. 0 \in Has
    BY SumEmpty, SubsetFacts
<1>2. ASSUME NEW n \in Nat, n \in Has
      PROVE  n + 1 \in Has
    <2>1. ASSUME NEW s \in SUBSET S, Cardinality(s) = n + 1
          PROVE  SumOf(f, s) = 0
        <3> DEFINE x == Chosen(s)
        <3>1. s # {} /\ IsFiniteSet(s)
            BY <2>1, SubsetFacts
        <3>2. x \in s
            BY <3>1, ChosenIn
        <3>3. s \ {x} \in SUBSET S /\ Cardinality(s \ {x}) = n
            BY <2>1, <3>2, SubsetFacts
        <3>4. SumOf(f, s) = f[x] + SumOf(f, s \ {x})
            BY <3>1, SumChosen
        <3>5. SumOf(f, s \ {x}) = 0 /\ f[x] = 0
            BY <1>2, <3>2, <3>3
        <3> QED
            BY <3>4, <3>5
    <2> QED
        BY <2>1
<1> HIDE DEF Has
<1>3. Nat \subseteq Has
    BY <1>1, <1>2, SetInduction
<1>4. Cardinality(S) \in Has
    BY <1>3, FS_CardinalityType
<1> QED
    BY <1>4 DEF Has
-----------------------------------------------------------------------------
(* Integer division. *)
LEMMA DivMod ==
    ASSUME NEW a \in Nat, NEW b \in Nat \ {0}
    PROVE  /\ a \div b \in Nat /\ a % b \in Nat
           /\ a = b * (a \div b) + (a % b) /\ a % b < b
<1>1. a \div b \in Nat
    OBVIOUS
<1>2. a % b \in Nat /\ a % b < b
    OBVIOUS
<1>3. a = b * (a \div b) + (a % b)
    OBVIOUS
<1> QED
    BY <1>1, <1>2, <1>3

LEMMA ProductMonotone ==
    ASSUME NEW a \in Nat, NEW b \in Nat, NEW c \in Nat, a <= b
    PROVE  a * c <= b * c
OBVIOUS

LEMMA DivPositive ==
    ASSUME NEW a \in Nat, NEW b \in Nat \ {0}, b <= a
    PROVE  a \div b > 0
<1>1. SUFFICES ASSUME a \div b = 0 PROVE FALSE
    BY DivMod
<1>2. a = b * 0 + (a % b)
    BY <1>1, DivMod
<1> QED
    BY <1>2, DivMod
=============================================================================
