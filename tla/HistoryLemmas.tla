--------------------------- MODULE HistoryLemmas ---------------------------
(***************************************************************************)
(* Facts that the proofs about conversations need: what SumFunction and    *)
(* FlattenSeq, two recursive functions, compute (induction is over sets of *)
(* numbers and collections of sets, by the least member of what is left    *)
(* out); which blocks of a history carry cache boundaries; and what the    *)
(* messages of a history say, however they are cut into blocks.            *)
(***************************************************************************)
EXTENDS Integers, Wire, WellFoundedInduction, FiniteSetTheorems, SequenceTheorems, TLAPS

-----------------------------------------------------------------------------
(* Natural numbers and finite sets. *)

\* A set of natural numbers has a least member.
LEMMA LeastMember ==
    ASSUME NEW T \in SUBSET Nat, T # {}
    PROVE  \E x \in T : \A y \in T : x <= y
<1>1. PICK x \in T : \A y \in T : ~(<<y, x>> \in OpToRel(<, Nat))
    BY NatLessThanWellFounded, WFMin
<1>2. \A y \in T : ~(y < x)
    BY <1>1 DEF OpToRel
<1> QED BY <1>2

\* Induction over the numbers, for a set of them.
LEMMA NatSetInduction ==
    ASSUME NEW T, 0 \in T, \A n \in Nat : n \in T => n + 1 \in T
    PROVE  Nat \subseteq T
<1> SUFFICES ASSUME Nat \ T # {} PROVE FALSE
    OBVIOUS
<1>1. PICK x \in Nat \ T : \A y \in Nat \ T : x <= y
    BY LeastMember
<1>2. x - 1 \in Nat /\ x - 1 \notin Nat \ T
    BY <1>1
<1>3. (x - 1) + 1 \in T
    BY <1>2
<1> QED BY <1>1, <1>3

\* Numbers with a bound have a greatest one.
LEMMA GreatestMember ==
    ASSUME NEW T \in SUBSET Nat, T # {}, NEW b \in Nat, \A x \in T : x <= b
    PROVE  \E x \in T : \A y \in T : x >= y
<1> DEFINE Far == {b - x : x \in T}
<1>1. Far \in SUBSET Nat /\ Far # {}
    <2>1. \A x \in T : b - x \in Nat
        OBVIOUS
    <2> QED BY <2>1
<1>2. PICK d \in Far : \A e \in Far : d <= e
    BY <1>1, LeastMember
<1>3. PICK x \in T : d = b - x
    BY <1>2
<1>4. \A y \in T : b - x <= b - y
    BY <1>2, <1>3
<1>5. \A y \in T : x >= y
    BY <1>3, <1>4
<1> QED BY <1>5

\* Max of a set of numbers is its greatest member.
LEMMA MaxIsGreatest ==
    ASSUME NEW T \in SUBSET Nat, NEW x \in T, \A y \in T : x >= y
    PROVE  Max(T) = x
<1>1. \E z \in T : \A y \in T : z >= y
    OBVIOUS
<1>2. Max(T) \in T /\ \A y \in T : Max(T) >= y
    BY <1>1 DEF Max
<1>3. Max(T) \in Nat /\ x \in Nat /\ x >= Max(T) /\ Max(T) >= x
    BY <1>2
<1> HIDE DEF Max
<1> QED BY <1>3

\* Induction over a finite set, for a collection of its subsets.
LEMMA SubsetInduction ==
    ASSUME NEW S, IsFiniteSet(S), NEW P, {} \in P,
           \A T \in SUBSET S : \A x \in S \ T : T \in P => T \cup {x} \in P
    PROVE  SUBSET S \subseteq P
<1> SUFFICES ASSUME (SUBSET S) \ P # {} PROVE FALSE
    OBVIOUS
<1> DEFINE Q == (SUBSET S) \ P
<1>1. Q \subseteq FiniteSubsetsOf(S) /\ Q # {}
    BY FS_FiniteSubsetsOfFinite
<1>2. PICK T \in Q : \A U \in Q : ~(<<U, T>> \in StrictSubsetOrdering(S))
    BY <1>1, FS_StrictSubsetOrderingWellFounded, WFMin
<1>3. PICK x \in T : TRUE
    BY <1>2
<1>4. T \ {x} \in SUBSET S /\ x \in S \ (T \ {x}) /\ T \ {x} # T
    BY <1>2, <1>3
<1>5. T \ {x} \notin Q
    BY <1>2, <1>4 DEF StrictSubsetOrdering
<1>6. (T \ {x}) \cup {x} \in P
    BY <1>4, <1>5
<1>7. (T \ {x}) \cup {x} = T
    BY <1>3
<1> QED BY <1>2, <1>6, <1>7

\* Of a collection of subsets of a finite set, one contains no other.
LEMMA SmallestSubset ==
    ASSUME NEW S, IsFiniteSet(S), NEW Q \in SUBSET SUBSET S, Q # {}
    PROVE  \E T \in Q : \A U \in Q : U \subseteq T => U = T
<1>1. Q \subseteq FiniteSubsetsOf(S)
    BY FS_FiniteSubsetsOfFinite
<1>2. PICK T \in Q : \A U \in Q : ~(<<U, T>> \in StrictSubsetOrdering(S))
    BY <1>1, FS_StrictSubsetOrderingWellFounded, WFMin
<1>3. \A U \in Q : U \subseteq T => U = T
    BY <1>2 DEF StrictSubsetOrdering
<1> QED BY <1>3

-----------------------------------------------------------------------------
(* Sums. *)
Picked(s) == CHOOSE x \in s : TRUE

\* F[T] is what SumFunction recurses to.
SumsOf(f, S, F) ==
    \A T \in SUBSET S : F[T] = IF T = {} THEN 0
                               ELSE f[Picked(T)] + F[T \ {Picked(T)}]

AnyOrder(f, S, F) ==
    \A T \in SUBSET S : \A x \in T : F[T] = f[x] + F[T \ {x}]

\* A function on the subsets that satisfies the recursion of SumFunction.
LEMMA SumsExist ==
    ASSUME NEW S, IsFiniteSet(S), NEW f \in [S -> Int]
    PROVE  \E F \in [SUBSET S -> Int] : SumsOf(f, S, F)
<1> DEFINE Small(n) == {T \in SUBSET S : Cardinality(T) <= n}
           Good(n, F) == \A T \in Small(n) :
               F[T] = IF T = {} THEN 0 ELSE f[Picked(T)] + F[T \ {Picked(T)}]
           Q == {n \in Nat : \E F \in [Small(n) -> Int] : Good(n, F)}
<1>0. \A T \in SUBSET S : /\ IsFiniteSet(T) /\ Cardinality(T) \in Nat
                          /\ Cardinality(T) = 0 <=> T = {}
                          /\ Cardinality(T) <= Cardinality(S)
    BY FS_Subset, FS_CardinalityType, FS_EmptySet
<1>1. \A T \in SUBSET S : T # {} => /\ Picked(T) \in T
                                    /\ T \ {Picked(T)} \in SUBSET S
                                    /\ Cardinality(T \ {Picked(T)}) = Cardinality(T) - 1
    <2> SUFFICES ASSUME NEW T \in SUBSET S, T # {}
                 PROVE /\ Picked(T) \in T
                       /\ Cardinality(T \ {Picked(T)}) = Cardinality(T) - 1
        OBVIOUS
    <2>1. Picked(T) \in T
        BY DEF Picked
    <2> QED BY <1>0, <2>1, FS_RemoveElement
<1>2. 0 \in Q
    <2> DEFINE F == [T \in Small(0) |-> 0]
    <2>1. \A T \in Small(0) : T = {}
        BY <1>0
    <2>2. F \in [Small(0) -> Int] /\ Good(0, F)
        BY <2>1
    <2> QED BY <2>2
<1>3. \A n \in Nat : n \in Q => n + 1 \in Q
    <2> SUFFICES ASSUME NEW n \in Nat, n \in Q PROVE n + 1 \in Q
        OBVIOUS
    <2>1. PICK F \in [Small(n) -> Int] : Good(n, F)
        OBVIOUS
    <2> DEFINE G == [T \in Small(n + 1) |-> IF T = {} THEN 0
                         ELSE f[Picked(T)] + F[T \ {Picked(T)}]]
    <2>2. \A T \in Small(n + 1) : T # {} => /\ Picked(T) \in S
                                            /\ T \ {Picked(T)} \in Small(n)
        BY <1>0, <1>1
    <2>3. G \in [Small(n + 1) -> Int]
        <3>1. \A T \in Small(n + 1) : (IF T = {} THEN 0
                  ELSE f[Picked(T)] + F[T \ {Picked(T)}]) \in Int
            BY <2>2
        <3> QED BY <3>1
    <2>4. \A T \in Small(n) : T \in Small(n + 1) /\ G[T] = F[T]
        <3>1. \A T \in Small(n) : T \in Small(n + 1)
            BY <1>0
        <3> QED BY <2>1, <3>1
    <2>5. Good(n + 1, G)
        <3> SUFFICES ASSUME NEW T \in Small(n + 1)
                     PROVE  G[T] = IF T = {} THEN 0
                                   ELSE f[Picked(T)] + G[T \ {Picked(T)}]
            OBVIOUS
        <3> HIDE DEF Small
        <3>1. G[T] = IF T = {} THEN 0 ELSE f[Picked(T)] + F[T \ {Picked(T)}]
            OBVIOUS
        <3> QED BY <2>2, <2>4, <3>1
    <2>6. \E H \in [Small(n + 1) -> Int] : Good(n + 1, H)
        <3> HIDE DEF G, Good, Small
        <3> QED BY <2>3, <2>5
    <2> HIDE DEF G, Good, Small
    <2> QED BY <2>6
<1>4. Cardinality(S) \in Q
    <2> HIDE DEF Q
    <2> QED BY <1>0, <1>2, <1>3, NatSetInduction
<1>5. Small(Cardinality(S)) = SUBSET S
    BY <1>0
<1> QED BY <1>4, <1>5 DEF SumsOf

\* A sum does not depend on the order.
LEMMA SumsRemove ==
    ASSUME NEW S, IsFiniteSet(S), NEW f \in [S -> Int],
           NEW F \in [SUBSET S -> Int], SumsOf(f, S, F)
    PROVE  AnyOrder(f, S, F)
<1> DEFINE Bad == {T \in SUBSET S : \E x \in T : F[T] # f[x] + F[T \ {x}]}
<1> SUFFICES ASSUME Bad # {} PROVE FALSE
    BY DEF AnyOrder
<1>1. PICK T \in Bad : \A U \in Bad : U \subseteq T => U = T
    <2> HIDE DEF Bad
    <2>1. Bad \in SUBSET SUBSET S
        BY DEF Bad
    <2> QED BY <2>1, SmallestSubset
<1>2. PICK x \in T : F[T] # f[x] + F[T \ {x}]
    BY <1>1
<1> DEFINE p == Picked(T)
<1>3. p \in T /\ F[T] = f[p] + F[T \ {p}]
    BY <1>1, <1>2 DEF SumsOf, Picked
<1>4. x # p
    BY <1>2, <1>3
<1>5. \A U \in SUBSET S : U \subseteq T /\ U # T => \A y \in U : F[U] = f[y] + F[U \ {y}]
    BY <1>1
<1>6. F[T \ {p}] = f[x] + F[(T \ {p}) \ {x}]
    BY <1>1, <1>2, <1>3, <1>4, <1>5
<1>7. F[T \ {x}] = f[p] + F[(T \ {x}) \ {p}]
    BY <1>1, <1>2, <1>3, <1>4, <1>5
<1>8. (T \ {p}) \ {x} = (T \ {x}) \ {p}
    OBVIOUS
<1>9. /\ f[x] \in Int /\ f[p] \in Int /\ F[(T \ {p}) \ {x}] \in Int
      /\ F[T \ {p}] \in Int /\ F[T \ {x}] \in Int /\ F[T] \in Int
    BY <1>1, <1>2, <1>3
<1> DEFINE R == F[(T \ {p}) \ {x}]
<1>10. /\ F[T] = f[p] + F[T \ {p}] /\ F[T \ {p}] = f[x] + R
       /\ F[T \ {x}] = f[p] + R /\ R \in Int
    BY <1>3, <1>6, <1>7, <1>8, <1>9
<1> HIDE DEF p, R
<1> QED BY <1>2, <1>9, <1>10

\* SumFunction computes those sums, of any part of the function.
LEMMA PartialSumRules ==
    ASSUME NEW S, IsFiniteSet(S), NEW f \in [S -> Int],
           NEW F \in [SUBSET S -> Int], SumsOf(f, S, F), NEW T \in SUBSET S
    PROVE  SumFunction([c \in T |-> f[c]]) = F[T]
<1> DEFINE g == [c \in T |-> f[c]]
           Eq(h) == h = [s \in SUBSET T |->
                          IF s = {} THEN 0
                          ELSE LET x == CHOOSE x \in s : TRUE IN g[x] + h[s \ {x}]]
           I == CHOOSE h : Eq(h)
<1>1. SumFunction(g) = I[T]
    BY DEF SumFunction, SumFunctionOnSet, FoldFunctionOnSet, MapThenFoldSet
<1>2. \A s \in SUBSET T : s # {} => /\ Picked(s) \in s
                                    /\ g[Picked(s)] = f[Picked(s)]
    BY DEF Picked
<1>3. Eq([s \in SUBSET T |-> F[s]])
    <2> DEFINE h == [s \in SUBSET T |-> F[s]]
    <2>1. \A s \in SUBSET T : F[s] = IF s = {} THEN 0
                                     ELSE g[Picked(s)] + h[s \ {Picked(s)}]
        BY <1>2 DEF SumsOf
    <2> HIDE DEF g
    <2> QED BY <2>1 DEF Picked
<1>4. Eq(I)
    <2> HIDE DEF Eq
    <2> QED BY <1>3
<1>5. \A s \in SUBSET T : I[s] = IF s = {} THEN 0
                                 ELSE f[Picked(s)] + I[s \ {Picked(s)}]
    <2> HIDE DEF I
    <2>1. \A s \in SUBSET T : I[s] = IF s = {} THEN 0
                                     ELSE g[Picked(s)] + I[s \ {Picked(s)}]
        <3> HIDE DEF g
        <3> QED BY <1>4 DEF Picked
    <2> QED BY <1>2, <2>1
<1> HIDE DEF I
<1> DEFINE Bad == {s \in SUBSET T : I[s] # F[s]}
<1>6. Bad = {}
    <2> SUFFICES ASSUME Bad # {} PROVE FALSE
        OBVIOUS
    <2>1. IsFiniteSet(T)
        BY FS_Subset
    <2>2. PICK s \in Bad : \A U \in Bad : U \subseteq s => U = s
        <3>1. Bad \in SUBSET SUBSET T
            OBVIOUS
        <3> HIDE DEF Bad
        <3> QED BY <2>1, <3>1, SmallestSubset
    <2>3. s # {} => Picked(s) \in s /\ s \ {Picked(s)} \notin Bad
        BY <1>2, <2>2
    <2>4. s \in SUBSET S /\ s \in SUBSET T /\ I[s] # F[s]
        BY <2>2
    <2>5. s # {} => I[s \ {Picked(s)}] = F[s \ {Picked(s)}]
        BY <2>3, <2>4
    <2>6. F[s] = IF s = {} THEN 0 ELSE f[Picked(s)] + F[s \ {Picked(s)}]
        BY <2>4 DEF SumsOf
    <2> HIDE DEF Bad
    <2> QED BY <1>5, <2>4, <2>5, <2>6
<1>7. I[T] = F[T]
    BY <1>6
<1> QED BY <1>1, <1>7

\* What a sum over a finite set is, element by element and for every part.
IsSum(f, S, F) ==
    /\ F \in [SUBSET S -> Int]
    /\ F[{}] = 0
    /\ AnyOrder(f, S, F)
    /\ \A T \in SUBSET S : SumFunction(Restrict(f, T)) = F[T]
    /\ SumFunction(f) = F[S]

\* The sums of an integer function over a finite set and over its parts.
LEMMA SumRules ==
    ASSUME NEW S, IsFiniteSet(S), NEW f \in [S -> Int]
    PROVE  \E F : IsSum(f, S, F)
<1>1. PICK F \in [SUBSET S -> Int] : SumsOf(f, S, F)
    BY SumsExist
<1>2. F[{}] = 0
    BY <1>1 DEF SumsOf
<1>3. \A T \in SUBSET S : SumFunction(Restrict(f, T)) = F[T]
    BY <1>1, PartialSumRules DEF Restrict
<1>4. Restrict(f, S) = f
    BY DEF Restrict
<1>5. SumFunction(f) = F[S]
    BY <1>3, <1>4
<1>6. AnyOrder(f, S, F)
    BY <1>1, SumsRemove
<1> QED BY <1>1, <1>2, <1>3, <1>5, <1>6 DEF IsSum

\* Nothing sums to zero.
LEMMA SumEmpty ==
    ASSUME NEW f \in [{} -> Int]
    PROVE  SumFunction(f) = 0
<1>1. PICK F : IsSum(f, {}, F)
    BY SumRules, FS_EmptySet
<1> QED BY <1>1 DEF IsSum, AnyOrder

\* The sum of two functions, element by element, is the sum of their sums.
LEMMA SumPlus ==
    ASSUME NEW S, IsFiniteSet(S), NEW f \in [S -> Int], NEW g \in [S -> Int],
           NEW h \in [S -> Int], \A c \in S : h[c] = f[c] + g[c]
    PROVE  SumFunction(h) = SumFunction(f) + SumFunction(g)
<1>1. PICK F : IsSum(f, S, F)
    BY SumRules
<1>2. PICK G : IsSum(g, S, G)
    BY SumRules
<1>3. PICK H : IsSum(h, S, H)
    BY SumRules
<1> DEFINE P == {T \in SUBSET S : H[T] = F[T] + G[T]}
<1>5. {} \in P
    BY <1>1, <1>2, <1>3 DEF IsSum, AnyOrder
<1>6. \A T \in SUBSET S : \A x \in S \ T : T \in P => T \cup {x} \in P
    <2> SUFFICES ASSUME NEW T \in SUBSET S, NEW x \in S \ T, T \in P
                 PROVE  H[T \cup {x}] = F[T \cup {x}] + G[T \cup {x}]
        OBVIOUS
    <2> DEFINE U == T \cup {x}
    <2>1. U \ {x} = T /\ U \in SUBSET S /\ x \in U
        OBVIOUS
    <2> HIDE DEF U
    <2>2. /\ H[U] = h[x] + H[T] /\ F[U] = f[x] + F[T]
          /\ G[U] = g[x] + G[T] /\ H[T] = F[T] + G[T]
        BY <1>1, <1>2, <1>3, <2>1 DEF IsSum, AnyOrder
    <2>3. /\ h[x] = f[x] + g[x] /\ f[x] \in Int /\ g[x] \in Int
          /\ F[T] \in Int /\ G[T] \in Int
        BY <1>1, <1>2 DEF IsSum, AnyOrder
    <2> QED BY <2>2, <2>3 DEF U
<1>7. S \in P
    <2>1. SUBSET S \subseteq P
        <3> HIDE DEF P
        <3> QED BY <1>5, <1>6, SubsetInduction
    <2> QED BY <2>1
<1> QED BY <1>1, <1>2, <1>3, <1>7 DEF IsSum, AnyOrder

\* Only what is not zero counts.
LEMMA SumOfPart ==
    ASSUME NEW S, IsFiniteSet(S), NEW f \in [S -> Int], NEW T \in SUBSET S,
           \A c \in S \ T : f[c] = 0
    PROVE  SumFunction(f) = SumFunction(Restrict(f, T))
<1>1. PICK F : IsSum(f, S, F)
    BY SumRules
<1> DEFINE R == S \ T
           P == {U \in SUBSET R : F[T \cup U] = F[T]}
<1>2. {} \in P
    OBVIOUS
<1>3. \A U \in SUBSET R : \A x \in R \ U : U \in P => U \cup {x} \in P
    <2> SUFFICES ASSUME NEW U \in SUBSET R, NEW x \in R \ U, U \in P
                 PROVE  F[T \cup (U \cup {x})] = F[T]
        OBVIOUS
    <2> DEFINE V == T \cup (U \cup {x})
    <2>1. /\ V \ {x} = T \cup U /\ x \in V
          /\ V \in SUBSET S /\ T \cup U \in SUBSET S
        OBVIOUS
    <2>3. f[x] = 0 /\ F[T \cup U] \in Int /\ F[T \cup U] = F[T]
        BY <1>1, <2>1 DEF IsSum, AnyOrder
    <2> HIDE DEF V
    <2>4. \A y \in V : F[V] = f[y] + F[V \ {y}]
        BY <1>1, <2>1 DEF IsSum, AnyOrder
    <2>2. F[V] = f[x] + F[T \cup U]
        BY <2>1, <2>4
    <2> QED BY <2>2, <2>3 DEF V
<1>4. R \in P
    <2>1. IsFiniteSet(R)
        BY FS_Difference
    <2>2. SUBSET R \subseteq P
        <3> HIDE DEF P, R
        <3> QED BY <1>2, <1>3, <2>1, SubsetInduction
    <2> QED BY <2>2
<1>5. T \cup R = S
    OBVIOUS
<1>6. F[S] = F[T]
    BY <1>4, <1>5
<1> QED BY <1>1, <1>6 DEF IsSum, AnyOrder

\* A sum over two disjoint parts.
LEMMA SumOfUnion ==
    ASSUME NEW S, IsFiniteSet(S), NEW f \in [S -> Int],
           NEW A \in SUBSET S, NEW B, B = S \ A
    PROVE  SumFunction(f) = SumFunction(Restrict(f, A)) + SumFunction(Restrict(f, B))
<1> DEFINE g == [c \in S |-> IF c \in A THEN f[c] ELSE 0]
           h == [c \in S |-> IF c \in B THEN f[c] ELSE 0]
<1>1. g \in [S -> Int] /\ h \in [S -> Int] /\ \A c \in S : f[c] = g[c] + h[c]
    OBVIOUS
<1>2. /\ \A c \in S \ A : g[c] = 0
      /\ \A c \in S \ B : h[c] = 0
      /\ B \in SUBSET S
    OBVIOUS
<1>3. Restrict(g, A) = Restrict(f, A) /\ Restrict(h, B) = Restrict(f, B)
    BY DEF Restrict
<1> HIDE DEF g, h
<1>4. SumFunction(f) = SumFunction(g) + SumFunction(h)
    BY <1>1, SumPlus
<1>5. SumFunction(g) = SumFunction(Restrict(g, A))
    BY <1>1, <1>2, SumOfPart
<1>6. SumFunction(h) = SumFunction(Restrict(h, B))
    BY <1>1, <1>2, SumOfPart
<1> QED BY <1>3, <1>4, <1>5, <1>6

-----------------------------------------------------------------------------
(* Sequences of sequences. *)

\* f[i] is what FlattenSeq makes of the first i.
Joins(s, f) == \A i \in 1..Len(s) : f[i] = IF i = 1 THEN s[i] ELSE f[i - 1] \o s[i]

\* The recursive function inside FlattenSeq is a function.
LEMMA JoinsExist ==
    ASSUME NEW s, Len(s) \in Nat
    PROVE  \E f : f = [i \in 1..Len(s) |-> IF i = 1 THEN s[i] ELSE f[i - 1] \o s[i]]
<1> DEFINE Upto(m, f) == f = [i \in 1..m |-> IF i = 1 THEN s[i] ELSE f[i - 1] \o s[i]]
           Q == {m \in Nat : \E f : Upto(m, f)}
<1>1. 0 \in Q
    <2>1. Upto(0, [i \in 1..0 |-> 0])
        OBVIOUS
    <2> HIDE DEF Upto
    <2> QED BY <2>1
<1>2. \A m \in Nat : m \in Q => m + 1 \in Q
    <2> SUFFICES ASSUME NEW m \in Nat, \E f : Upto(m, f)
                 PROVE  \E f : Upto(m + 1, f)
        <3> HIDE DEF Upto
        <3> QED OBVIOUS
    <2>1. PICK f : Upto(m, f)
        OBVIOUS
    <2> DEFINE g == [i \in 1..(m + 1) |-> IF i = 1 THEN s[i] ELSE f[i - 1] \o s[i]]
    <2>2. \A i \in 1..m : g[i] = f[i]
        <3>1. \A i \in 1..m : f[i] = IF i = 1 THEN s[i] ELSE f[i - 1] \o s[i]
            BY <2>1
        <3>2. \A i \in 1..m : i \in 1..(m + 1)
            OBVIOUS
        <3> QED BY <3>1, <3>2
    <2>3. \A i \in 1..(m + 1) : (IF i = 1 THEN s[i] ELSE f[i - 1] \o s[i])
                              = (IF i = 1 THEN s[i] ELSE g[i - 1] \o s[i])
        <3> SUFFICES ASSUME NEW i \in 1..(m + 1), i # 1 PROVE f[i - 1] = g[i - 1]
            OBVIOUS
        <3>1. i - 1 \in 1..m
            OBVIOUS
        <3> QED BY <2>2, <3>1
    <2>4. Upto(m + 1, g)
        BY <2>3
    <2> HIDE DEF Upto
    <2> QED BY <2>4
<1>3. Len(s) \in Q
    <2> HIDE DEF Q
    <2> QED BY <1>1, <1>2, NatSetInduction
<1> QED BY <1>3

\* FlattenSeq is its last value.
LEMMA FlattenIsJoined ==
    ASSUME NEW s, Len(s) \in Nat \ {0}
    PROVE  \E f : Joins(s, f) /\ FlattenSeq(s) = f[Len(s)]
<1> DEFINE Eq(f) == f = [i \in 1..Len(s) |-> IF i = 1 THEN s[i] ELSE f[i - 1] \o s[i]]
           f == CHOOSE f : Eq(f)
<1>1. FlattenSeq(s) = f[Len(s)]
    BY DEF FlattenSeq
<1>2. Eq(f)
    <2>1. \E h : Eq(h)
        BY JoinsExist
    <2> HIDE DEF Eq
    <2> QED BY <2>1
<1>3. Joins(s, f)
    <2> HIDE DEF f
    <2> QED BY <1>2 DEF Joins
<1> QED BY <1>1, <1>3

\* F is the first m members of s, one after another: the k-th of F is number
\* in[k] of the member at[k].
Placed(s, m, F, at, in) ==
    /\ at \in [1..Len(F) -> 1..m] /\ in \in [1..Len(F) -> Nat \ {0}]
    /\ \A k \in 1..Len(F) : in[k] <= Len(s[at[k]]) /\ F[k] = s[at[k]][in[k]]
    /\ \A k, l \in 1..Len(F) : k < l => \/ at[k] < at[l]
                                        \/ at[k] = at[l] /\ in[k] < in[l]
    /\ \A i \in 1..m : \A j \in 1..Len(s[i]) :
           \E k \in 1..Len(F) : at[k] = i /\ in[k] = j

\* Of one sequence, each element stands at its own place.
LEMMA PlacedOne ==
    ASSUME NEW A, NEW s \in Seq(Seq(A)), s # <<>>
    PROVE  s[1] \in Seq(A) /\ \E at, in : Placed(s, 1, s[1], at, in)
<1> DEFINE n  == Len(s[1])
           at == [k \in 1..n |-> 1]
           in == [k \in 1..n |-> k]
<1>1. s[1] \in Seq(A) /\ n \in Nat
    OBVIOUS
<1>2. Placed(s, 1, s[1], at, in)
    BY <1>1 DEF Placed
<1> QED BY <1>1, <1>2

\* One more sequence goes behind those already placed.
LEMMA PlacedNext ==
    ASSUME NEW A, NEW s \in Seq(Seq(A)), NEW m \in Nat \ {0}, m + 1 <= Len(s),
           NEW F \in Seq(A), NEW at, NEW in, Placed(s, m, F, at, in)
    PROVE  /\ F \o s[m + 1] \in Seq(A)
           /\ \E a, b : Placed(s, m + 1, F \o s[m + 1], a, b)
<1> DEFINE t == s[m + 1]
           n == Len(F)
           p == Len(t)
           a == [k \in 1..(n + p) |-> IF k <= n THEN at[k] ELSE m + 1]
           b == [k \in 1..(n + p) |-> IF k <= n THEN in[k] ELSE k - n]
           G == F \o t
<1>1. t \in Seq(A) /\ n \in Nat /\ p \in Nat
    OBVIOUS
<1>2. /\ G \in Seq(A) /\ Len(G) = n + p
      /\ \A k \in 1..n : G[k] = F[k]
      /\ \A k \in (n + 1)..(n + p) : G[k] = t[k - n]
    BY <1>1
<1>0. /\ at \in [1..n -> 1..m] /\ in \in [1..n -> Nat \ {0}]
      /\ \A k \in 1..n : in[k] <= Len(s[at[k]]) /\ F[k] = s[at[k]][in[k]]
      /\ \A k, l \in 1..n : k < l => at[k] < at[l] \/ (at[k] = at[l] /\ in[k] < in[l])
      /\ \A i \in 1..m : \A j \in 1..Len(s[i]) : \E k \in 1..n : at[k] = i /\ in[k] = j
    BY DEF Placed
<1>t. t = s[m + 1] /\ p = Len(s[m + 1])
    OBVIOUS
<1> HIDE DEF G, n, p, t
<1>3. \A k \in 1..n : /\ k \in 1..(n + p) /\ a[k] = at[k] /\ b[k] = in[k]
                      /\ a[k] \in 1..m /\ b[k] \in Nat \ {0}
                      /\ b[k] <= Len(s[a[k]]) /\ F[k] = s[a[k]][b[k]]
    <2> SUFFICES ASSUME NEW k \in 1..n
                 PROVE  /\ k \in 1..(n + p) /\ a[k] = at[k] /\ b[k] = in[k]
                        /\ a[k] \in 1..m /\ b[k] \in Nat \ {0}
                        /\ b[k] <= Len(s[a[k]]) /\ F[k] = s[a[k]][b[k]]
        OBVIOUS
    <2>1. k \in 1..(n + p) /\ k <= n
        BY <1>1
    <2>2. a[k] = at[k] /\ b[k] = in[k]
        BY <2>1
    <2>3. at[k] \in 1..m /\ in[k] \in Nat \ {0}
        BY <1>0
    <2>4. in[k] <= Len(s[at[k]]) /\ F[k] = s[at[k]][in[k]]
        BY <1>0
    <2> HIDE DEF a, b
    <2> QED BY <2>1, <2>2, <2>3, <2>4
<1>4. \A k \in (n + 1)..(n + p) : a[k] = m + 1 /\ b[k] = k - n /\ k - n \in 1..p
    BY <1>1
<1>5. \A k \in 1..(n + p) : k \in 1..n \/ k \in (n + 1)..(n + p)
    BY <1>1
<1>6. a \in [1..(n + p) -> 1..(m + 1)] /\ b \in [1..(n + p) -> Nat \ {0}]
    <2>1. \A k \in 1..n : a[k] \in 1..(m + 1) /\ b[k] \in Nat \ {0}
        <3> HIDE DEF a, b
        <3> QED BY <1>3
    <2>2. \A k \in (n + 1)..(n + p) : a[k] \in 1..(m + 1) /\ b[k] \in Nat \ {0}
        BY <1>1, <1>4
    <2>3. \A k \in 1..(n + p) : a[k] \in 1..(m + 1) /\ b[k] \in Nat \ {0}
        <3> HIDE DEF a, b
        <3> QED BY <1>5, <2>1, <2>2
    <2> QED BY <2>3
<1> HIDE DEF a, b
<1>7. \A k \in 1..(n + p) : b[k] <= Len(s[a[k]]) /\ G[k] = s[a[k]][b[k]]
    <2>1. \A k \in 1..n : b[k] <= Len(s[a[k]]) /\ G[k] = s[a[k]][b[k]]
        BY <1>2, <1>3
    <2>2. \A k \in (n + 1)..(n + p) : b[k] <= Len(s[a[k]]) /\ G[k] = s[a[k]][b[k]]
        <3> SUFFICES ASSUME NEW k \in (n + 1)..(n + p)
                     PROVE  b[k] <= Len(s[a[k]]) /\ G[k] = s[a[k]][b[k]]
            OBVIOUS
        <3>1. a[k] = m + 1 /\ b[k] = k - n /\ k - n \in 1..p
            BY <1>4
        <3>2. s[a[k]] = t /\ Len(s[a[k]]) = p
            BY <1>t, <3>1
        <3>3. G[k] = t[b[k]]
            BY <1>2, <3>1
        <3> QED BY <1>1, <3>1, <3>2, <3>3
    <2> QED BY <1>5, <2>1, <2>2
<1>8. \A k, l \in 1..(n + p) : k < l => a[k] < a[l] \/ (a[k] = a[l] /\ b[k] < b[l])
    <2> SUFFICES ASSUME NEW k \in 1..(n + p), NEW l \in 1..(n + p), k < l
                 PROVE  a[k] < a[l] \/ (a[k] = a[l] /\ b[k] < b[l])
        OBVIOUS
    <2>1. CASE k \in 1..n /\ l \in 1..n
        <3>1. at[k] < at[l] \/ (at[k] = at[l] /\ in[k] < in[l])
            BY <1>0, <2>1
        <3>2. a[k] = at[k] /\ b[k] = in[k] /\ a[l] = at[l] /\ b[l] = in[l]
            BY <1>3, <2>1
        <3> QED BY <3>1, <3>2
    <2>2. CASE k \in 1..n /\ l \in (n + 1)..(n + p)
        <3>1. a[k] \in 1..m
            BY <1>3, <2>2
        <3>2. a[l] = m + 1
            BY <1>4, <2>2
        <3> QED BY <3>1, <3>2
    <2>3. CASE k \in (n + 1)..(n + p) /\ l \in (n + 1)..(n + p)
        <3>1. a[k] = m + 1 /\ b[k] = k - n /\ a[l] = m + 1 /\ b[l] = l - n
            BY <1>4, <2>3
        <3> QED BY <1>1, <2>3, <3>1
    <2>4. ~(k \in (n + 1)..(n + p) /\ l \in 1..n)
        BY <1>1
    <2> QED BY <1>5, <2>1, <2>2, <2>3, <2>4
<1>9. \A i \in 1..(m + 1) : \A j \in 1..Len(s[i]) :
          \E k \in 1..(n + p) : a[k] = i /\ b[k] = j
    <2> SUFFICES ASSUME NEW i \in 1..(m + 1), NEW j \in 1..Len(s[i])
                 PROVE  \E k \in 1..(n + p) : a[k] = i /\ b[k] = j
        OBVIOUS
    <2>1. CASE i \in 1..m
        <3>1. PICK k \in 1..n : at[k] = i /\ in[k] = j
            BY <1>0, <2>1
        <3> QED BY <1>3, <3>1
    <2>2. CASE i = m + 1
        <3>1. j \in 1..p /\ n + j \in (n + 1)..(n + p) /\ n + j \in 1..(n + p)
            BY <1>1, <1>t, <2>2
        <3>2. a[n + j] = m + 1 /\ b[n + j] = (n + j) - n
            BY <1>4, <3>1
        <3> QED BY <1>1, <2>2, <3>1, <3>2
    <2> QED BY <2>1, <2>2
<1>10. Placed(s, m + 1, G, a, b)
    <2>1. 1..Len(G) = 1..(n + p)
        BY <1>2
    <2>2. a \in [1..Len(G) -> 1..(m + 1)] /\ b \in [1..Len(G) -> Nat \ {0}]
        BY <1>6, <2>1
    <2>3. \A k \in 1..Len(G) : b[k] <= Len(s[a[k]]) /\ G[k] = s[a[k]][b[k]]
        BY <1>7, <2>1, Zenon
    <2>4. \A k, l \in 1..Len(G) : k < l => a[k] < a[l] \/ (a[k] = a[l] /\ b[k] < b[l])
        BY <1>8, <2>1, Zenon
    <2>5. \A i \in 1..(m + 1) : \A j \in 1..Len(s[i]) :
              \E k \in 1..Len(G) : a[k] = i /\ b[k] = j
        <3> SUFFICES ASSUME NEW i \in 1..(m + 1), NEW j \in 1..Len(s[i])
                     PROVE  \E k \in 1..Len(G) : a[k] = i /\ b[k] = j
            OBVIOUS
        <3>1. PICK k \in 1..(n + p) : a[k] = i /\ b[k] = j
            BY <1>9
        <3> QED BY <2>1, <3>1, Zenon
    <2> QED BY <2>2, <2>3, <2>4, <2>5, Zenon DEF Placed
<1> QED BY <1>2, <1>10 DEF G, t

\* Where the members of a flattened sequence come from.
LEMMA FlattenPlaced ==
    ASSUME NEW A, NEW s \in Seq(Seq(A))
    PROVE  /\ FlattenSeq(s) \in Seq(A)
           /\ \E at, in : Placed(s, Len(s), FlattenSeq(s), at, in)
<1>1. CASE s = <<>>
    <2>1. FlattenSeq(s) = <<>>
        BY <1>1 DEF FlattenSeq
    <2>2. Placed(s, 0, <<>>, <<>>, <<>>)
        BY DEF Placed
    <2>3. Len(s) = 0 /\ <<>> \in Seq(A)
        BY <1>1
    <2> QED BY <2>1, <2>2, <2>3
<1>2. CASE s # <<>>
    <2>0. Len(s) \in Nat \ {0}
        BY <1>2
    <2>1. PICK f : Joins(s, f) /\ FlattenSeq(s) = f[Len(s)]
        BY <2>0, FlattenIsJoined
    <2> DEFINE Good(m) == f[m] \in Seq(A) /\ \E at, in : Placed(s, m, f[m], at, in)
               Q == {m \in Nat : m + 1 <= Len(s) => Good(m + 1)}
    <2>2. 0 \in Q
        <3>1. f[1] = s[1]
            BY <2>0, <2>1 DEF Joins
        <3>2. Good(1)
            BY <1>2, <3>1, PlacedOne
        <3> HIDE DEF Good
        <3> QED BY <3>2
    <2>3. \A m \in Nat : m \in Q => m + 1 \in Q
        <3> SUFFICES ASSUME NEW m \in Nat, m \in Q, (m + 1) + 1 <= Len(s)
                     PROVE  Good((m + 1) + 1)
            <4> HIDE DEF Good
            <4> QED OBVIOUS
        <3>1. Good(m + 1)
            <4> HIDE DEF Good
            <4> QED BY <2>0
        <3>2. f[(m + 1) + 1] = f[m + 1] \o s[(m + 1) + 1]
            <4>1. (m + 1) + 1 \in 1..Len(s) /\ (m + 1) + 1 # 1 /\ ((m + 1) + 1) - 1 = m + 1
                BY <2>0
            <4> QED BY <2>1, <4>1 DEF Joins
        <3>3. PICK at, in : Placed(s, m + 1, f[m + 1], at, in)
            BY <3>1
        <3>4. m + 1 \in Nat \ {0} /\ f[m + 1] \in Seq(A)
            BY <3>1
        <3>5. /\ f[m + 1] \o s[(m + 1) + 1] \in Seq(A)
              /\ \E a, b : Placed(s, (m + 1) + 1, f[m + 1] \o s[(m + 1) + 1], a, b)
            BY <3>3, <3>4, PlacedNext
        <3> QED BY <3>2, <3>5
    <2>4. Len(s) - 1 \in Q
        <3>1. Nat \subseteq Q
            <4> HIDE DEF Q
            <4> QED BY <2>2, <2>3, NatSetInduction
        <3> HIDE DEF Q
        <3> QED BY <2>0, <3>1
    <2>5. Good(Len(s))
        <3>1. (Len(s) - 1) + 1 = Len(s) /\ Len(s) <= Len(s)
            BY <2>0
        <3> HIDE DEF Good
        <3> QED BY <2>4, <3>1
    <2> QED BY <2>1, <2>5
<1> QED BY <1>1, <1>2

-----------------------------------------------------------------------------
(* Sequences of whatever elements. *)
\* A sequence over a set is a sequence.
LEMMA SequenceOf ==
    ASSUME NEW S, NEW s \in Seq(S)
    PROVE  IsSequence(s)
BY SeqOfRange DEF IsSequence

\* What follows from being a sequence of whatever elements.
LEMMA SequenceRules ==
    ASSUME NEW s, IsSequence(s)
    PROVE  /\ Len(s) \in Nat /\ DOMAIN s = 1..Len(s) /\ s \in Seq(Range(s))
           /\ s = [i \in DOMAIN s |-> s[i]]
<1>1. s \in Seq(Range(s))
    BY DEF IsSequence
<1> QED BY <1>1

\* A function on 1..n is a sequence.
LEMMA SequenceMade ==
    ASSUME NEW n \in Nat, NEW s, s = [i \in 1..n |-> s[i]]
    PROVE  IsSequence(s) /\ Len(s) = n
<1> DEFINE S == {s[i] : i \in 1..n}
<1>1. s \in [1..n -> S]
    OBVIOUS
<1>2. s \in Seq(S) /\ Len(s) = n
    <2> HIDE DEF S
    <2> QED BY <1>1
<1> QED BY <1>2, SequenceOf

\* What a mapping of a sequence is.
LEMMA SequenceMapped ==
    ASSUME NEW s, IsSequence(s), NEW t, t = [i \in DOMAIN s |-> t[i]]
    PROVE  IsSequence(t) /\ Len(t) = Len(s) /\ DOMAIN t = DOMAIN s
BY SequenceRules, SequenceMade

\* One element, or none, is a sequence.
LEMMA SequenceOne ==
    ASSUME NEW x
    PROVE  IsSequence(<<x>>) /\ IsSequence(<<>>)
<1>1. <<x>> \in Seq({x}) /\ <<>> \in Seq({x})
    OBVIOUS
<1> QED BY <1>1, SequenceOf

\* Where the elements of two joined sequences are.
LEMMA SequenceJoined ==
    ASSUME NEW s, IsSequence(s), NEW t, IsSequence(t)
    PROVE  /\ IsSequence(s \o t)
           /\ Len(s \o t) = Len(s) + Len(t)
           /\ DOMAIN (s \o t) = 1..(Len(s) + Len(t))
           /\ \A i \in DOMAIN s : (s \o t)[i] = s[i]
           /\ \A i \in DOMAIN (s \o t) \ DOMAIN s :
                  /\ i > Len(s) /\ i - Len(s) \in DOMAIN t
                  /\ (s \o t)[i] = t[i - Len(s)]
<1> DEFINE A == Range(s) \cup Range(t)
<1>1. s \in Seq(A) /\ t \in Seq(A)
    BY SeqMonotonic, SequenceRules
<1> HIDE DEF A
<1>2. s \o t \in Seq(A)
    BY <1>1, ConcatProperties
<1>3. /\ Len(s \o t) = Len(s) + Len(t)
      /\ \A i \in 1..(Len(s) + Len(t)) :
             (s \o t)[i] = IF i <= Len(s) THEN s[i] ELSE t[i - Len(s)]
    BY <1>1, ConcatProperties
<1>4. /\ Len(s) \in Nat /\ Len(t) \in Nat /\ DOMAIN s = 1..Len(s) /\ DOMAIN t = 1..Len(t)
      /\ DOMAIN (s \o t) = 1..Len(s \o t)
    BY <1>2, SequenceRules
<1>5. IsSequence(s \o t)
    BY <1>2, SequenceOf
<1> DEFINE u == s \o t
<1> HIDE DEF u
<1>6. \A i \in DOMAIN s : u[i] = s[i]
    <2> SUFFICES ASSUME NEW i \in DOMAIN s PROVE u[i] = s[i]
        OBVIOUS
    <2>1. i \in 1..(Len(s) + Len(t)) /\ i <= Len(s)
        BY <1>4
    <2> QED BY <1>3, <2>1 DEF u
<1>7. \A i \in (DOMAIN u) \ DOMAIN s :
          i > Len(s) /\ i - Len(s) \in DOMAIN t /\ u[i] = t[i - Len(s)]
    <2> SUFFICES ASSUME NEW i \in (DOMAIN u) \ DOMAIN s
                 PROVE  i > Len(s) /\ i - Len(s) \in DOMAIN t /\ u[i] = t[i - Len(s)]
        OBVIOUS
    <2>1. i \in 1..(Len(s) + Len(t)) /\ i > Len(s)
        BY <1>3, <1>4 DEF u
    <2>2. i - Len(s) \in DOMAIN t
        BY <1>4, <2>1
    <2> QED BY <1>3, <2>1, <2>2 DEF u
<1> QED BY <1>3, <1>4, <1>5, <1>6, <1>7 DEF u

\* Where an appended element is.
LEMMA SequenceAppended ==
    ASSUME NEW s, IsSequence(s), NEW x
    PROVE  /\ IsSequence(Append(s, x))
           /\ DOMAIN Append(s, x) = 1..(Len(s) + 1)
           /\ \A i \in DOMAIN s : Append(s, x)[i] = s[i]
           /\ Append(s, x)[Len(s) + 1] = x
<1> DEFINE A == Range(s) \cup {x}
<1>1. s \in Seq(A) /\ x \in A
    BY SeqMonotonic, SequenceRules
<1> HIDE DEF A
<1>2. /\ Append(s, x) \in Seq(A)
      /\ Len(Append(s, x)) = Len(s) + 1
      /\ \A i \in 1..Len(s) : Append(s, x)[i] = s[i]
      /\ Append(s, x)[Len(s) + 1] = x
    BY <1>1, AppendProperties
<1> QED BY <1>2, SequenceOf, SequenceRules

-----------------------------------------------------------------------------
\* What Select makes of a sequence, if the elements at T pass.
PicksOf(s, T) == FlattenSeq([i \in DOMAIN s |-> IF i \in T THEN <<s[i]>> ELSE <<>>])

\* The elements picked by their places are elements at those places.
LEMMA PicksFound ==
    ASSUME NEW s, IsSequence(s), NEW T \in SUBSET DOMAIN s
    PROVE  /\ IsSequence(PicksOf(s, T))
           /\ \A k \in DOMAIN PicksOf(s, T) : \E i \in T : PicksOf(s, T)[k] = s[i]
           /\ T = {} => PicksOf(s, T) = <<>>
<1> DEFINE A == Range(s)
           p == [i \in DOMAIN s |-> IF i \in T THEN <<s[i]>> ELSE <<>>]
           F == FlattenSeq(p)
<1>1. /\ Len(s) \in Nat /\ DOMAIN s = 1..Len(s) /\ \A i \in DOMAIN s : s[i] \in A
      /\ Len(p) = Len(s) /\ DOMAIN p = DOMAIN s
    BY SequenceRules DEF Range
<1>2. \A i \in DOMAIN s : p[i] \in Seq(A)
    <2> SUFFICES ASSUME NEW i \in DOMAIN s PROVE p[i] \in Seq(A)
        OBVIOUS
    <2>1. s[i] \in A
        BY <1>1
    <2> HIDE DEF A
    <2> QED BY <2>1
<1>3. p \in Seq(Seq(A))
    <2>1. p \in [1..Len(s) -> Seq(A)]
        <3> HIDE DEF A
        <3> QED BY <1>1, <1>2
    <2> HIDE DEF A, p
    <2> QED BY <1>1, <2>1
<1>4. PICK at, in : F \in Seq(A) /\ Placed(p, Len(p), F, at, in)
    <2> HIDE DEF p, A
    <2> QED BY <1>3, FlattenPlaced
<1>5. ASSUME NEW k \in DOMAIN F
      PROVE  at[k] \in T /\ F[k] = s[at[k]]
    <2>1. k \in 1..Len(F)
        BY <1>4
    <2>2. /\ at[k] \in DOMAIN s /\ in[k] \in Nat \ {0}
          /\ in[k] <= Len(p[at[k]]) /\ F[k] = p[at[k]][in[k]]
        <3> HIDE DEF p
        <3> QED BY <1>1, <1>4, <2>1 DEF Placed
    <2>3. CASE at[k] \in T
        <3>1. p[at[k]] = <<s[at[k]]>>
            BY <2>2, <2>3
        <3> HIDE DEF p
        <3>2. in[k] = 1
            BY <2>2, <3>1
        <3> QED BY <2>2, <2>3, <3>1, <3>2
    <2>4. CASE at[k] \notin T
        <3>1. p[at[k]] = <<>>
            BY <2>2, <2>4
        <3> HIDE DEF p
        <3> QED BY <2>2, <3>1
    <2> QED BY <2>3, <2>4
<1>6. IsSequence(F)
    BY <1>4, SequenceOf
<1>7. PicksOf(s, T) = F
    BY DEF PicksOf
<1> HIDE DEF F
<1>8. T = {} => F = <<>>
    <2> SUFFICES ASSUME T = {} PROVE F = <<>>
        OBVIOUS
    <2>1. DOMAIN F = {}
        BY <1>5
    <2> QED BY <1>4, <2>1
<1> QED BY <1>5, <1>6, <1>7, <1>8

-----------------------------------------------------------------------------
(* What the elements of a sequence give, one after another. *)
\* A sequence of sequences.
AllSequences(p) == IsSequence(p) /\ \A i \in DOMAIN p : IsSequence(p[i])

\* Two sequences are the same if their elements are.
LEMMA SequenceSame ==
    ASSUME NEW s, IsSequence(s), NEW t, IsSequence(t),
           DOMAIN s = DOMAIN t, \A i \in DOMAIN s : s[i] = t[i]
    PROVE  s = t
<1>1. s = [i \in DOMAIN s |-> s[i]] /\ t = [i \in DOMAIN t |-> t[i]]
    BY SequenceRules
<1> QED BY <1>1

\* The laws of joining, for sequences of whatever elements.
LEMMA JoinRules ==
    ASSUME NEW s, IsSequence(s)
    PROVE  /\ s \o <<>> = s /\ <<>> \o s = s
           /\ \A x : Append(s, x) = s \o <<x>>
<1>1. s \in Seq(Range(s))
    BY DEF IsSequence
<1>2. s \o <<>> = s /\ <<>> \o s = s
    BY <1>1, ConcatEmptySeq
<1>3. ASSUME NEW x PROVE Append(s, x) = s \o <<x>>
    <2> DEFINE A == Range(s) \cup {x}
    <2>1. s \in Seq(A) /\ x \in A
        BY <1>1, SeqMonotonic
    <2> HIDE DEF A
    <2> QED BY <2>1, AppendIsConcat
<1> QED BY <1>2, <1>3

\* Joining sequences is associative.
LEMMA JoinAssociates ==
    ASSUME NEW s, IsSequence(s), NEW t, IsSequence(t), NEW u, IsSequence(u)
    PROVE  (s \o t) \o u = s \o (t \o u)
<1> DEFINE A == Range(s) \cup (Range(t) \cup Range(u))
<1>1. s \in Seq(A) /\ t \in Seq(A) /\ u \in Seq(A)
    BY SeqMonotonic, SequenceRules
<1> HIDE DEF A
<1> QED BY <1>1, ConcatAssociative

\* The same with a name for joining, under which the provers find it.
Joining(s, t) == s \o t

\* Joining by its other name is associative too.
LEMMA JoiningAssociates ==
    \A s, t, u : IsSequence(s) /\ IsSequence(t) /\ IsSequence(u) =>
                    Joining(Joining(s, t), u) = Joining(s, Joining(t, u))
<1> SUFFICES ASSUME NEW s, NEW t, NEW u, IsSequence(s), IsSequence(t), IsSequence(u)
             PROVE  Joining(Joining(s, t), u) = Joining(s, Joining(t, u))
    OBVIOUS
<1> QED BY JoinAssociates, SMTT(30) DEF Joining

\* As many places, as long a sequence.
LEMMA LengthIs ==
    ASSUME NEW s, IsSequence(s), NEW n \in Nat, DOMAIN s = 1..n
    PROVE  Len(s) = n
<1>1. Len(s) \in Nat /\ 1..Len(s) = 1..n
    BY SequenceRules
<1>2. n = 0 \/ n \in 1..Len(s)
    BY <1>1
<1>3. Len(s) = 0 \/ Len(s) \in 1..n
    BY <1>1
<1> QED BY <1>1, <1>2, <1>3

\* The first m of a sequence.
Upto(s, m) == [i \in 1..m |-> s[i]]

\* What is left of a sequence when it is cut short, and how it grows by one.
LEMMA UptoRules ==
    ASSUME NEW s, IsSequence(s)
    PROVE  /\ Upto(s, 0) = <<>> /\ Upto(s, Len(s)) = s
           /\ \A m \in 0..Len(s) :
                  /\ IsSequence(Upto(s, m)) /\ Len(Upto(s, m)) = m
                  /\ DOMAIN Upto(s, m) = 1..m
                  /\ \A i \in 1..m : Upto(s, m)[i] = s[i]
           /\ \A m \in 0..(Len(s) - 1) : Upto(s, m + 1) = Append(Upto(s, m), s[m + 1])
<1>1. Len(s) \in Nat /\ DOMAIN s = 1..Len(s) /\ s = [i \in DOMAIN s |-> s[i]]
    BY SequenceRules
<1>2. Upto(s, 0) = <<>> /\ Upto(s, Len(s)) = s
    BY <1>1 DEF Upto
<1>3. ASSUME NEW m \in 0..Len(s)
      PROVE  /\ IsSequence(Upto(s, m)) /\ Len(Upto(s, m)) = m
             /\ DOMAIN Upto(s, m) = 1..m
             /\ \A i \in 1..m : Upto(s, m)[i] = s[i]
    <2>1. m \in Nat
        BY <1>1
    <2>2. Upto(s, m) = [i \in 1..m |-> Upto(s, m)[i]]
        BY DEF Upto
    <2>3. IsSequence(Upto(s, m)) /\ Len(Upto(s, m)) = m
        BY <2>1, <2>2, SequenceMade
    <2> QED BY <2>3 DEF Upto
<1>4. ASSUME NEW m \in 0..(Len(s) - 1)
      PROVE  Upto(s, m + 1) = Append(Upto(s, m), s[m + 1])
    <2> DEFINE p == Upto(s, m)
               q == Upto(s, m + 1)
               r == Append(p, s[m + 1])
    <2>1. m \in 0..Len(s) /\ m + 1 \in 0..Len(s)
        BY <1>1
    <2>2. /\ IsSequence(p) /\ Len(p) = m /\ DOMAIN p = 1..m
          /\ \A i \in 1..m : p[i] = s[i]
          /\ IsSequence(q) /\ DOMAIN q = 1..(m + 1)
          /\ \A i \in 1..(m + 1) : q[i] = s[i]
        BY <1>3, <2>1
    <2> HIDE DEF p, q
    <2>3. /\ IsSequence(r) /\ DOMAIN r = 1..(m + 1)
          /\ \A i \in 1..m : r[i] = p[i]
          /\ r[m + 1] = s[m + 1]
        BY <2>2, SequenceAppended
    <2> HIDE DEF r
    <2>4. \A i \in DOMAIN q : q[i] = r[i]
        <3> SUFFICES ASSUME NEW i \in DOMAIN q PROVE q[i] = r[i]
            OBVIOUS
        <3>1. i \in 1..m \/ i = m + 1
            BY <2>1, <2>2
        <3> QED BY <2>2, <2>3, <3>1
    <2>5. q = r
        BY <2>2, <2>3, <2>4, SequenceSame
    <2> QED BY <2>5 DEF p, q, r
<1> QED BY <1>2, <1>3, <1>4

\* What holds of the empty sequence, and of one more element, holds of all of
\* a sequence: T are the lengths it holds for.
LEMMA PrefixInduction ==
    ASSUME NEW n \in Nat, NEW T, 0 \in T, \A m \in 0..(n - 1) : m \in T => m + 1 \in T
    PROVE  n \in T
<1> DEFINE Q == {m \in Nat : m <= n => m \in T}
<1>1. 0 \in Q
    OBVIOUS
<1>2. \A m \in Nat : m \in Q => m + 1 \in Q
    <2> SUFFICES ASSUME NEW m \in Nat, m \in Q, m + 1 <= n PROVE m + 1 \in T
        OBVIOUS
    <2>1. m \in T /\ m \in 0..(n - 1)
        OBVIOUS
    <2> QED BY <2>1
<1>3. Nat \subseteq Q
    <2> HIDE DEF Q
    <2> QED BY <1>1, <1>2, NatSetInduction
<1> QED BY <1>3

\* A sequence of sequences, flattened, is a sequence.
LEMMA FlattenMade ==
    ASSUME NEW p, AllSequences(p)
    PROVE  IsSequence(FlattenSeq(p))
<1> DEFINE A == UNION {Range(p[i]) : i \in DOMAIN p}
<1>1. IsSequence(p) /\ \A i \in DOMAIN p : IsSequence(p[i])
    BY DEF AllSequences
<1>2. Len(p) \in Nat /\ DOMAIN p = 1..Len(p) /\ p = [i \in DOMAIN p |-> p[i]]
    BY <1>1, SequenceRules
<1>3. \A i \in DOMAIN p : p[i] \in Seq(A)
    <2> SUFFICES ASSUME NEW i \in DOMAIN p PROVE p[i] \in Seq(A)
        OBVIOUS
    <2>1. p[i] \in Seq(Range(p[i]))
        BY <1>1, SequenceRules
    <2>2. Range(p[i]) \subseteq A
        OBVIOUS
    <2> HIDE DEF A
    <2> QED BY <2>1, <2>2, SeqMonotonic
<1> HIDE DEF A
<1>4. p \in Seq(Seq(A))
    <2>1. p \in [1..Len(p) -> Seq(A)]
        BY <1>2, <1>3
    <2> QED BY <1>2, <2>1
<1>5. FlattenSeq(p) \in Seq(A)
    BY <1>4, FlattenPlaced
<1> QED BY <1>5, SequenceOf

\* Nothing is flattened to nothing.
LEMMA FlattenNone == FlattenSeq(<<>>) = <<>>
BY DEF FlattenSeq

\* One more sequence is joined to the others.
LEMMA FlattenAppended ==
    ASSUME NEW p, AllSequences(p), NEW x, IsSequence(x)
    PROVE  /\ AllSequences(Append(p, x))
           /\ FlattenSeq(Append(p, x)) = FlattenSeq(p) \o x
<1> DEFINE q == Append(p, x)
           n == Len(p)
<1>1. IsSequence(p) /\ \A i \in DOMAIN p : IsSequence(p[i])
    BY DEF AllSequences
<1>2. n \in Nat /\ DOMAIN p = 1..n
    BY <1>1, SequenceRules
<1>3. /\ IsSequence(q) /\ DOMAIN q = 1..(n + 1)
      /\ \A i \in 1..n : q[i] = p[i]
      /\ q[n + 1] = x
    BY <1>1, <1>2, SequenceAppended
<1>4. Len(q) = n + 1 /\ Len(q) \in Nat \ {0}
    <2>1. Len(q) \in Nat /\ 1..Len(q) = 1..(n + 1)
        BY <1>3, SequenceRules
    <2> HIDE DEF q, n
    <2>2. Len(q) = n + 1
        <3>1. n + 1 \in 1..Len(q)
            BY <1>2, <2>1
        <3>2. Len(q) \in 1..(n + 1)
            BY <1>2, <2>1, <3>1
        <3> QED BY <1>2, <2>1, <3>1, <3>2
    <2> QED BY <1>2, <2>2
<1> HIDE DEF q
<1>5. AllSequences(q)
    <2>1. \A i \in DOMAIN q : i \in 1..n \/ i = n + 1
        BY <1>2, <1>3
    <2>2. \A i \in DOMAIN q : IsSequence(q[i])
        BY <1>1, <1>2, <1>3, <2>1
    <2> QED BY <1>3, <2>2 DEF AllSequences
<1>6. PICK g : Joins(q, g) /\ FlattenSeq(q) = g[n + 1]
    BY <1>4, FlattenIsJoined
<1>7. CASE n = 0
    <2>1. FlattenSeq(q) = x
        BY <1>3, <1>4, <1>6, <1>7 DEF Joins
    <2>2. p = <<>>
        BY <1>1, <1>7, UptoRules
    <2>3. FlattenSeq(p) \o x = x
        BY <2>2, FlattenNone, JoinRules
    <2> QED BY <1>5, <2>1, <2>3 DEF q
<1>8. CASE n # 0
    <2>1. PICK f : Joins(p, f) /\ FlattenSeq(p) = f[n]
        BY <1>2, <1>8, FlattenIsJoined
    <2> DEFINE T == {m \in Nat : m # 0 => g[m] = f[m]}
    <2>2. 0 \in T
        OBVIOUS
    <2>3. \A m \in 0..(n - 1) : m \in T => m + 1 \in T
        <3> SUFFICES ASSUME NEW m \in 0..(n - 1), m \in T PROVE g[m + 1] = f[m + 1]
            BY <1>2
        <3> DEFINE k == m + 1
        <3>1. k \in 1..n /\ k \in 1..Len(q) /\ k - 1 = m /\ (k = 1 <=> m = 0) /\ m \in Nat
            BY <1>2, <1>4
        <3>2. g[k] = (IF k = 1 THEN q[k] ELSE g[k - 1] \o q[k])
              /\ f[k] = (IF k = 1 THEN p[k] ELSE f[k - 1] \o p[k])
            BY <1>6, <2>1, <3>1 DEF Joins
        <3>3. q[k] = p[k]
            BY <1>3, <3>1
        <3> HIDE DEF k
        <3>4. CASE m = 0
            BY <3>1, <3>2, <3>3, <3>4 DEF k
        <3>5. CASE m # 0
            <4>1. g[m] = f[m]
                BY <3>5
            <4> QED BY <3>1, <3>2, <3>3, <3>5, <4>1 DEF k
        <3> QED BY <3>4, <3>5
    <2>4. n \in T
        <3> HIDE DEF T
        <3> QED BY <1>2, <2>2, <2>3, PrefixInduction
    <2>5. g[n] = f[n]
        BY <1>8, <2>4
    <2>6. g[n + 1] = g[n] \o x
        <3> DEFINE k == n + 1
        <3>1. k \in 1..Len(q) /\ k # 1 /\ k - 1 = n /\ q[k] = x
            BY <1>2, <1>3, <1>4, <1>8
        <3> HIDE DEF k
        <3>2. g[k] = g[k - 1] \o q[k]
            BY <1>6, <3>1 DEF Joins
        <3> QED BY <3>1, <3>2 DEF k
    <2> QED BY <1>5, <1>6, <2>1, <2>5, <2>6 DEF q
<1> QED BY <1>7, <1>8
\* What is made of two sequences of sequences, one after the other.
LEMMA FlattenJoined ==
    ASSUME NEW p, AllSequences(p), NEW q, AllSequences(q)
    PROVE  FlattenSeq(p \o q) = FlattenSeq(p) \o FlattenSeq(q)
<1> DEFINE u(m) == Upto(q, m)
           T == {m \in 0..Len(q) : /\ AllSequences(p \o Upto(q, m)) /\ AllSequences(Upto(q, m))
                                   /\ FlattenSeq(p \o Upto(q, m))
                                          = FlattenSeq(p) \o FlattenSeq(Upto(q, m))}
<1>1. IsSequence(p) /\ IsSequence(q) /\ Len(q) \in Nat /\ DOMAIN q = 1..Len(q)
    BY SequenceRules DEF AllSequences
<1>2. IsSequence(FlattenSeq(p))
    BY FlattenMade
<1>3. 0 \in T
    <2>1. Upto(q, 0) = <<>>
        BY <1>1, UptoRules
    <2>2. p \o <<>> = p /\ FlattenSeq(p) \o <<>> = FlattenSeq(p)
        BY <1>1, <1>2, JoinRules
    <2>3. AllSequences(<<>>)
        <3>1. IsSequence(<<>>)
            BY SequenceOne
        <3>2. \A i \in DOMAIN <<>> : FALSE
            OBVIOUS
        <3> QED BY <3>1, <3>2 DEF AllSequences
    <2> DEFINE e == Upto(q, 0)
    <2> HIDE DEF e
    <2>4. /\ AllSequences(p \o e) /\ AllSequences(e)
          /\ FlattenSeq(p \o e) = FlattenSeq(p) \o FlattenSeq(e)
        <3>1. e = <<>>
            BY <2>1 DEF e
        <3> QED BY <2>2, <2>3, <3>1, FlattenNone, Zenon
    <2> QED BY <1>1, <2>4 DEF e
<1>4. \A m \in 0..(Len(q) - 1) : m \in T => m + 1 \in T
    <2> SUFFICES ASSUME NEW m \in 0..(Len(q) - 1), m \in T PROVE m + 1 \in T
        OBVIOUS
    <2> DEFINE r == Upto(q, m)
               x == q[m + 1]
    <2>1. /\ m \in 0..Len(q) /\ m + 1 \in 0..Len(q) /\ m + 1 \in DOMAIN q
        BY <1>1
    <2>2. Upto(q, m + 1) = Append(r, x) /\ IsSequence(r)
        BY <1>1, <2>1, UptoRules
    <2>3. IsSequence(x) /\ IsSequence(<<x>>)
        BY <2>1, SequenceOne DEF AllSequences
    <2>4. /\ AllSequences(p \o r) /\ AllSequences(r)
          /\ FlattenSeq(p \o r) = FlattenSeq(p) \o FlattenSeq(r)
        OBVIOUS
    <2> HIDE DEF r, x, T
    <2>5. /\ AllSequences(Append(r, x)) /\ FlattenSeq(Append(r, x)) = FlattenSeq(r) \o x
          /\ AllSequences(Append(p \o r, x))
          /\ FlattenSeq(Append(p \o r, x)) = FlattenSeq(p \o r) \o x
        BY <2>3, <2>4, FlattenAppended
    <2>6. IsSequence(p \o r)
        BY <1>1, <2>2, SequenceJoined
    <2>7. p \o Append(r, x) = Append(p \o r, x)
        <3>1. Append(r, x) = r \o <<x>> /\ Append(p \o r, x) = (p \o r) \o <<x>>
            BY <2>2, <2>6, JoinRules
        <3>2. (p \o r) \o <<x>> = p \o (r \o <<x>>)
            <4> DEFINE o == <<x>>
            <4>1. IsSequence(p) /\ IsSequence(r) /\ IsSequence(o)
                BY <1>1, <2>2, <2>3
            <4> HIDE DEF o
            <4>2. (p \o r) \o o = p \o (r \o o)
                BY <4>1, JoinAssociates, SMTT(30)
            <4> QED BY <4>2 DEF o
        <3> QED BY <3>1, <3>2
    <2>8. IsSequence(FlattenSeq(r))
        BY <2>4, FlattenMade
    <2>9. (FlattenSeq(p) \o FlattenSeq(r)) \o x = FlattenSeq(p) \o (FlattenSeq(r) \o x)
        BY <1>2, <2>3, <2>8, JoinAssociates, SMTT(30)
    <2> QED BY <2>1, <2>2, <2>4, <2>5, <2>7, <2>9 DEF T
<1>5. Len(q) \in T
    <2> HIDE DEF T
    <2> QED BY <1>1, <1>3, <1>4, PrefixInduction
<1>6. Upto(q, Len(q)) = q
    BY <1>1, UptoRules
<1> QED BY <1>5, <1>6

\* F of every element of s, one after another.
Over(F, s) == FlattenSeq([i \in DOMAIN s |-> F[s[i]]])
Yields(F, s) == IsSequence(s) /\ \A i \in DOMAIN s : IsSequence(F[s[i]])

\* What the elements of a sequence give, one after another, is a sequence.
LEMMA OverMade ==
    ASSUME NEW s, NEW F, Yields(F, s)
    PROVE  IsSequence(Over(F, s)) /\ AllSequences([i \in DOMAIN s |-> F[s[i]]])
<1> DEFINE p == [i \in DOMAIN s |-> F[s[i]]]
<1>1. IsSequence(s) /\ \A i \in DOMAIN s : IsSequence(F[s[i]])
    BY DEF Yields
<1>2. p = [i \in DOMAIN s |-> p[i]] /\ \A i \in DOMAIN s : p[i] = F[s[i]]
    OBVIOUS
<1>3. Over(F, s) = FlattenSeq(p)
    BY DEF Over
<1> HIDE DEF p
<1>4. IsSequence(p) /\ DOMAIN p = DOMAIN s
    BY <1>1, <1>2, SequenceMapped
<1>5. AllSequences(p)
    BY <1>1, <1>2, <1>4 DEF AllSequences
<1> QED BY <1>3, <1>5, FlattenMade DEF p

\* Of nothing, of one element, and of two sequences.
LEMMA OverNone == \A F : Over(F, <<>>) = <<>>
<1> SUFFICES ASSUME NEW F PROVE Over(F, <<>>) = <<>>
    OBVIOUS
<1>1. [i \in DOMAIN <<>> |-> F[<<>>[i]]] = <<>>
    OBVIOUS
<1> QED BY <1>1, FlattenNone, Zenon DEF Over

\* A sequence on its own is flattened to itself.
LEMMA FlattenOne ==
    ASSUME NEW x
    PROVE  FlattenSeq(<<x>>) = x
<1>1. Len(<<x>>) = 1 /\ <<x>>[1] = x
    OBVIOUS
<1> DEFINE s == <<x>>
<1> HIDE DEF s
<1>2. PICK f : Joins(s, f) /\ FlattenSeq(s) = f[Len(s)]
    BY <1>1, FlattenIsJoined DEF s
<1> QED BY <1>1, <1>2 DEF Joins, s

\* One element gives what the function gives for it.
LEMMA OverOne ==
    ASSUME NEW F, NEW x
    PROVE  Over(F, <<x>>) = F[x]
<1>1. [i \in DOMAIN <<x>> |-> F[<<x>>[i]]] = <<F[x]>>
    OBVIOUS
<1> QED BY <1>1, FlattenOne, Zenon DEF Over

\* Two sequences give what the first gives, then what the second gives.
LEMMA OverJoined ==
    ASSUME NEW F, NEW s, Yields(F, s), NEW t, Yields(F, t)
    PROVE  Yields(F, s \o t) /\ Over(F, s \o t) = Over(F, s) \o Over(F, t)
<1> DEFINE p == [i \in DOMAIN s |-> F[s[i]]]
           q == [i \in DOMAIN t |-> F[t[i]]]
           u == s \o t
           r == [i \in DOMAIN u |-> F[u[i]]]
<1>1. IsSequence(s) /\ IsSequence(t)
    BY DEF Yields
<1>2. AllSequences(p) /\ AllSequences(q)
    BY OverMade
<1>3. /\ DOMAIN s = 1..Len(s) /\ Len(s) \in Nat /\ DOMAIN t = 1..Len(t) /\ Len(t) \in Nat
    BY <1>1, SequenceRules
<1>4. /\ IsSequence(u) /\ DOMAIN u = 1..(Len(s) + Len(t))
      /\ \A i \in DOMAIN s : u[i] = s[i]
      /\ \A i \in (DOMAIN u) \ DOMAIN s : i - Len(s) \in DOMAIN t /\ u[i] = t[i - Len(s)]
    BY <1>1, SequenceJoined
<1>5. /\ IsSequence(p) /\ DOMAIN p = DOMAIN s /\ Len(p) = Len(s)
      /\ \A i \in DOMAIN s : p[i] = F[s[i]]
      /\ p = [i \in DOMAIN s |-> p[i]]
      /\ IsSequence(q) /\ DOMAIN q = DOMAIN t /\ Len(q) = Len(t)
      /\ \A i \in DOMAIN t : q[i] = F[t[i]]
      /\ q = [i \in DOMAIN t |-> q[i]]
    <2>1. p = [i \in DOMAIN s |-> p[i]] /\ q = [i \in DOMAIN t |-> q[i]]
        OBVIOUS
    <2>2. (\A i \in DOMAIN s : p[i] = F[s[i]]) /\ \A i \in DOMAIN t : q[i] = F[t[i]]
        OBVIOUS
    <2> HIDE DEF p, q
    <2> QED BY <1>1, <2>1, <2>2, SequenceMapped
<1>6. /\ r = [i \in DOMAIN u |-> r[i]] /\ \A i \in DOMAIN u : r[i] = F[u[i]]
      /\ DOMAIN r = DOMAIN u
    OBVIOUS
<1>0. Over(F, s) = FlattenSeq(p) /\ Over(F, t) = FlattenSeq(q) /\ Over(F, u) = FlattenSeq(r)
    BY DEF Over
<1> HIDE DEF p, q, r, u
<1>7. IsSequence(r)
    BY <1>4, <1>6, SequenceMapped
<1> DEFINE v == p \o q
<1>8. /\ IsSequence(v) /\ DOMAIN v = 1..(Len(s) + Len(t))
      /\ \A i \in DOMAIN s : v[i] = p[i]
      /\ \A i \in (DOMAIN v) \ DOMAIN s : v[i] = q[i - Len(s)]
    <2>1. IsSequence(p) /\ IsSequence(q)
        BY <1>5
    <2>2. /\ IsSequence(v) /\ DOMAIN v = 1..(Len(p) + Len(q))
          /\ \A i \in DOMAIN p : v[i] = p[i]
          /\ \A i \in (DOMAIN v) \ DOMAIN p : v[i] = q[i - Len(p)]
        BY <2>1, SequenceJoined
    <2> HIDE DEF v
    <2> QED BY <1>5, <2>2
<1> HIDE DEF v
<1>9. \A i \in DOMAIN r : r[i] = v[i]
    <2> SUFFICES ASSUME NEW i \in DOMAIN u PROVE r[i] = v[i]
        BY <1>6
    <2>1. CASE i \in DOMAIN s
        BY <1>4, <1>5, <1>6, <1>8, <2>1
    <2>2. CASE i \notin DOMAIN s
        <3> DEFINE k == i - Len(s)
        <3>1. k \in DOMAIN t /\ u[i] = t[k]
            BY <1>4, <2>2
        <3>2. v[i] = q[k]
            BY <1>4, <1>8, <2>2
        <3> HIDE DEF k
        <3>3. q[k] = F[t[k]] /\ r[i] = F[u[i]]
            BY <1>5, <1>6, <3>1
        <3> QED BY <3>1, <3>2, <3>3
    <2> QED BY <2>1, <2>2
<1>10. r = v
    BY <1>4, <1>6, <1>7, <1>8, <1>9, SequenceSame, SMTT(30)
<1>11. FlattenSeq(r) = FlattenSeq(p) \o FlattenSeq(q)
    BY <1>2, <1>10, FlattenJoined DEF v
<1>12. Yields(F, u)
    <2>1. ASSUME NEW i \in DOMAIN u PROVE IsSequence(F[u[i]])
        <3>1. CASE i \in DOMAIN s
            BY <1>4, <3>1 DEF Yields
        <3>2. CASE i \notin DOMAIN s
            BY <1>4, <3>2 DEF Yields
        <3> QED BY <3>1, <3>2
    <2> QED BY <1>4, <2>1 DEF Yields
<1> QED BY <1>0, <1>11, <1>12 DEF u

\* What G makes of what F makes.
LEMMA OverOver ==
    ASSUME NEW F, NEW s, Yields(F, s), NEW G, NEW H,
           \A i \in DOMAIN s : Yields(G, F[s[i]]) /\ H[s[i]] = Over(G, F[s[i]])
    PROVE  /\ Yields(G, Over(F, s)) /\ Yields(H, s)
           /\ Over(G, Over(F, s)) = Over(H, s)
<1>1. IsSequence(s) /\ Len(s) \in Nat /\ DOMAIN s = 1..Len(s)
    BY SequenceRules DEF Yields
<1>2. Yields(H, s)
    BY <1>1, OverMade DEF Yields
<1> DEFINE T == {m \in 0..Len(s) :
                    /\ Yields(F, Upto(s, m)) /\ Yields(H, Upto(s, m))
                    /\ Yields(G, Over(F, Upto(s, m)))
                    /\ Over(G, Over(F, Upto(s, m))) = Over(H, Upto(s, m))}
<1>3. 0 \in T
    <2>1. Upto(s, 0) = <<>>
        BY <1>1, UptoRules
    <2>2. \A K : Yields(K, <<>>)
        <3>1. IsSequence(<<>>)
            BY SequenceOne
        <3> QED BY <3>1 DEF Yields
    <2> QED BY <1>1, <2>1, <2>2, OverNone
<1>4. \A m \in 0..(Len(s) - 1) : m \in T => m + 1 \in T
    <2> SUFFICES ASSUME NEW m \in 0..(Len(s) - 1), m \in T PROVE m + 1 \in T
        OBVIOUS
    <2> DEFINE r == Upto(s, m)
               x == s[m + 1]
               o == <<x>>
    <2>1. /\ Yields(F, r) /\ Yields(H, r) /\ Yields(G, Over(F, r))
          /\ Over(G, Over(F, r)) = Over(H, r)
        OBVIOUS
    <2>2. m + 1 \in 0..Len(s) /\ m + 1 \in DOMAIN s
        BY <1>1
    <2>3. Yields(G, F[x]) /\ H[x] = Over(G, F[x]) /\ IsSequence(F[x]) /\ IsSequence(H[x])
        BY <1>2, <2>2 DEF Yields
    <2>4. Upto(s, m + 1) = r \o o
        <3>1. Upto(s, m + 1) = Append(r, x) /\ IsSequence(r)
            BY <1>1, UptoRules
        <3> QED BY <3>1, JoinRules
    <2>5. IsSequence(o) /\ DOMAIN o = {1} /\ o[1] = x
        BY SequenceOne
    <2>6. Over(F, o) = F[x] /\ Over(H, o) = H[x]
        BY OverOne
    <2> HIDE DEF T, r, x, o
    <2>7. Yields(F, o) /\ Yields(H, o)
        BY <2>3, <2>5 DEF Yields
    <2>8. /\ Yields(F, r \o o) /\ Yields(H, r \o o)
          /\ Over(F, r \o o) = Over(F, r) \o F[x]
          /\ Over(H, r \o o) = Over(H, r) \o H[x]
        <3>1. /\ Yields(F, r \o o) /\ Over(F, r \o o) = Over(F, r) \o Over(F, o)
            BY <2>1, <2>7, OverJoined, ZenonT(40)
        <3>2. /\ Yields(H, r \o o) /\ Over(H, r \o o) = Over(H, r) \o Over(H, o)
            BY <2>1, <2>7, OverJoined, ZenonT(40)
        <3> QED BY <2>6, <3>1, <3>2
    <2>9. /\ Yields(G, Over(F, r) \o F[x])
          /\ Over(G, Over(F, r) \o F[x]) = Over(G, Over(F, r)) \o Over(G, F[x])
        <3> DEFINE a == Over(F, r)
                   b == F[x]
        <3>1. Yields(G, a) /\ Yields(G, b)
            BY <2>1, <2>3
        <3> HIDE DEF a, b
        <3>2. Yields(G, a \o b) /\ Over(G, a \o b) = Over(G, a) \o Over(G, b)
            BY <3>1, OverJoined, ZenonT(40)
        <3> QED BY <3>2 DEF a, b
    <2> QED BY <2>1, <2>2, <2>3, <2>4, <2>8, <2>9 DEF T
<1>5. Len(s) \in T
    <2> HIDE DEF T
    <2> QED BY <1>1, <1>3, <1>4, PrefixInduction
<1>6. Upto(s, Len(s)) = s
    BY <1>1, UptoRules
<1> QED BY <1>2, <1>5, <1>6

-----------------------------------------------------------------------------
(* Picking and mapping, with sets and functions of the elements. *)
Mapped(g, s) == [i \in DOMAIN s |-> g[s[i]]]
Picks(T, D) == [x \in D |-> IF x \in T THEN <<x>> ELSE <<>>]
Within(s, D) == IsSequence(s) /\ \A i \in DOMAIN s : s[i] \in D

\* A sequence mapped has its length, and its elements' images.
LEMMA MappedMade ==
    ASSUME NEW s, IsSequence(s), NEW g
    PROVE  /\ IsSequence(Mapped(g, s)) /\ DOMAIN Mapped(g, s) = DOMAIN s
           /\ Len(Mapped(g, s)) = Len(s)
           /\ \A i \in DOMAIN s : Mapped(g, s)[i] = g[s[i]]
<1> DEFINE t == Mapped(g, s)
<1>1. t = [i \in DOMAIN s |-> t[i]] /\ \A i \in DOMAIN s : t[i] = g[s[i]]
    BY DEF Mapped
<1> HIDE DEF t
<1>2. IsSequence(t) /\ DOMAIN t = DOMAIN s /\ Len(t) = Len(s)
    BY <1>1, SequenceMapped
<1> QED BY <1>1, <1>2 DEF t

\* Mapping distributes over joining.
LEMMA MappedJoined ==
    ASSUME NEW s, IsSequence(s), NEW t, IsSequence(t), NEW g
    PROVE  Mapped(g, s \o t) = Mapped(g, s) \o Mapped(g, t)
<1> DEFINE u == s \o t
           a == Mapped(g, s)
           b == Mapped(g, t)
           m == Mapped(g, u)
           j == a \o b
<1>1. /\ IsSequence(u) /\ DOMAIN u = 1..(Len(s) + Len(t))
      /\ \A i \in DOMAIN s : u[i] = s[i]
      /\ \A i \in (DOMAIN u) \ DOMAIN s : i - Len(s) \in DOMAIN t /\ u[i] = t[i - Len(s)]
    BY SequenceJoined
<1>2. /\ IsSequence(a) /\ DOMAIN a = DOMAIN s /\ Len(a) = Len(s)
      /\ \A i \in DOMAIN s : a[i] = g[s[i]]
      /\ IsSequence(b) /\ DOMAIN b = DOMAIN t /\ Len(b) = Len(t)
      /\ \A i \in DOMAIN t : b[i] = g[t[i]]
    BY MappedMade
<1> HIDE DEF u
<1>3. IsSequence(m) /\ DOMAIN m = DOMAIN u /\ \A i \in DOMAIN u : m[i] = g[u[i]]
    BY <1>1, MappedMade
<1> HIDE DEF a, b, m
<1>4. /\ IsSequence(j) /\ DOMAIN j = 1..(Len(s) + Len(t))
      /\ \A i \in DOMAIN s : j[i] = a[i]
      /\ \A i \in (DOMAIN j) \ DOMAIN s : j[i] = b[i - Len(s)]
    <2>1. /\ IsSequence(j) /\ DOMAIN j = 1..(Len(a) + Len(b))
          /\ \A i \in DOMAIN a : j[i] = a[i]
          /\ \A i \in (DOMAIN j) \ DOMAIN a : j[i] = b[i - Len(a)]
        <3>1. IsSequence(a) /\ IsSequence(b)
            BY <1>2
        <3> QED BY <3>1, SequenceJoined
    <2> HIDE DEF j
    <2> QED BY <1>2, <2>1
<1> HIDE DEF j
<1>5. ASSUME NEW i \in DOMAIN m PROVE m[i] = j[i]
    <2>1. CASE i \in DOMAIN s
        BY <1>1, <1>2, <1>3, <1>4, <2>1
    <2>2. CASE i \notin DOMAIN s
        <3> DEFINE k == i - Len(s)
        <3>1. k \in DOMAIN t /\ u[i] = t[k]
            BY <1>1, <1>3, <2>2
        <3>2. j[i] = b[k]
            BY <1>1, <1>3, <1>4, <2>2
        <3> HIDE DEF k
        <3> QED BY <1>2, <1>3, <3>1, <3>2
    <2> QED BY <2>1, <2>2
<1>6. m = j
    BY <1>1, <1>3, <1>4, <1>5, SequenceSame
<1> QED BY <1>6 DEF m, j, a, b, u

\* The empty sequence has no element a function could misread.
LEMMA YieldsNone ==
    ASSUME NEW F
    PROVE  Yields(F, <<>>)
<1>1. IsSequence(<<>>)
    BY SequenceOne
<1>2. \A i \in DOMAIN <<>> : FALSE
    OBVIOUS
<1> QED BY <1>1, <1>2 DEF Yields

\* One for each is a mapping.
LEMMA OverMapped ==
    ASSUME NEW s, IsSequence(s), NEW F, NEW g, \A i \in DOMAIN s : F[s[i]] = <<g[s[i]]>>
    PROVE  Over(F, s) = Mapped(g, s) /\ Yields(F, s)
<1>1. Len(s) \in Nat /\ DOMAIN s = 1..Len(s)
    BY SequenceRules
<1>0. Yields(F, s)
    <2>1. \A i \in DOMAIN s : IsSequence(F[s[i]])
        BY SequenceOne
    <2> QED BY <2>1 DEF Yields
<1> DEFINE T == {m \in 0..Len(s) : /\ Yields(F, Upto(s, m))
                                   /\ Over(F, Upto(s, m)) = Mapped(g, Upto(s, m))}
<1>2. 0 \in T
    <2>1. Upto(s, 0) = <<>>
        BY UptoRules
    <2>2. Mapped(g, <<>>) = <<>>
        BY DEF Mapped
    <2>3. Yields(F, <<>>)
        BY YieldsNone
    <2>4. Yields(F, Upto(s, 0)) /\ Over(F, Upto(s, 0)) = Mapped(g, Upto(s, 0))
        BY <2>1, <2>2, <2>3, OverNone, Zenon
    <2> QED BY <1>1, <2>4
<1>3. \A m \in 0..(Len(s) - 1) : m \in T => m + 1 \in T
    <2> SUFFICES ASSUME NEW m \in 0..(Len(s) - 1), m \in T PROVE m + 1 \in T
        OBVIOUS
    <2> DEFINE r == Upto(s, m)
               x == s[m + 1]
               o == <<x>>
    <2>1. Yields(F, r) /\ Over(F, r) = Mapped(g, r)
        OBVIOUS
    <2>2. m + 1 \in 0..Len(s) /\ m + 1 \in DOMAIN s
        BY <1>1
    <2>3. F[x] = <<g[x]>>
        BY <2>2
    <2>4. Upto(s, m + 1) = r \o o /\ IsSequence(r)
        <3>1. m \in 0..Len(s)
            BY <1>1
        <3>2. Upto(s, m + 1) = Append(r, x) /\ IsSequence(r)
            BY <3>1, UptoRules
        <3> QED BY <3>2, JoinRules
    <2>5. /\ IsSequence(o) /\ DOMAIN o = {1} /\ o[1] = x
          /\ Mapped(g, o) = <<g[x]>> /\ IsSequence(<<g[x]>>)
        BY SequenceOne DEF Mapped
    <2>6. Over(F, o) = F[x]
        BY OverOne
    <2> HIDE DEF T, r, x, o
    <2>7. Yields(F, o)
        BY <2>3, <2>5 DEF Yields
    <2>8. Yields(F, r \o o) /\ Over(F, r \o o) = Over(F, r) \o Over(F, o)
        BY <2>1, <2>7, OverJoined
    <2>9. Mapped(g, r \o o) = Mapped(g, r) \o Mapped(g, o)
        BY <2>4, <2>5, MappedJoined, ZenonT(40)
    <2>10. Over(F, r \o o) = Mapped(g, r \o o)
        BY <2>1, <2>3, <2>5, <2>6, <2>8, <2>9, Zenon
    <2> QED BY <2>2, <2>4, <2>8, <2>10 DEF T
<1>4. Len(s) \in T
    <2> HIDE DEF T
    <2> QED BY <1>1, <1>2, <1>3, PrefixInduction
<1>5. Upto(s, Len(s)) = s
    BY UptoRules
<1> QED BY <1>0, <1>4, <1>5

\* Nothing for each is nothing.
LEMMA OverNothing ==
    ASSUME NEW s, IsSequence(s), NEW F, \A i \in DOMAIN s : F[s[i]] = <<>>
    PROVE  Over(F, s) = <<>> /\ Yields(F, s)
<1>0. Yields(F, s)
    BY SequenceOne DEF Yields
<1>1. Len(s) \in Nat /\ DOMAIN s = 1..Len(s)
    BY SequenceRules
<1> DEFINE T == {m \in 0..Len(s) : Yields(F, Upto(s, m)) /\ Over(F, Upto(s, m)) = <<>>}
<1>2. 0 \in T
    <2>1. Upto(s, 0) = <<>>
        BY UptoRules
    <2>2. Yields(F, <<>>)
        BY YieldsNone
    <2>3. Yields(F, Upto(s, 0)) /\ Over(F, Upto(s, 0)) = <<>>
        BY <2>1, <2>2, OverNone, Zenon
    <2> QED BY <1>1, <2>3
<1>3. \A m \in 0..(Len(s) - 1) : m \in T => m + 1 \in T
    <2> SUFFICES ASSUME NEW m \in 0..(Len(s) - 1), m \in T PROVE m + 1 \in T
        OBVIOUS
    <2> DEFINE r == Upto(s, m)
               x == s[m + 1]
               o == <<x>>
    <2>1. Yields(F, r) /\ Over(F, r) = <<>>
        OBVIOUS
    <2>2. m + 1 \in 0..Len(s) /\ m + 1 \in DOMAIN s /\ m \in 0..Len(s)
        BY <1>1
    <2>3. F[x] = <<>>
        BY <2>2
    <2>4. Upto(s, m + 1) = r \o o
        <3>1. Upto(s, m + 1) = Append(r, x) /\ IsSequence(r)
            BY <2>2, UptoRules
        <3> QED BY <3>1, JoinRules
    <2>5. IsSequence(o) /\ DOMAIN o = {1} /\ o[1] = x
        BY SequenceOne
    <2>6. Over(F, o) = F[x]
        BY OverOne
    <2> HIDE DEF T, r, x, o
    <2>7. Yields(F, o)
        BY <2>3, <2>5, SequenceOne DEF Yields
    <2>8. Yields(F, r \o o) /\ Over(F, r \o o) = Over(F, r) \o Over(F, o)
        BY <2>1, <2>7, OverJoined
    <2>9. <<>> \o <<>> = <<>>
        OBVIOUS
    <2>10. Over(F, r \o o) = <<>>
        BY <2>1, <2>3, <2>6, <2>8, <2>9, Zenon
    <2> QED BY <2>2, <2>4, <2>8, <2>10 DEF T
<1>4. Len(s) \in T
    <2> HIDE DEF T
    <2> QED BY <1>1, <1>2, <1>3, PrefixInduction
<1>5. Upto(s, Len(s)) = s
    BY UptoRules
<1> QED BY <1>0, <1>4, <1>5

\* Picking the elements of a set gives a sequence.
LEMMA PickedMade ==
    ASSUME NEW D, NEW s, Within(s, D), NEW T
    PROVE  /\ Yields(Picks(T, D), s)
           /\ IsSequence(Over(Picks(T, D), s))
<1>1. Yields(Picks(T, D), s)
    BY SequenceOne DEF Within, Yields, Picks
<1> QED BY <1>1, OverMade

\* What G makes of the picked ones.
LEMMA OverPicked ==
    ASSUME NEW D, NEW s, Within(s, D), NEW T, NEW G, NEW H,
           \A i \in DOMAIN s : H[s[i]] = IF s[i] \in T THEN G[s[i]] ELSE <<>>,
           \A i \in DOMAIN s : s[i] \in T => IsSequence(G[s[i]])
    PROVE  /\ Over(G, Over(Picks(T, D), s)) = Over(H, s)
           /\ Yields(G, Over(Picks(T, D), s)) /\ Yields(H, s)
<1> DEFINE F == Picks(T, D)
<1>1. Yields(F, s)
    BY PickedMade
<1>2. \A i \in DOMAIN s : F[s[i]] = IF s[i] \in T THEN <<s[i]>> ELSE <<>>
    BY DEF Within, Picks
<1> HIDE DEF F
<1>3. ASSUME NEW i \in DOMAIN s
      PROVE  Yields(G, F[s[i]]) /\ H[s[i]] = Over(G, F[s[i]])
    <2>1. CASE s[i] \in T
        <3> DEFINE x == s[i]
                   o == <<x>>
        <3>1. IsSequence(o) /\ DOMAIN o = {1} /\ o[1] = x
            BY SequenceOne
        <3>2. Over(G, o) = G[x]
            BY OverOne
        <3>3. F[x] = o /\ IsSequence(G[x]) /\ H[x] = G[x]
            BY <1>2, <2>1
        <3> HIDE DEF x, o
        <3>4. Yields(G, o)
            BY <3>1, <3>3 DEF Yields
        <3> QED BY <3>2, <3>3, <3>4 DEF x
    <2>2. CASE s[i] \notin T
        <3>1. F[s[i]] = <<>> /\ H[s[i]] = <<>>
            BY <1>2, <2>2
        <3>2. Yields(G, <<>>)
            BY YieldsNone
        <3> QED BY <3>1, <3>2, OverNone
    <2> QED BY <2>1, <2>2
<1>4. Yields(G, Over(F, s)) /\ Yields(H, s) /\ Over(G, Over(F, s)) = Over(H, s)
    BY <1>1, <1>3, OverOver
<1> QED BY <1>4 DEF F

-----------------------------------------------------------------------------
(* The blocks of a history for Anthropic and their cache boundaries. *)
\* The parts of a kind, as picks of a sequence.
LEMMA PartsPicked ==
    ASSUME NEW s, NEW kind
    PROVE  Parts(s, kind) = PicksOf(s, {i \in DOMAIN s : s[i].kind = kind})
<1> DEFINE T == {i \in DOMAIN s : s[i].kind = kind}
<1>1. [i \in DOMAIN s |-> IF s[i].kind = kind THEN <<s[i]>> ELSE <<>>]
          = [i \in DOMAIN s |-> IF i \in T THEN <<s[i]>> ELSE <<>>]
    OBVIOUS
<1> QED BY <1>1 DEF Parts, Select, FlatMap, MapSeq, PicksOf

\* The parts of one kind are parts of the sequence.
LEMMA PartsFound ==
    ASSUME NEW s, IsSequence(s), NEW kind
    PROVE  /\ IsSequence(Parts(s, kind))
           /\ \A k \in DOMAIN Parts(s, kind) :
                  \E i \in DOMAIN s : s[i].kind = kind /\ Parts(s, kind)[k] = s[i]
           /\ (\A i \in DOMAIN s : s[i].kind # kind) => Parts(s, kind) = <<>>
<1> DEFINE T == {i \in DOMAIN s : s[i].kind = kind}
<1>1. Parts(s, kind) = PicksOf(s, T)
    BY PartsPicked
<1>2. /\ T \in SUBSET DOMAIN s
      /\ (\A i \in DOMAIN s : s[i].kind # kind) => T = {}
    OBVIOUS
<1>3. \A i \in T : i \in DOMAIN s /\ s[i].kind = kind
    OBVIOUS
<1> HIDE DEF T
<1> QED BY <1>1, <1>2, <1>3, PicksFound

IsBlock(b) == /\ b = [kind |-> b.kind, id |-> b.id, content |-> b.content, cc |-> b.cc]
              /\ b.cc \in BOOLEAN

\* A block that is no cache boundary, and one that is no result either.
NoMark(b) == IsBlock(b) /\ b.cc = FALSE
Plain(b)  == NoMark(b) /\ b.kind # "result"

IsMessage(m) ==
    /\ m = [role |-> m.role, blocks |-> m.blocks]
    /\ IsSequence(m.blocks)
    /\ \A j \in DOMAIN m.blocks : IsBlock(m.blocks[j])

\* A block is made without a mark.
LEMMA BlockMade ==
    ASSUME NEW kind, NEW id, NEW content
    PROVE  NoMark(Block(kind, id, content)) /\ Block(kind, id, content).kind = kind
BY DEF Block, NoMark, IsBlock

\* A text block is plain and has no mark.
LEMMA TextMade ==
    ASSUME NEW text
    PROVE  Plain(Text(text)) /\ NoMark(Text(text)) /\ Text(text).kind = "text"
BY BlockMade DEF Text, Plain

\* Stamping a block changes its mark alone.
LEMMA BlockStamped ==
    ASSUME NEW b, IsBlock(b), NEW cc \in BOOLEAN
    PROVE  /\ IsBlock(Stamped(b, cc)) /\ Stamped(b, cc).kind = b.kind
           /\ Stamped(b, cc).cc = cc
BY DEF IsBlock, Stamped

\* A file becomes plain blocks.
LEMMA FileMade ==
    ASSUME NEW part
    PROVE  /\ IsSequence(AnthropicFile(part))
           /\ \A k \in DOMAIN AnthropicFile(part) : Plain(AnthropicFile(part)[k])
<1> DEFINE image    == Block("image", part.id, <<>>)
           document == Block("document", part.id, <<>>)
           label    == Text(FileLabel(part).text)
<1>1. Plain(image) /\ Plain(document) /\ Plain(label)
    BY BlockMade, TextMade DEF Plain
<1>2. CASE part.kind = "image"
    <2>1. AnthropicFile(part) = <<image>>
        BY <1>2 DEF AnthropicFile
    <2> HIDE DEF image
    <2> QED BY <1>1, <2>1, SequenceOne
<1>3. CASE part.kind # "image" /\ PartModality(part) = "image"
    <2>1. AnthropicFile(part) = (IF part.named THEN <<label>> ELSE <<>>) \o <<image>>
        BY <1>3 DEF AnthropicFile
    <2>2. CASE part.named
        <3>1. AnthropicFile(part) = <<label>> \o <<image>>
            BY <2>1, <2>2
        <3> HIDE DEF image, label
        <3> DEFINE p == <<label>>
                   q == <<image>>
        <3>2. /\ IsSequence(p) /\ IsSequence(q)
              /\ \A k \in DOMAIN p : Plain(p[k])
              /\ \A k \in DOMAIN q : Plain(q[k])
            BY <1>1, SequenceOne
        <3> HIDE DEF p, q
        <3>3. IsSequence(p \o q) /\ \A k \in DOMAIN (p \o q) : Plain((p \o q)[k])
            BY <3>2, SequenceJoined
        <3> QED BY <3>1, <3>3 DEF p, q
    <2>3. CASE ~part.named
        <3>1. AnthropicFile(part) = <<>> \o <<image>>
            BY <2>1, <2>3
        <3> HIDE DEF image
        <3>2. AnthropicFile(part) = <<image>>
            BY <3>1
        <3> QED BY <1>1, <3>2, SequenceOne
    <2> QED BY <2>2, <2>3
<1>4. CASE part.kind # "image" /\ PartModality(part) # "image"
    <2>1. AnthropicFile(part) = <<document>>
        BY <1>4 DEF AnthropicFile
    <2> HIDE DEF document
    <2> QED BY <1>1, <2>1, SequenceOne
<1> QED BY <1>2, <1>3, <1>4

\* What AnthropicUser makes of one part.
LastText(m, isLast, j) == /\ isLast /\ m.parts[j].kind = "text"
                          /\ \A k \in DOMAIN m.parts : m.parts[k].kind = "text" => k <= j

UserPart(m, isLast, j) ==
    CASE m.parts[j].kind = "text" ->
             <<Stamped(Text(m.parts[j].text), LastText(m, isLast, j))>>
      [] m.parts[j].kind = "result" -> <<AnthropicResult(m.parts[j])>>
      [] OTHER -> AnthropicFile(m.parts[j])

\* Only the text that ends a message is a cache boundary.
Fits(b, m, isLast, j) ==
    /\ IsBlock(b)
    /\ b.cc = TRUE => b.kind = "text" /\ LastText(m, isLast, j)
    /\ m.parts[j].kind # "result" => b.kind # "result"

\* One part of a user message becomes blocks, the last text of the last one marked.
LEMMA UserPartMade ==
    ASSUME NEW m, NEW isLast \in BOOLEAN, NEW j
    PROVE  /\ IsSequence(UserPart(m, isLast, j))
           /\ \A k \in DOMAIN UserPart(m, isLast, j) :
                  Fits(UserPart(m, isLast, j)[k], m, isLast, j)
           /\ LastText(m, isLast, j) => Len(UserPart(m, isLast, j)) = 1
<1>1. CASE m.parts[j].kind = "text"
    <2> DEFINE cc == LastText(m, isLast, j)
               b  == Stamped(Text(m.parts[j].text), cc)
    <2>1. cc \in BOOLEAN
        BY DEF LastText
    <2>2. IsBlock(b) /\ b.kind = "text" /\ b.cc = cc
        <3>1. IsBlock(Text(m.parts[j].text)) /\ Text(m.parts[j].text).kind = "text"
            BY TextMade DEF NoMark
        <3> HIDE DEF cc
        <3> QED BY <2>1, <3>1, BlockStamped
    <2>3. UserPart(m, isLast, j) = <<b>>
        BY <1>1 DEF UserPart
    <2>4. Fits(b, m, isLast, j)
        BY <2>2 DEF Fits
    <2> HIDE DEF b
    <2> QED BY <2>3, <2>4, SequenceOne
<1>2. CASE m.parts[j].kind = "result"
    <2> DEFINE b == AnthropicResult(m.parts[j])
    <2>1. NoMark(b)
        BY BlockMade DEF AnthropicResult
    <2>2. UserPart(m, isLast, j) = <<b>> /\ ~LastText(m, isLast, j)
        BY <1>2 DEF UserPart, LastText
    <2>3. Fits(b, m, isLast, j)
        BY <1>2, <2>1 DEF Fits, NoMark
    <2> HIDE DEF b
    <2> QED BY <2>2, <2>3, SequenceOne
<1>3. CASE m.parts[j].kind \notin {"text", "result"}
    <2>1. UserPart(m, isLast, j) = AnthropicFile(m.parts[j]) /\ ~LastText(m, isLast, j)
        BY <1>3 DEF UserPart, LastText
    <2>2. \A b : Plain(b) => Fits(b, m, isLast, j)
        BY DEF Fits, Plain, NoMark
    <2> QED BY <2>1, <2>2, FileMade
<1> QED BY <1>1, <1>2, <1>3

\* A user message becomes blocks with one mark at most, in the last message, on text.
LEMMA UserMade ==
    ASSUME NEW m, IsSequence(m.parts), NEW isLast \in BOOLEAN,
           NEW B, B = AnthropicUser(m, isLast)
    PROVE  /\ IsSequence(B)
           /\ \A k \in DOMAIN B : /\ IsBlock(B[k])
                                  /\ B[k].cc => isLast /\ B[k].kind = "text"
           /\ \A k, l \in DOMAIN B : B[k].cc /\ B[l].cc => k = l
           /\ (\A j \in DOMAIN m.parts : m.parts[j].kind # "result") =>
                  \A k \in DOMAIN B : B[k].kind # "result"
<1> DEFINE n == Len(m.parts)
           p == [j \in DOMAIN m.parts |-> UserPart(m, isLast, j)]
           A == UNION {Range(UserPart(m, isLast, j)) : j \in DOMAIN m.parts}
<1>1. n \in Nat /\ DOMAIN m.parts = 1..n /\ Len(p) = n /\ DOMAIN p = 1..n
    BY SequenceRules
<1>2. B = FlattenSeq(p)
    BY DEF AnthropicUser, UserPart, LastText
<1>3. \A j \in 1..n : p[j] = UserPart(m, isLast, j)
    BY <1>1
<1>4. p \in Seq(Seq(A))
    <2>1. \A j \in 1..n : UserPart(m, isLast, j) \in Seq(A)
        <3> SUFFICES ASSUME NEW j \in 1..n PROVE UserPart(m, isLast, j) \in Seq(A)
            OBVIOUS
        <3>1. UserPart(m, isLast, j) \in Seq(Range(UserPart(m, isLast, j)))
            BY UserPartMade, SequenceRules
        <3>2. Range(UserPart(m, isLast, j)) \subseteq A
            BY <1>1
        <3> HIDE DEF A
        <3> QED BY <3>1, <3>2, SeqMonotonic
    <2>2. p \in [1..n -> Seq(A)]
        <3> HIDE DEF A, n
        <3> QED BY <1>1, <2>1
    <2> HIDE DEF A, p, n
    <2> QED BY <1>1, <2>2
<1>5. PICK at, in : B \in Seq(A) /\ Placed(p, n, B, at, in)
    <2> HIDE DEF p, A, n
    <2> QED BY <1>1, <1>2, <1>4, FlattenPlaced
<1> HIDE DEF p, A, n
<1>6. Len(B) \in Nat /\ DOMAIN B = 1..Len(B) /\ IsSequence(B)
    BY <1>5, SequenceOf
<1>7. ASSUME NEW k \in DOMAIN B
      PROVE  /\ at[k] \in 1..n /\ in[k] \in Nat \ {0}
             /\ in[k] \in 1..Len(UserPart(m, isLast, at[k]))
             /\ Fits(B[k], m, isLast, at[k])
    <2>1. /\ at[k] \in 1..n /\ in[k] \in Nat \ {0}
          /\ in[k] <= Len(p[at[k]]) /\ B[k] = p[at[k]][in[k]]
        BY <1>5, <1>6, <1>7 DEF Placed
    <2> DEFINE u == UserPart(m, isLast, at[k])
    <2>2. p[at[k]] = u
        BY <1>3, <2>1
    <2>3. IsSequence(u) /\ \A l \in DOMAIN u : Fits(u[l], m, isLast, at[k])
        BY UserPartMade
    <2> HIDE DEF u
    <2>4. Len(u) \in Nat /\ DOMAIN u = 1..Len(u)
        BY <2>3, SequenceRules
    <2>5. in[k] \in 1..Len(u) /\ in[k] \in DOMAIN u
        BY <2>1, <2>2, <2>4
    <2>6. Fits(B[k], m, isLast, at[k])
        BY <2>1, <2>2, <2>3, <2>5
    <2> QED BY <2>1, <2>5, <2>6 DEF u
<1>8. ASSUME NEW k \in DOMAIN B, B[k].cc
      PROVE  isLast /\ B[k].kind = "text" /\ LastText(m, isLast, at[k]) /\ in[k] = 1
    <2>1. B[k].cc = TRUE
        BY <1>7, <1>8 DEF Fits, IsBlock
    <2>2. B[k].kind = "text" /\ LastText(m, isLast, at[k])
        BY <1>7, <2>1 DEF Fits
    <2>3. Len(UserPart(m, isLast, at[k])) = 1
        BY <2>2, UserPartMade
    <2>4. in[k] = 1
        <3>1. in[k] \in 1..1
            BY <1>7, <2>3
        <3> QED BY <3>1
    <2>5. isLast
        BY <2>2 DEF LastText
    <2> QED BY <2>2, <2>4, <2>5
<1>9. ASSUME NEW k \in DOMAIN B, NEW l \in DOMAIN B, B[k].cc, B[l].cc
      PROVE  k = l
    <2>1. LastText(m, isLast, at[k]) /\ LastText(m, isLast, at[l]) /\ in[k] = 1 /\ in[l] = 1
        BY <1>8, <1>9
    <2>2. at[k] \in 1..n /\ at[l] \in 1..n
        BY <1>7
    <2>3. at[k] = at[l]
        BY <1>1, <2>1, <2>2 DEF LastText, n
    <2>4. ~(k < l) /\ ~(l < k)
        BY <1>5, <1>6, <2>1, <2>2, <2>3 DEF Placed
    <2> QED BY <1>6, <2>4
<1>10. ASSUME \A j \in DOMAIN m.parts : m.parts[j].kind # "result", NEW k \in DOMAIN B
       PROVE  B[k].kind # "result"
    BY <1>1, <1>7, <1>10 DEF Fits, n
<1>11. \A k \in DOMAIN B : IsBlock(B[k])
    BY <1>7 DEF Fits
<1> QED BY <1>6, <1>8, <1>9, <1>10, <1>11

IsHistory(h) == IsSequence(h) /\ \A i \in DOMAIN h : IsMessage(h[i])

Mark(h, i, j, kind) ==
    /\ i \in DOMAIN h /\ j \in DOMAIN h[i].blocks
    /\ h[i].blocks[j].cc /\ h[i].blocks[j].kind = kind

Answers(m) == \E j \in DOMAIN m.blocks : m.blocks[j].kind = "result"

\* A history without cache boundaries and results.
Quiet(h) == /\ IsHistory(h)
            /\ \A i \in DOMAIN h : \A j \in DOMAIN h[i].blocks : Plain(h[i].blocks[j])

\* One text and one result at most are cache boundaries, and the result is in
\* the last message that has any.
Cached(h) ==
    /\ IsHistory(h)
    /\ \A i, j, kind : Mark(h, i, j, kind) => kind \in {"text", "result"}
    /\ \A i, j, k, l, kind : Mark(h, i, j, kind) /\ Mark(h, k, l, kind) => i = k /\ j = l
    /\ \A i, j, k : Mark(h, i, j, "result") /\ k \in DOMAIN h /\ i < k => ~Answers(h[k])

\* A quiet history has no marks and no answers.
LEMMA QuietRules ==
    ASSUME NEW h, Quiet(h)
    PROVE  /\ \A i, j, kind : ~Mark(h, i, j, kind)
           /\ \A i \in DOMAIN h : ~Answers(h[i])
BY DEF Quiet, Mark, Answers, Plain, NoMark

\* A history continued by another is a history.
LEMMA HistoriesJoined ==
    ASSUME NEW h, IsHistory(h), NEW g, IsHistory(g)
    PROVE  IsHistory(h \o g)
<1>1. IsSequence(h) /\ IsSequence(g)
    BY DEF IsHistory
<1>2. \A i \in DOMAIN (h \o g) : IsMessage((h \o g)[i])
    BY <1>1, SequenceJoined DEF IsHistory
<1> QED BY <1>1, <1>2, SequenceJoined DEF IsHistory

\* Quiet messages after a history with its marks in place leave them in place.
LEMMA CachedThenQuiet ==
    ASSUME NEW h, Cached(h), NEW g, Quiet(g)
    PROVE  Cached(h \o g)
<1> DEFINE F == h \o g
<1>1. IsHistory(h) /\ IsHistory(g) /\ IsSequence(h) /\ IsSequence(g)
    BY DEF Cached, Quiet, IsHistory
<1>2. IsHistory(F)
    BY <1>1, HistoriesJoined
<1>3. /\ \A i \in DOMAIN h : F[i] = h[i]
      /\ \A i \in (DOMAIN F) \ DOMAIN h : i - Len(h) \in DOMAIN g /\ F[i] = g[i - Len(h)]
    BY <1>1, SequenceJoined
<1> HIDE DEF F
<1>4. \A i \in (DOMAIN F) \ DOMAIN h : /\ ~Answers(F[i])
                                       /\ \A j, kind : ~Mark(F, i, j, kind)
    <2> SUFFICES ASSUME NEW i \in (DOMAIN F) \ DOMAIN h
                 PROVE  ~Answers(F[i]) /\ \A j, kind : ~Mark(F, i, j, kind)
        OBVIOUS
    <2>1. i - Len(h) \in DOMAIN g /\ F[i] = g[i - Len(h)]
        BY <1>3
    <2>2. ~Answers(g[i - Len(h)]) /\ \A j, kind : ~Mark(g, i - Len(h), j, kind)
        BY <2>1, QuietRules
    <2> QED BY <2>1, <2>2 DEF Mark
<1>5. \A i, j, kind : Mark(F, i, j, kind) => Mark(h, i, j, kind)
    BY <1>3, <1>4 DEF Mark
<1>6. \A i, j, k : Mark(F, i, j, "result") /\ k \in DOMAIN F /\ i < k => ~Answers(F[k])
    BY <1>3, <1>4, <1>5 DEF Cached
<1>7. \A i, j, kind : Mark(F, i, j, kind) => kind \in {"text", "result"}
    BY <1>5 DEF Cached
<1>8. \A i, j, k, l, kind : Mark(F, i, j, kind) /\ Mark(F, k, l, kind) => i = k /\ j = l
    BY <1>5 DEF Cached
<1>9. Cached(F)
    BY <1>2, <1>6, <1>7, <1>8 DEF Cached
<1> QED BY <1>9 DEF F

-----------------------------------------------------------------------------
\* What the assistant said becomes plain blocks.
LEMMA AssistantMade ==
    ASSUME NEW m, IsSequence(m.parts)
    PROVE  /\ IsSequence(AnthropicAssistant(m))
           /\ \A k \in DOMAIN AnthropicAssistant(m) : Plain(AnthropicAssistant(m)[k])
<1> DEFINE T == {i \in DOMAIN m.parts : m.parts[i].kind # "think"}
           other == Select(m.parts, LAMBDA p : p.kind # "think")
           think == Parts(m.parts, "think")
           s == MapSeq(think, AnthropicThinking)
           t == MapSeq(other, LAMBDA p : IF p.kind = "text" THEN Text(p.text) ELSE Call(p))
<1>1. IsSequence(think)
    BY PartsFound
<1>2. IsSequence(other)
    <2>1. [i \in DOMAIN m.parts |-> IF m.parts[i].kind # "think" THEN <<m.parts[i]>> ELSE <<>>]
              = [i \in DOMAIN m.parts |-> IF i \in T THEN <<m.parts[i]>> ELSE <<>>]
        OBVIOUS
    <2>2. other = PicksOf(m.parts, T)
        BY <2>1 DEF Select, FlatMap, MapSeq, PicksOf
    <2> HIDE DEF other
    <2> QED BY <2>2, PicksFound
<1>3. s = [i \in DOMAIN think |-> AnthropicThinking(think[i])]
    BY DEF MapSeq
<1>4. t = [i \in DOMAIN other |-> IF other[i].kind = "text" THEN Text(other[i].text)
                                  ELSE Call(other[i])]
    BY DEF MapSeq
<1>5. AnthropicAssistant(m) = s \o t
    BY DEF AnthropicAssistant
<1>6. \A p : Plain(AnthropicThinking(p)) /\ Plain(Text(p.text)) /\ Plain(Call(p))
    BY BlockMade, TextMade DEF AnthropicThinking, Call, Plain
<1> HIDE DEF s, t, other, think
<1>7. IsSequence(s) /\ \A k \in DOMAIN s : Plain(s[k])
    <2>1. IsSequence(s) /\ DOMAIN s = DOMAIN think
        BY <1>1, <1>3, SequenceMapped
    <2> QED BY <1>3, <1>6, <2>1
<1>8. IsSequence(t) /\ \A k \in DOMAIN t : Plain(t[k])
    <2>1. IsSequence(t) /\ DOMAIN t = DOMAIN other
        BY <1>2, <1>4, SequenceMapped
    <2> QED BY <1>4, <1>6, <2>1
<1>9. IsSequence(s \o t) /\ \A k \in DOMAIN (s \o t) : Plain((s \o t)[k])
    BY <1>7, <1>8, SequenceJoined
<1> QED BY <1>5, <1>9

\* convertMessages leaves one cache boundary at most, on text of the last message.
LEMMA MessagesCached ==
    ASSUME NEW ms, IsTranscript(ms)
    PROVE  /\ Cached(AnthropicMessages(ms))
           /\ (\A i \in DOMAIN ms : \A j \in DOMAIN ms[i].parts :
                  ms[i].parts[j].kind # "result") =>
              \A i \in DOMAIN AnthropicMessages(ms) : ~Answers(AnthropicMessages(ms)[i])
<1> DEFINE H == AnthropicMessages(ms)
           B(i) == IF ms[i].role = "user" THEN AnthropicUser(ms[i], i = Len(ms))
                   ELSE AnthropicAssistant(ms[i])
<1>1. IsSequence(ms) /\ \A i \in DOMAIN ms : IsSequence(ms[i].parts)
    BY DEF IsTranscript
<1>2. H = [i \in DOMAIN ms |-> [role |-> ms[i].role, blocks |-> B(i)]]
    BY DEF AnthropicMessages
<1>3. IsSequence(H) /\ DOMAIN H = DOMAIN ms
    <2>1. H = [i \in DOMAIN ms |-> H[i]]
        BY <1>2
    <2> HIDE DEF H
    <2> QED BY <1>1, <2>1, SequenceMapped
<1>4. ASSUME NEW i \in DOMAIN ms
      PROVE  /\ IsMessage(H[i])
             /\ \A j \in DOMAIN H[i].blocks : H[i].blocks[j].cc =>
                    i = Len(ms) /\ H[i].blocks[j].kind = "text"
             /\ \A j, l \in DOMAIN H[i].blocks :
                    H[i].blocks[j].cc /\ H[i].blocks[l].cc => j = l
             /\ (\A j \in DOMAIN ms[i].parts : ms[i].parts[j].kind # "result") => ~Answers(H[i])
    <2>1. H[i] = [role |-> ms[i].role, blocks |-> B(i)]
        BY <1>2
    <2>2. CASE ms[i].role = "user"
        <3> DEFINE isLast == (i = Len(ms))
                   b == AnthropicUser(ms[i], isLast)
        <3>1. H[i].blocks = b /\ H[i].role = ms[i].role
            BY <2>1, <2>2
        <3>2. isLast \in BOOLEAN /\ IsSequence(ms[i].parts)
            BY <1>1
        <3> HIDE DEF isLast
        <3>3. /\ IsSequence(b)
              /\ \A k \in DOMAIN b : IsBlock(b[k]) /\ (b[k].cc => isLast /\ b[k].kind = "text")
              /\ \A k, l \in DOMAIN b : b[k].cc /\ b[l].cc => k = l
              /\ (\A j \in DOMAIN ms[i].parts : ms[i].parts[j].kind # "result") =>
                     \A k \in DOMAIN b : b[k].kind # "result"
            BY <3>2, UserMade
        <3> HIDE DEF b
        <3>4. H[i] = [role |-> H[i].role, blocks |-> H[i].blocks]
            BY <2>1
        <3> HIDE DEF H
        <3> QED BY <3>1, <3>3, <3>4 DEF IsMessage, Answers, isLast
    <2>3. CASE ms[i].role # "user"
        <3> DEFINE b == AnthropicAssistant(ms[i])
        <3>1. H[i].blocks = b /\ H[i].role = ms[i].role
            BY <2>1, <2>3
        <3>2. IsSequence(b) /\ \A k \in DOMAIN b : Plain(b[k])
            BY <1>1, AssistantMade
        <3> HIDE DEF b
        <3>3. H[i] = [role |-> H[i].role, blocks |-> H[i].blocks]
            BY <2>1
        <3> HIDE DEF H
        <3> QED BY <3>1, <3>2, <3>3 DEF IsMessage, Answers, Plain, NoMark
    <2> QED BY <2>2, <2>3
<1> HIDE DEF H
<1>5. IsHistory(H)
    BY <1>3, <1>4 DEF IsHistory
<1>6. \A i, j, kind : Mark(H, i, j, kind) => kind = "text" /\ i = Len(ms)
    BY <1>3, <1>4 DEF Mark
<1>7. \A i, j, k, l, kind : Mark(H, i, j, kind) /\ Mark(H, k, l, kind) => i = k /\ j = l
    <2> SUFFICES ASSUME NEW i, NEW j, NEW k, NEW l, NEW kind,
                        Mark(H, i, j, kind), Mark(H, k, l, kind)
                 PROVE  i = k /\ j = l
        OBVIOUS
    <2>1. i = k
        BY <1>6
    <2> QED BY <1>3, <1>4, <2>1 DEF Mark
<1>8. Cached(H)
    <2>1. \A i, j : ~Mark(H, i, j, "result")
        BY <1>6
    <2> QED BY <1>5, <1>6, <1>7, <2>1 DEF Cached
<1> QED BY <1>3, <1>4, <1>8 DEF H

-----------------------------------------------------------------------------
\* A history whose blocks of some kinds lose their marks.
Wiped(h, kinds) ==
    [i \in DOMAIN h |-> [h[i] EXCEPT !.blocks =
        [j \in DOMAIN h[i].blocks |->
            IF h[i].blocks[j].kind \in kinds THEN Stamped(h[i].blocks[j], FALSE)
            ELSE h[i].blocks[j]]]]

\* Wiping the marks of some kinds leaves the others and the answers.
LEMMA WipedMade ==
    ASSUME NEW h, IsHistory(h), NEW kinds
    PROVE  /\ IsHistory(Wiped(h, kinds))
           /\ DOMAIN Wiped(h, kinds) = DOMAIN h
           /\ \A i, j, kind : Mark(Wiped(h, kinds), i, j, kind)
                  => Mark(h, i, j, kind) /\ kind \notin kinds
           /\ \A i \in DOMAIN h : Answers(Wiped(h, kinds)[i]) => Answers(h[i])
<1> DEFINE W == Wiped(h, kinds)
           b(i) == [j \in DOMAIN h[i].blocks |->
                       IF h[i].blocks[j].kind \in kinds THEN Stamped(h[i].blocks[j], FALSE)
                       ELSE h[i].blocks[j]]
<1>1. IsSequence(h) /\ \A i \in DOMAIN h : IsMessage(h[i])
    BY DEF IsHistory
<1>2. W = [i \in DOMAIN h |-> [h[i] EXCEPT !.blocks = b(i)]]
    BY DEF Wiped
<1>3. IsSequence(W) /\ DOMAIN W = DOMAIN h
    <2>1. W = [i \in DOMAIN h |-> W[i]] /\ DOMAIN W = DOMAIN h
        BY <1>2
    <2> HIDE DEF W
    <2> QED BY <1>1, <2>1, SequenceMapped
<1>4. ASSUME NEW i \in DOMAIN h
      PROVE  /\ IsMessage(W[i]) /\ DOMAIN W[i].blocks = DOMAIN h[i].blocks
             /\ \A j \in DOMAIN h[i].blocks :
                    /\ W[i].blocks[j].kind = h[i].blocks[j].kind
                    /\ W[i].blocks[j].cc =>
                           h[i].blocks[j].cc /\ h[i].blocks[j].kind \notin kinds
    <2> DEFINE c == b(i)
               g == h[i]
    <2>1. /\ g = [role |-> g.role, blocks |-> g.blocks]
          /\ IsSequence(g.blocks) /\ \A j \in DOMAIN g.blocks : IsBlock(g.blocks[j])
        BY <1>1 DEF IsMessage
    <2>2. W[i] = [g EXCEPT !.blocks = c]
        BY <1>2
    <2>3. \A j \in DOMAIN g.blocks :
              c[j] = IF g.blocks[j].kind \in kinds THEN Stamped(g.blocks[j], FALSE)
                     ELSE g.blocks[j]
        OBVIOUS
    <2>4. c = [j \in DOMAIN g.blocks |-> c[j]] /\ DOMAIN c = DOMAIN g.blocks
        OBVIOUS
    <2> HIDE DEF c, g, W
    <2>5. W[i] = [role |-> g.role, blocks |-> c]
        BY <2>1, <2>2
    <2>6. IsSequence(c)
        BY <2>1, <2>4, SequenceMapped
    <2>7. \A j \in DOMAIN g.blocks :
              /\ IsBlock(c[j]) /\ c[j].kind = g.blocks[j].kind
              /\ c[j].cc => g.blocks[j].cc /\ g.blocks[j].kind \notin kinds
        <3> SUFFICES ASSUME NEW j \in DOMAIN g.blocks
                     PROVE  /\ IsBlock(c[j]) /\ c[j].kind = g.blocks[j].kind
                            /\ c[j].cc => g.blocks[j].cc /\ g.blocks[j].kind \notin kinds
            OBVIOUS
        <3>1. CASE g.blocks[j].kind \in kinds
            BY <2>1, <2>3, <3>1, BlockStamped
        <3>2. CASE g.blocks[j].kind \notin kinds
            BY <2>1, <2>3, <3>2
        <3> QED BY <3>1, <3>2
    <2>8. IsMessage(W[i]) /\ W[i].blocks = c
        BY <2>4, <2>5, <2>6, <2>7 DEF IsMessage
    <2> QED BY <2>4, <2>7, <2>8 DEF g
<1> HIDE DEF W
<1>5. IsHistory(W)
    BY <1>3, <1>4 DEF IsHistory
<1>6. \A i, j, kind : Mark(W, i, j, kind) => Mark(h, i, j, kind) /\ kind \notin kinds
    BY <1>3, <1>4 DEF Mark
<1>7. \A i \in DOMAIN h : Answers(W[i]) => Answers(h[i])
    BY <1>4 DEF Answers
<1> QED BY <1>3, <1>5, <1>6, <1>7 DEF W

\* A history that answers no call has nothing left once its texts are unmarked.
LEMMA UnmarkedQuiet ==
    ASSUME NEW h, Cached(h), \A i \in DOMAIN h : ~Answers(h[i])
    PROVE  Quiet(Unmarked(h))
<1> DEFINE W == Wiped(h, {"text", "result"})
<1>1. Unmarked(h) = W
    BY DEF Unmarked, Wiped, MapSeq
<1>2. /\ IsHistory(W) /\ DOMAIN W = DOMAIN h
      /\ \A i, j, kind : Mark(W, i, j, kind)
             => Mark(h, i, j, kind) /\ kind \notin {"text", "result"}
      /\ \A i \in DOMAIN h : Answers(W[i]) => Answers(h[i])
    BY WipedMade DEF Cached
<1> HIDE DEF W
<1>3. \A i, j, kind : ~Mark(W, i, j, kind)
    BY <1>2 DEF Cached
<1>4. \A i \in DOMAIN W : \A j \in DOMAIN W[i].blocks : Plain(W[i].blocks[j])
    <2> SUFFICES ASSUME NEW i \in DOMAIN W, NEW j \in DOMAIN W[i].blocks
                 PROVE  Plain(W[i].blocks[j])
        OBVIOUS
    <2>1. IsBlock(W[i].blocks[j])
        BY <1>2 DEF IsHistory, IsMessage
    <2>2. ~W[i].blocks[j].cc
        BY <1>3 DEF Mark
    <2>3. W[i].blocks[j].kind # "result"
        BY <1>2 DEF Answers
    <2> QED BY <2>1, <2>2, <2>3 DEF Plain, NoMark, IsBlock
<1> QED BY <1>1, <1>2, <1>4 DEF Quiet

\* Clearing the marks on results keeps the mark on text.
LEMMA ClearedCached ==
    ASSUME NEW h, Cached(h)
    PROVE  /\ Cached(ClearedResults(h))
           /\ \A i, j : ~Mark(ClearedResults(h), i, j, "result")
<1> DEFINE W == Wiped(h, {"result"})
<1>1. ClearedResults(h) = W
    <2>1. \A x : x = "result" <=> x \in {"result"}
        OBVIOUS
    <2> QED BY <2>1 DEF ClearedResults, Wiped, MapSeq
<1>2. /\ IsHistory(W) /\ DOMAIN W = DOMAIN h
      /\ \A i, j, kind : Mark(W, i, j, kind)
             => Mark(h, i, j, kind) /\ kind \notin {"result"}
      /\ \A i \in DOMAIN h : Answers(W[i]) => Answers(h[i])
    BY WipedMade DEF Cached
<1> HIDE DEF W
<1>3. \A i, j : ~Mark(W, i, j, "result")
    BY <1>2
<1>4. Cached(W)
    BY <1>2, <1>3 DEF Cached
<1> QED BY <1>1, <1>3, <1>4

\* One message of blocks is a history.
LEMMA MessageMade ==
    ASSUME NEW role, NEW blocks, IsSequence(blocks),
           \A j \in DOMAIN blocks : IsBlock(blocks[j])
    PROVE  IsHistory(<<[role |-> role, blocks |-> blocks]>>)
<1> DEFINE m == [role |-> role, blocks |-> blocks]
<1>1. IsMessage(m)
    BY DEF IsMessage
<1> HIDE DEF m
<1>2. IsHistory(<<m>>)
    BY <1>1, SequenceOne DEF IsHistory
<1> QED BY <1>2 DEF m

\* What a response appends is quiet.
LEMMA ResponseQuiet ==
    ASSUME NEW said, IsSequence(said)
    PROVE  Quiet(AnthropicResponse(said))
<1> DEFINE At(b) == CASE b.kind = "text" -> Text(Said(b.id))
                      [] b.kind \in {"call", "think"} -> Block(b.kind, b.id, <<>>)
                      [] OTHER -> Block("empty", NoId, <<>>)
           blocks == [i \in DOMAIN said |-> At(said[i])]
<1>1. AnthropicResponse(said) = <<[role |-> "assistant", blocks |-> blocks]>>
    BY DEF AnthropicResponse, MapSeq
<1>2. \A b : Plain(At(b))
    BY BlockMade, TextMade DEF Plain
<1>3. /\ blocks = [i \in DOMAIN said |-> blocks[i]]
      /\ \A i \in DOMAIN said : Plain(blocks[i])
    <2> HIDE DEF At
    <2> QED BY <1>2
<1> HIDE DEF blocks
<1>4. IsSequence(blocks) /\ DOMAIN blocks = DOMAIN said
    BY <1>3, SequenceMapped
<1>5. IsHistory(<<[role |-> "assistant", blocks |-> blocks]>>)
    BY <1>3, <1>4, MessageMade DEF Plain, NoMark
<1> QED BY <1>1, <1>3, <1>4, <1>5 DEF Quiet

\* The mark goes to the last of the results that are appended.
LEMMA OutcomesCached ==
    ASSUME NEW h, Cached(h), \A i, j : ~Mark(h, i, j, "result"),
           NEW outcomes, IsSequence(outcomes)
    PROVE  Cached(h \o AnthropicOutcomes(outcomes))
<1> DEFINE n == Len(outcomes)
           r(i) == Block("result", outcomes[i].id,
                         <<Told(outcomes[i])>> \o FlatMap(Brought(outcomes[i]), AnthropicFile))
           blocks == [i \in DOMAIN outcomes |-> Stamped(r(i), i = n)]
           m == [role |-> "user", blocks |-> blocks]
           g == <<m>>
           F == h \o g
<1>1. AnthropicOutcomes(outcomes) = g
    BY DEF AnthropicOutcomes
<1>2. blocks = [i \in DOMAIN outcomes |-> blocks[i]] /\ DOMAIN blocks = DOMAIN outcomes
    OBVIOUS
<1>3. \A i \in DOMAIN outcomes :
          IsBlock(blocks[i]) /\ blocks[i].kind = "result" /\ blocks[i].cc = (i = n)
    <2> SUFFICES ASSUME NEW i \in DOMAIN outcomes
                 PROVE  IsBlock(blocks[i]) /\ blocks[i].kind = "result" /\ blocks[i].cc = (i = n)
        OBVIOUS
    <2>1. IsBlock(r(i)) /\ r(i).kind = "result"
        BY BlockMade DEF NoMark
    <2>2. (i = n) \in BOOLEAN /\ blocks[i] = Stamped(r(i), i = n)
        OBVIOUS
    <2> HIDE DEF r, blocks
    <2> QED BY <2>1, <2>2, BlockStamped, ZenonT(40)
<1> HIDE DEF blocks
<1>4. IsSequence(blocks)
    BY <1>2, SequenceMapped
<1>5. IsHistory(g)
    BY <1>2, <1>3, <1>4, MessageMade
<1>6. g[1].blocks = blocks /\ DOMAIN g = {1} /\ Len(g) = 1
    OBVIOUS
<1>7. IsHistory(h) /\ IsSequence(h) /\ IsSequence(g)
    BY <1>5 DEF Cached, IsHistory
<1> HIDE DEF g, m, n
<1>8. /\ IsHistory(F)
      /\ \A i \in DOMAIN h : F[i] = h[i]
      /\ \A i \in (DOMAIN F) \ DOMAIN h : i - Len(h) \in DOMAIN g /\ F[i] = g[i - Len(h)]
      /\ DOMAIN F = 1..(Len(h) + 1) /\ DOMAIN h = 1..Len(h) /\ Len(h) \in Nat
    <2>1. IsHistory(F)
        BY <1>5, <1>7, HistoriesJoined
    <2>2. /\ DOMAIN F = 1..(Len(h) + Len(g))
          /\ \A i \in DOMAIN h : F[i] = h[i]
          /\ \A i \in (DOMAIN F) \ DOMAIN h :
                 i - Len(h) \in DOMAIN g /\ F[i] = g[i - Len(h)]
        BY <1>7, SequenceJoined
    <2>3. DOMAIN h = 1..Len(h) /\ Len(h) \in Nat
        BY <1>7, SequenceRules
    <2> HIDE DEF F
    <2> QED BY <1>6, <2>1, <2>2, <2>3
<1>9. (DOMAIN F) \ DOMAIN h = {Len(h) + 1} /\ F[Len(h) + 1] = g[1]
    BY <1>6, <1>8
<1> HIDE DEF F
<1>10. \A i, j, kind : Mark(F, i, j, kind) =>
           \/ i \in DOMAIN h /\ Mark(h, i, j, kind)
           \/ i = Len(h) + 1 /\ kind = "result" /\ j = n
    <2> SUFFICES ASSUME NEW i, NEW j, NEW kind, Mark(F, i, j, kind), i \notin DOMAIN h
                 PROVE  i = Len(h) + 1 /\ kind = "result" /\ j = n
        BY <1>8 DEF Mark
    <2>1. i = Len(h) + 1
        BY <1>9 DEF Mark
    <2>2. F[i].blocks = blocks
        BY <1>6, <1>9, <2>1
    <2> QED BY <1>2, <1>3, <2>1, <2>2 DEF Mark
<1>11. \A i, j, kind : Mark(F, i, j, kind) => kind \in {"text", "result"}
    BY <1>10 DEF Cached
<1>12. \A i, j, k, l, kind : Mark(F, i, j, kind) /\ Mark(F, k, l, kind) => i = k /\ j = l
    <2> SUFFICES ASSUME NEW i, NEW j, NEW k, NEW l, NEW kind,
                        Mark(F, i, j, kind), Mark(F, k, l, kind)
                 PROVE  i = k /\ j = l
        OBVIOUS
    <2> QED BY <1>10 DEF Cached
<1>13. \A i, j, k : Mark(F, i, j, "result") /\ k \in DOMAIN F /\ i < k => ~Answers(F[k])
    <2> SUFFICES ASSUME NEW i, NEW j, NEW k \in DOMAIN F, Mark(F, i, j, "result"), i < k
                 PROVE  ~Answers(F[k])
        OBVIOUS
    <2>1. i = Len(h) + 1
        BY <1>10
    <2> QED BY <1>8, <2>1
<1>14. Cached(F)
    BY <1>8, <1>11, <1>12, <1>13 DEF Cached
<1> QED BY <1>1, <1>14 DEF F

-----------------------------------------------------------------------------
(* Transcripts. *)
\* A transcript with one more message of parts is a transcript.
LEMMA TranscriptAppended ==
    ASSUME NEW messages, IsTranscript(messages), NEW role, NEW parts, IsSequence(parts)
    PROVE  IsTranscript(Append(messages, Message(role, parts)))
<1> DEFINE m == Message(role, parts)
           t == Append(messages, m)
<1>1. IsSequence(messages) /\ \A i \in DOMAIN messages : IsSequence(messages[i].parts)
    BY DEF IsTranscript
<1>2. m.parts = parts
    BY DEF Message
<1>3. DOMAIN messages = 1..Len(messages) /\ Len(messages) \in Nat
    BY <1>1, SequenceRules
<1> HIDE DEF m
<1>4. /\ IsSequence(t) /\ DOMAIN t = 1..(Len(messages) + 1)
      /\ \A i \in DOMAIN messages : t[i] = messages[i]
      /\ t[Len(messages) + 1] = m
    BY <1>1, SequenceAppended
<1> HIDE DEF t
<1>5. \A i \in DOMAIN t : i \in DOMAIN messages \/ i = Len(messages) + 1
    BY <1>3, <1>4
<1>6. \A i \in DOMAIN t : IsSequence(t[i].parts)
    BY <1>1, <1>2, <1>4, <1>5
<1> QED BY <1>4, <1>6 DEF IsTranscript, t, m

\* The empty transcript is one.
LEMMA EmptyTranscript == IsTranscript(<<>>)
<1>1. IsSequence(<<>>)
    BY SequenceOne
<1>2. \A i \in DOMAIN <<>> : FALSE
    OBVIOUS
<1> QED BY <1>1, <1>2 DEF IsTranscript

\* An answer becomes neutral parts.
LEMMA NeutralMade ==
    ASSUME NEW provider, NEW answer, IsSequence(answer)
    PROVE  IsSequence(Neutral(provider, answer))
<1> DEFINE T == {i \in DOMAIN answer : Thinks(provider, answer[i])}
           known == Select(answer, LAMBDA b : Thinks(provider, b))
           texts == FlatMap(Parts(answer, "text"), LAMBDA b : Said(b.id))
           asked == Parts(answer, "call")
           a == MapSeq(known, LAMBDA b : ThinkingPart(b.id, b.kind = "redacted"))
           b == IF texts = <<>> THEN <<>> ELSE <<TextPart(texts)>>
           c == MapSeq(asked, LAMBDA x : CallPart(x.id))
<1>1. Neutral(provider, answer) = a \o b \o c
    BY Zenon DEF Neutral
<1>2. IsSequence(asked)
    BY PartsFound
<1>3. IsSequence(known)
    <2>1. [i \in DOMAIN answer |-> IF Thinks(provider, answer[i]) THEN <<answer[i]>> ELSE <<>>]
              = [i \in DOMAIN answer |-> IF i \in T THEN <<answer[i]>> ELSE <<>>]
        OBVIOUS
    <2>2. known = PicksOf(answer, T)
        BY <2>1 DEF Select, FlatMap, MapSeq, PicksOf
    <2> HIDE DEF known
    <2> QED BY <2>2, PicksFound
<1>4. a = [i \in DOMAIN known |-> a[i]] /\ c = [i \in DOMAIN asked |-> c[i]]
    BY DEF MapSeq
<1>5. IsSequence(b)
    <2> HIDE DEF texts
    <2> QED BY SequenceOne
<1> HIDE DEF a, b, c, known, asked
<1>6. IsSequence(a) /\ IsSequence(c)
    BY <1>2, <1>3, <1>4, SequenceMapped
<1>7. IsSequence(a \o b)
    BY <1>5, <1>6, SequenceJoined
<1>8. IsSequence((a \o b) \o c)
    BY <1>6, <1>7, SequenceJoined
<1> QED BY <1>1, <1>8

-----------------------------------------------------------------------------
(* What a history says, message by message. *)
\* f[n] is what the first n messages say.
Tells(p, h, n, f) ==
    f = [i \in 0..n |-> IF i = 0 THEN <<>> ELSE Adds(p, f[i - 1], h[i])]

\* The recursive function inside Meaning is a function.
LEMMA TellsExist ==
    ASSUME NEW p, NEW h, NEW n \in Nat
    PROVE  \E f : Tells(p, h, n, f)
<1> DEFINE Q == {m \in Nat : \E f : Tells(p, h, m, f)}
<1>1. 0 \in Q
    <2> DEFINE f == [i \in 0..0 |-> <<>>]
    <2>1. Tells(p, h, 0, f)
        BY DEF Tells
    <2> HIDE DEF f
    <2> QED BY <2>1
<1>2. \A m \in Nat : m \in Q => m + 1 \in Q
    <2> SUFFICES ASSUME NEW m \in Nat, \E f : Tells(p, h, m, f)
                 PROVE  \E f : Tells(p, h, m + 1, f)
        OBVIOUS
    <2>1. PICK f : Tells(p, h, m, f)
        OBVIOUS
    <2> DEFINE g == [i \in 0..(m + 1) |-> IF i = 0 THEN <<>> ELSE Adds(p, f[i - 1], h[i])]
    <2>2. \A i \in 0..m : g[i] = f[i]
        <3>1. \A i \in 0..m : f[i] = IF i = 0 THEN <<>> ELSE Adds(p, f[i - 1], h[i])
            BY <2>1 DEF Tells
        <3>2. \A i \in 0..m : i \in 0..(m + 1)
            OBVIOUS
        <3> QED BY <3>1, <3>2
    <2>3. \A i \in 0..(m + 1) : (IF i = 0 THEN <<>> ELSE Adds(p, f[i - 1], h[i]))
                              = (IF i = 0 THEN <<>> ELSE Adds(p, g[i - 1], h[i]))
        <3> SUFFICES ASSUME NEW i \in 0..(m + 1), i # 0 PROVE f[i - 1] = g[i - 1]
            OBVIOUS
        <3>1. i - 1 \in 0..m
            OBVIOUS
        <3> QED BY <2>2, <3>1
    <2>4. Tells(p, h, m + 1, g)
        BY <2>3 DEF Tells
    <2> HIDE DEF g
    <2> QED BY <2>4
<1>3. n \in Q
    <2>1. Nat \subseteq Q
        <3> HIDE DEF Q
        <3> QED BY <1>1, <1>2, NatSetInduction
    <2> QED BY <2>1
<1> QED BY <1>3

\* Meaning is its last value.
LEMMA MeaningTold ==
    ASSUME NEW p, NEW h, IsSequence(h)
    PROVE  \E f : /\ f[0] = <<>> /\ \A i \in 1..Len(h) : f[i] = Adds(p, f[i - 1], h[i])
                  /\ Meaning(p, h) = f[Len(h)]
<1> DEFINE Eq(f) == f = [i \in 0..Len(h) |-> IF i = 0 THEN <<>> ELSE Adds(p, f[i - 1], h[i])]
           f == CHOOSE f : Eq(f)
<1>0. Len(h) \in Nat
    BY SequenceRules
<1>1. Meaning(p, h) = f[Len(h)]
    BY DEF Meaning
<1>2. Eq(f)
    <2>1. \E g : Eq(g)
        <3>1. PICK g : Tells(p, h, Len(h), g)
            BY <1>0, TellsExist
        <3>2. Eq(g)
            BY <3>1, Zenon DEF Tells
        <3> HIDE DEF Eq
        <3> QED BY <3>2
    <2> HIDE DEF Eq
    <2> QED BY <2>1
<1> HIDE DEF f
<1>3. f[0] = <<>> /\ \A i \in 1..Len(h) : f[i] = Adds(p, f[i - 1], h[i])
    BY <1>0, <1>2
<1> QED BY <1>1, <1>3

\* An empty history says nothing.
LEMMA MeaningNone ==
    ASSUME NEW p
    PROVE  Meaning(p, <<>>) = <<>>
<1> DEFINE h == <<>>
<1>1. IsSequence(h) /\ Len(h) = 0
    BY SequenceOne
<1> HIDE DEF h
<1>2. Meaning(p, h) = <<>>
    BY <1>1, MeaningTold
<1> QED BY <1>2 DEF h

\* A history says what it said, and then what its last message says.
LEMMA MeaningAppended ==
    ASSUME NEW p, NEW h, IsSequence(h), NEW x
    PROVE  Meaning(p, Append(h, x)) = Adds(p, Meaning(p, h), x)
<1> DEFINE g == Append(h, x)
           n == Len(h)
<1>1. n \in Nat /\ DOMAIN h = 1..n
    BY SequenceRules
<1>2. /\ IsSequence(g) /\ DOMAIN g = 1..(n + 1)
      /\ \A i \in 1..n : g[i] = h[i]
      /\ g[n + 1] = x
    BY <1>1, SequenceAppended
<1> HIDE DEF g
<1>3. Len(g) = n + 1
    <2>1. Len(g) \in Nat /\ 1..Len(g) = 1..(n + 1)
        BY <1>2, SequenceRules
    <2> HIDE DEF n
    <2>2. n + 1 \in 1..Len(g)
        BY <1>1, <2>1
    <2>3. Len(g) \in 1..(n + 1)
        BY <1>1, <2>1, <2>2
    <2> QED BY <1>1, <2>1, <2>2, <2>3
<1>4. PICK e : /\ e[0] = <<>> /\ \A i \in 1..n : e[i] = Adds(p, e[i - 1], h[i])
               /\ Meaning(p, h) = e[n]
    BY MeaningTold
<1>5. PICK f : /\ f[0] = <<>> /\ \A i \in 1..(n + 1) : f[i] = Adds(p, f[i - 1], g[i])
               /\ Meaning(p, g) = f[n + 1]
    <2>1. \E f : /\ f[0] = <<>> /\ \A i \in 1..Len(g) : f[i] = Adds(p, f[i - 1], g[i])
                 /\ Meaning(p, g) = f[Len(g)]
        BY <1>2, MeaningTold
    <2> QED BY <1>3, <2>1
<1> DEFINE T == {m \in Nat : f[m] = e[m]}
<1>6. 0 \in T
    BY <1>4, <1>5
<1>7. \A m \in 0..(n - 1) : m \in T => m + 1 \in T
    <2> SUFFICES ASSUME NEW m \in 0..(n - 1), f[m] = e[m] PROVE f[m + 1] = e[m + 1]
        BY <1>1
    <2> DEFINE k == m + 1
    <2>1. k \in 1..n /\ k \in 1..(n + 1) /\ k - 1 = m
        BY <1>1
    <2> HIDE DEF k
    <2>2. f[k] = Adds(p, f[m], g[k]) /\ e[k] = Adds(p, e[m], h[k]) /\ g[k] = h[k]
        BY <1>2, <1>4, <1>5, <2>1
    <2> QED BY <2>2 DEF k
<1>8. n \in T
    <2> HIDE DEF T
    <2> QED BY <1>1, <1>6, <1>7, PrefixInduction
<1>9. f[n + 1] = Adds(p, f[n], x)
    <2> DEFINE k == n + 1
    <2>1. k \in 1..(n + 1) /\ k - 1 = n /\ g[k] = x
        BY <1>1, <1>2
    <2> HIDE DEF k
    <2>2. f[k] = Adds(p, f[n], x)
        BY <1>5, <2>1
    <2> QED BY <2>2 DEF k
<1>10. f[n] = e[n]
    BY <1>8
<1> QED BY <1>4, <1>5, <1>9, <1>10 DEF g

\* What a history says, one message further.
LEMMA MeaningExtended ==
    ASSUME NEW p, NEW h, IsSequence(h), NEW s, IsSequence(s), NEW x
    PROVE  Meaning(p, h \o Append(s, x)) = Adds(p, Meaning(p, h \o s), x)
<1> DEFINE o == <<x>>
<1>1. IsSequence(o) /\ IsSequence(h \o s)
    BY SequenceOne, SequenceJoined
<1>2. Append(s, x) = s \o o /\ Append(h \o s, x) = (h \o s) \o o
    BY <1>1, JoinRules
<1> HIDE DEF o
<1>3. (h \o s) \o o = h \o (s \o o)
    BY <1>1, JoinAssociates
<1>4. Meaning(p, Append(h \o s, x)) = Adds(p, Meaning(p, h \o s), x)
    BY <1>1, MeaningAppended
<1> QED BY <1>2, <1>3, <1>4

\* Messages that add the same to whatever was said.
Alike(p, x, y) == \A said : Adds(p, said, x) = Adds(p, said, y)

\* Histories that say the same still do when alike messages follow.
LEMMA MeaningJoined ==
    ASSUME NEW p, NEW h, IsSequence(h), NEW g, IsSequence(g),
           Meaning(p, h) = Meaning(p, g),
           NEW s, IsSequence(s), NEW t, IsSequence(t),
           DOMAIN s = DOMAIN t, \A i \in DOMAIN s : Alike(p, s[i], t[i])
    PROVE  Meaning(p, h \o s) = Meaning(p, g \o t)
<1> DEFINE n == Len(s)
           T == {m \in 0..n : Meaning(p, h \o Upto(s, m)) = Meaning(p, g \o Upto(t, m))}
<1>1. n \in Nat /\ DOMAIN s = 1..n
    BY SequenceRules
<1>2. Len(t) = n
    <2>1. Len(t) \in Nat /\ 1..Len(t) = 1..n
        BY <1>1, SequenceRules
    <2> HIDE DEF n
    <2>2. n = 0 \/ n \in 1..Len(t)
        BY <1>1, <2>1
    <2>3. Len(t) = 0 \/ Len(t) \in 1..n
        BY <1>1, <2>1
    <2> QED BY <1>1, <2>1, <2>2, <2>3
<1> HIDE DEF n
<1>3. 0 \in T
    <2>1. Upto(s, 0) = <<>> /\ Upto(t, 0) = <<>>
        BY UptoRules
    <2>2. h \o <<>> = h /\ g \o <<>> = g
        BY JoinRules
    <2>3. Meaning(p, h \o Upto(s, 0)) = Meaning(p, g \o Upto(t, 0))
        BY <2>1, <2>2, Zenon
    <2>4. 0 \in 0..n
        BY <1>1
    <2> QED BY <2>3, <2>4
<1>4. \A m \in 0..(n - 1) : m \in T => m + 1 \in T
    <2> SUFFICES ASSUME NEW m \in 0..(n - 1), m \in T PROVE m + 1 \in T
        OBVIOUS
    <2> DEFINE a == Upto(s, m)
               b == Upto(t, m)
               x == s[m + 1]
               y == t[m + 1]
    <2>1. /\ m \in 0..n /\ m + 1 \in 0..n /\ m + 1 \in DOMAIN s
        BY <1>1
    <2>2. Upto(s, m + 1) = Append(a, x) /\ IsSequence(a)
        <3>1. m \in 0..(Len(s) - 1) /\ m \in 0..Len(s)
            BY <2>1 DEF n
        <3> QED BY <3>1, UptoRules
    <2>3. Upto(t, m + 1) = Append(b, y) /\ IsSequence(b)
        <3>1. m \in 0..(Len(t) - 1) /\ m \in 0..Len(t)
            BY <1>2, <2>1
        <3> QED BY <3>1, UptoRules
    <2>4. Meaning(p, h \o a) = Meaning(p, g \o b) /\ Alike(p, x, y)
        BY <2>1
    <2> HIDE DEF a, b, x, y, T
    <2>6. /\ Meaning(p, h \o Append(a, x)) = Adds(p, Meaning(p, h \o a), x)
          /\ Meaning(p, g \o Append(b, y)) = Adds(p, Meaning(p, g \o b), y)
        BY <2>2, <2>3, MeaningExtended
    <2>7. Meaning(p, h \o Append(a, x)) = Meaning(p, g \o Append(b, y))
        BY <2>4, <2>6 DEF Alike
    <2> QED BY <2>1, <2>2, <2>3, <2>7 DEF T
<1>5. n \in T
    <2> HIDE DEF T
    <2> QED BY <1>1, <1>3, <1>4, PrefixInduction
<1>6. Upto(s, n) = s /\ Upto(t, n) = t
    BY <1>2, UptoRules DEF n
<1> QED BY <1>5, <1>6

-----------------------------------------------------------------------------
(* What an assistant turn says. *)
\* The text, the calls and the thinking of a turn are sequences.
IsSpeech(u) ==
    /\ u = [role |-> "assistant", text |-> u.text, calls |-> u.calls, thinking |-> u.thinking]
    /\ IsSequence(u.text) /\ IsSequence(u.calls) /\ IsSequence(u.thinking)

Worded(said) ==
    IsSequence(said) /\ \A i \in DOMAIN said : said[i].role = "assistant" => IsSpeech(said[i])

\* Two assistant turns merged are one assistant turn.
LEMMA MergedMade ==
    ASSUME NEW a, IsSpeech(a), NEW b, IsSpeech(b)
    PROVE  IsSpeech(Merged(a, b)) /\ Merged(a, b).role = "assistant"
<1> DEFINE m == Merged(a, b)
<1>1. /\ IsSequence(a.text \o b.text) /\ IsSequence(a.calls \o b.calls)
      /\ IsSequence(a.thinking \o b.thinking)
    BY SequenceJoined DEF IsSpeech
<1>2. /\ m.text = a.text \o b.text /\ m.calls = a.calls \o b.calls
      /\ m.thinking = a.thinking \o b.thinking /\ m.role = "assistant"
      /\ m = [role |-> "assistant", text |-> m.text, calls |-> m.calls, thinking |-> m.thinking]
    BY DEF Merged
<1> HIDE DEF m
<1>3. IsSpeech(m)
    BY <1>1, <1>2 DEF IsSpeech
<1> QED BY <1>2, <1>3 DEF m

\* It does not matter in which order turns are merged.
LEMMA MergedAssociates ==
    ASSUME NEW a, IsSpeech(a), NEW b, IsSpeech(b), NEW c, IsSpeech(c)
    PROVE  Merged(Merged(a, b), c) = Merged(a, Merged(b, c))
<1>1. /\ (a.text \o b.text) \o c.text = a.text \o (b.text \o c.text)
      /\ (a.calls \o b.calls) \o c.calls = a.calls \o (b.calls \o c.calls)
      /\ (a.thinking \o b.thinking) \o c.thinking = a.thinking \o (b.thinking \o c.thinking)
    <2>1. /\ IsSequence(a.text) /\ IsSequence(b.text) /\ IsSequence(c.text)
          /\ IsSequence(a.calls) /\ IsSequence(b.calls) /\ IsSequence(c.calls)
          /\ IsSequence(a.thinking) /\ IsSequence(b.thinking) /\ IsSequence(c.thinking)
        BY DEF IsSpeech
    <2>2. /\ Joining(Joining(a.text, b.text), c.text) = Joining(a.text, Joining(b.text, c.text))
          /\ Joining(Joining(a.calls, b.calls), c.calls)
                = Joining(a.calls, Joining(b.calls, c.calls))
          /\ Joining(Joining(a.thinking, b.thinking), c.thinking)
                = Joining(a.thinking, Joining(b.thinking, c.thinking))
        BY <2>1, JoiningAssociates
    <2> QED BY <2>2 DEF Joining
<1> QED BY <1>1, Zenon DEF Merged

\* The turn goes on with the speech u, or u is a turn of its own.
GoesOn(next, said, u) ==
    LET n == Len(said)
    IN  /\ IsSequence(next)
        /\ \/ /\ n # 0 /\ said[n].role = "assistant" /\ DOMAIN next = 1..n
              /\ next[n] = Merged(said[n], u)
              /\ \A i \in 1..n : i # n => next[i] = said[i]
           \/ /\ n = 0 \/ said[n].role # "assistant"
              /\ DOMAIN next = 1..(n + 1) /\ next[n + 1] = u
              /\ \A i \in 1..n : next[i] = said[i]

\* Where the last turn goes.
LEMMA ContinuedRules ==
    ASSUME NEW said, IsSequence(said), NEW u
    PROVE  GoesOn(Continued(said, u), said, u)
<1> DEFINE n    == Len(said)
           next == Continued(said, u)
<1>1. n \in Nat /\ DOMAIN said = 1..n /\ (said = <<>> <=> n = 0)
    <2>1. n = 0 => said = <<>>
        BY UptoRules
    <2> QED BY <2>1, SequenceRules
<1>2. CASE n # 0 /\ said[n].role = "assistant"
    <2>1. next = [said EXCEPT ![n] = Merged(said[n], u)]
        BY <1>1, <1>2 DEF Continued, Last
    <2> HIDE DEF next, n
    <2>2. /\ DOMAIN next = 1..n /\ next[n] = Merged(said[n], u)
          /\ \A i \in 1..n : i # n => next[i] = said[i]
          /\ next = [i \in DOMAIN said |-> next[i]]
        <3>1. DOMAIN next = 1..n /\ n \in 1..n /\ \A i \in 1..n : i # n => next[i] = said[i]
            BY <1>1, <1>2, <2>1
        <3>2. next[n] = Merged(said[n], u)
            BY <1>1, <2>1, <3>1
        <3>3. next = [i \in DOMAIN said |-> next[i]]
            BY <2>1
        <3> QED BY <3>1, <3>2, <3>3
    <2>3. IsSequence(next)
        BY <2>2, SequenceMapped
    <2> QED BY <1>2, <2>2, <2>3 DEF GoesOn, next, n
<1>3. CASE ~(n # 0 /\ said[n].role = "assistant")
    <2>1. next = Append(said, u)
        BY <1>1, <1>3 DEF Continued, Last
    <2>2. /\ IsSequence(next) /\ DOMAIN next = 1..(n + 1) /\ next[n + 1] = u
          /\ \A i \in 1..n : next[i] = said[i]
        BY <1>1, <2>1, SequenceAppended
    <2> HIDE DEF next
    <2>3. GoesOn(next, said, u)
        BY <1>3, <2>2 DEF GoesOn
    <2> QED BY <2>3 DEF next
<1> QED BY <1>2, <1>3

\* A turn added to a history's turns leaves them well formed.
LEMMA ContinuedWorded ==
    ASSUME NEW said, Worded(said), NEW u, IsSpeech(u)
    PROVE  Worded(Continued(said, u))
<1> DEFINE n    == Len(said)
           next == Continued(said, u)
<1>1. IsSequence(said) /\ \A i \in DOMAIN said : said[i].role = "assistant" => IsSpeech(said[i])
    BY DEF Worded
<1>2. n \in Nat /\ DOMAIN said = 1..n
    BY <1>1, SequenceRules
<1>3. /\ IsSequence(next)
      /\ \/ /\ n # 0 /\ said[n].role = "assistant" /\ DOMAIN next = 1..n
            /\ next[n] = Merged(said[n], u)
            /\ \A i \in 1..n : i # n => next[i] = said[i]
         \/ /\ n = 0 \/ said[n].role # "assistant"
            /\ DOMAIN next = 1..(n + 1) /\ next[n + 1] = u
            /\ \A i \in 1..n : next[i] = said[i]
    <2>1. GoesOn(next, said, u)
        BY <1>1, ContinuedRules
    <2> HIDE DEF next
    <2> QED BY <2>1 DEF GoesOn
<1> HIDE DEF next
<1>4. ASSUME NEW i \in DOMAIN next, next[i].role = "assistant"
      PROVE  IsSpeech(next[i])
    <2>1. CASE i \in 1..n /\ next[i] = said[i]
        BY <1>1, <1>2, <1>4, <2>1
    <2>2. CASE next[i] = u
        BY <2>2
    <2>3. CASE n # 0 /\ said[n].role = "assistant" /\ next[i] = Merged(said[n], u)
        <3>1. n \in DOMAIN said
            BY <1>2, <2>3
        <3> HIDE DEF n
        <3>2. IsSpeech(said[n])
            BY <1>1, <2>3, <3>1
        <3>3. IsSpeech(Merged(said[n], u))
            BY <3>2, MergedMade
        <3> QED BY <2>3, <3>3
    <2> HIDE DEF n
    <2>4. \/ i \in 1..n /\ next[i] = said[i]
          \/ next[i] = u
          \/ n # 0 /\ said[n].role = "assistant" /\ next[i] = Merged(said[n], u)
        <3>1. CASE n # 0 /\ said[n].role = "assistant" /\ DOMAIN next = 1..n
                   /\ next[n] = Merged(said[n], u) /\ \A k \in 1..n : k # n => next[k] = said[k]
            BY <3>1
        <3>2. CASE DOMAIN next = 1..(n + 1) /\ next[n + 1] = u
                   /\ \A k \in 1..n : next[k] = said[k]
            <4>1. i = n + 1 \/ i \in 1..n
                BY <1>2, <3>2
            <4> QED BY <3>2, <4>1
        <3> QED BY <1>3, <3>1, <3>2
    <2> QED BY <2>1, <2>2, <2>3, <2>4
<1>5. Worded(next)
    BY <1>3, <1>4 DEF Worded
<1> QED BY <1>5 DEF next

\* Two speeches one after the other are one.
LEMMA ContinuedTwice ==
    ASSUME NEW said, Worded(said), NEW a, IsSpeech(a), NEW b, IsSpeech(b)
    PROVE  Continued(Continued(said, a), b) = Continued(said, Merged(a, b))
<1> DEFINE n   == Len(said)
           one == Continued(said, a)
           two == Continued(one, b)
           sum == Continued(said, Merged(a, b))
<1>1. /\ IsSequence(said) /\ n \in Nat /\ DOMAIN said = 1..n
      /\ \A i \in DOMAIN said : said[i].role = "assistant" => IsSpeech(said[i])
    BY SequenceRules DEF Worded
<1>2. /\ IsSequence(one)
      /\ \/ /\ n # 0 /\ said[n].role = "assistant" /\ DOMAIN one = 1..n
            /\ one[n] = Merged(said[n], a)
            /\ \A i \in 1..n : i # n => one[i] = said[i]
         \/ /\ n = 0 \/ said[n].role # "assistant"
            /\ DOMAIN one = 1..(n + 1) /\ one[n + 1] = a
            /\ \A i \in 1..n : one[i] = said[i]
    <2>1. GoesOn(one, said, a)
        BY <1>1, ContinuedRules
    <2> HIDE DEF one
    <2> QED BY <2>1 DEF GoesOn
<1>3. /\ IsSequence(sum)
      /\ \/ /\ n # 0 /\ said[n].role = "assistant" /\ DOMAIN sum = 1..n
            /\ sum[n] = Merged(said[n], Merged(a, b))
            /\ \A i \in 1..n : i # n => sum[i] = said[i]
         \/ /\ n = 0 \/ said[n].role # "assistant"
            /\ DOMAIN sum = 1..(n + 1) /\ sum[n + 1] = Merged(a, b)
            /\ \A i \in 1..n : sum[i] = said[i]
    <2>1. GoesOn(sum, said, Merged(a, b))
        BY <1>1, ContinuedRules
    <2> HIDE DEF sum
    <2> QED BY <2>1 DEF GoesOn
<1>4. /\ IsSequence(two)
      /\ \/ /\ Len(one) # 0 /\ one[Len(one)].role = "assistant" /\ DOMAIN two = 1..Len(one)
            /\ two[Len(one)] = Merged(one[Len(one)], b)
            /\ \A i \in 1..Len(one) : i # Len(one) => two[i] = one[i]
         \/ /\ Len(one) = 0 \/ one[Len(one)].role # "assistant"
            /\ DOMAIN two = 1..(Len(one) + 1) /\ two[Len(one) + 1] = b
            /\ \A i \in 1..Len(one) : two[i] = one[i]
    <2> HIDE DEF one
    <2>1. GoesOn(two, one, b)
        BY <1>2, ContinuedRules
    <2> HIDE DEF two
    <2> QED BY <2>1 DEF GoesOn
<1>5. a.role = "assistant"
    BY DEF IsSpeech
<1> HIDE DEF one, two, sum
<1>6. Len(one) \in Nat /\ DOMAIN one = 1..Len(one)
    BY <1>2, SequenceRules
<1>8. CASE n # 0 /\ said[n].role = "assistant"
    <2>1. IsSpeech(said[n])
        BY <1>1, <1>8
    <2>2. /\ DOMAIN one = 1..n /\ one[n] = Merged(said[n], a)
          /\ \A i \in 1..n : i # n => one[i] = said[i]
        BY <1>2, <1>8
    <2>3. Len(one) = n
        BY <1>1, <1>2, <2>2, LengthIs
    <2>4. one[n].role = "assistant"
        BY <2>1, <2>2, MergedMade
    <2>5. /\ DOMAIN two = 1..n /\ two[n] = Merged(one[n], b)
          /\ \A i \in 1..n : i # n => two[i] = one[i]
        BY <1>4, <1>8, <2>3, <2>4
    <2>6. two[n] = sum[n]
        BY <1>3, <1>8, <2>1, <2>2, <2>5, MergedAssociates
    <2>7. DOMAIN two = DOMAIN sum /\ \A i \in DOMAIN two : two[i] = sum[i]
        BY <1>3, <1>8, <2>2, <2>5, <2>6
    <2>8. two = sum
        BY <1>3, <1>4, <2>7, SequenceSame
    <2> QED BY <2>8 DEF two, one, sum
<1>9. CASE ~(n # 0 /\ said[n].role = "assistant")
    <2>0. n + 1 \in Nat
        BY <1>1
    <2>1. /\ DOMAIN one = 1..(n + 1) /\ one[n + 1] = a
          /\ \A i \in 1..n : one[i] = said[i]
        BY <1>2, <1>9
    <2>2. Len(one) = n + 1
        BY <1>1, <1>2, <2>1, <2>0, LengthIs
    <2>3. /\ DOMAIN two = 1..(n + 1) /\ two[n + 1] = Merged(a, b)
          /\ \A i \in 1..(n + 1) : i # n + 1 => two[i] = one[i]
        BY <1>1, <1>4, <1>5, <2>1, <2>2
    <2>4. /\ DOMAIN sum = 1..(n + 1) /\ sum[n + 1] = Merged(a, b)
          /\ \A i \in 1..n : sum[i] = said[i]
        BY <1>3, <1>9
    <2>5. \A i \in 1..(n + 1) : i = n + 1 \/ i \in 1..n
        BY <1>1
    <2>6. \A i \in 1..n : i \in 1..(n + 1) /\ i # n + 1
        BY <1>1
    <2>7. DOMAIN two = DOMAIN sum /\ \A i \in DOMAIN two : two[i] = sum[i]
        BY <2>1, <2>3, <2>4, <2>5, <2>6
    <2>8. two = sum
        BY <1>3, <1>4, <2>7, SequenceSame
    <2> QED BY <2>8 DEF two, one, sum
<1> QED BY <1>8, <1>9

\* What a history says is worded if its assistant messages are.
LEMMA MeaningWorded ==
    ASSUME NEW p, NEW h, IsSequence(h),
           \A i \in DOMAIN h : h[i].role = "assistant" => IsSpeech(Spoken(p, h[i].blocks))
    PROVE  Worded(Meaning(p, h))
<1> DEFINE n == Len(h)
           T == {m \in 0..n : Worded(Meaning(p, Upto(h, m)))}
<1>1. n \in Nat /\ DOMAIN h = 1..n
    BY SequenceRules
<1>2. 0 \in T
    <2>1. Upto(h, 0) = <<>>
        BY UptoRules
    <2>2. Worded(<<>>)
        <3>1. IsSequence(<<>>)
            BY SequenceOne
        <3> QED BY <3>1 DEF Worded
    <2>3. Worded(Meaning(p, Upto(h, 0)))
        BY <2>1, <2>2, MeaningNone, Zenon
    <2> QED BY <1>1, <2>3
<1>3. \A m \in 0..(n - 1) : m \in T => m + 1 \in T
    <2> SUFFICES ASSUME NEW m \in 0..(n - 1), Worded(Meaning(p, Upto(h, m)))
                 PROVE  Worded(Meaning(p, Upto(h, m + 1)))
        BY <1>1
    <2> DEFINE a    == Upto(h, m)
               x    == h[m + 1]
               said == Meaning(p, a)
    <2>1. Upto(h, m + 1) = Append(a, x) /\ IsSequence(a)
        <3>1. m \in 0..(Len(h) - 1) /\ m \in 0..Len(h)
            BY <1>1
        <3> QED BY <3>1, UptoRules
    <2>2. Worded(said) /\ (x.role = "assistant" => IsSpeech(Spoken(p, x.blocks)))
        <3>1. m + 1 \in DOMAIN h
            BY <1>1
        <3> QED BY <3>1
    <2>3. Meaning(p, Append(a, x)) = Adds(p, said, x)
        BY <2>1, MeaningAppended
    <2> HIDE DEF a, x, said
    <2>4. CASE x.role = "assistant"
        BY <2>1, <2>2, <2>3, <2>4, ContinuedWorded DEF Adds
    <2>5. CASE x.role # "assistant"
        <3> DEFINE o == [role |-> x.role, blocks |-> MapSeq(x.blocks, LAMBDA b : Stamped(b, FALSE))]
                   t == Append(said, o)
        <3>1. Adds(p, said, x) = t
            BY <2>5, Zenon DEF Adds
        <3>2. o.role # "assistant"
            BY <2>5
        <3> HIDE DEF o
        <3>3. IsSequence(said) /\ \A i \in DOMAIN said : said[i].role = "assistant" => IsSpeech(said[i])
            BY <2>2 DEF Worded
        <3>4. /\ IsSequence(t) /\ DOMAIN t = 1..(Len(said) + 1) /\ t[Len(said) + 1] = o
              /\ \A i \in DOMAIN said : t[i] = said[i]
            BY <3>3, SequenceAppended
        <3>5. \A i \in DOMAIN t : i \in DOMAIN said \/ i = Len(said) + 1
            <4>1. DOMAIN said = 1..Len(said) /\ Len(said) \in Nat
                BY <3>3, SequenceRules
            <4> QED BY <3>4, <4>1
        <3> HIDE DEF t
        <3>6. Worded(t)
            BY <3>2, <3>3, <3>4, <3>5 DEF Worded
        <3> QED BY <2>1, <2>3, <3>1, <3>6
    <2> QED BY <2>4, <2>5
<1>4. n \in T
    <2> HIDE DEF T
    <2> QED BY <1>1, <1>2, <1>3, PrefixInduction
<1>5. Upto(h, n) = h
    BY UptoRules
<1> QED BY <1>4, <1>5

-----------------------------------------------------------------------------
(* What blocks say. *)
TextOf(D)      == [b \in D |-> IF b.kind = "text" THEN b.content ELSE <<>>]
IdsOfKind(k, D)== [b \in D |-> IF b.kind = k THEN <<b.id>> ELSE <<>>]
Speech(p, text, called, thought) ==
    [role |-> "assistant", text |-> text, calls |-> called,
     thinking |-> IF p \in ReplaysThinking THEN thought ELSE <<>>]

\* The text of a block is a sequence of snippets.
WordedBlocks(blocks) ==
    IsSequence(blocks) /\ \A j \in DOMAIN blocks :
        blocks[j].kind = "text" => IsSequence(blocks[j].content)

\* The parts of a kind are picked one by one.
LEMMA PartsOver ==
    ASSUME NEW D, NEW s, Within(s, D), NEW k
    PROVE  Parts(s, k) = Over(Picks({x \in D : x.kind = k}, D), s)
<1> DEFINE F == Picks({x \in D : x.kind = k}, D)
<1>1. \A i \in DOMAIN s : F[s[i]] = IF s[i].kind = k THEN <<s[i]>> ELSE <<>>
    BY DEF Within, Picks
<1>2. [i \in DOMAIN s |-> IF s[i].kind = k THEN <<s[i]>> ELSE <<>>] = [i \in DOMAIN s |-> F[s[i]]]
    <2> HIDE DEF F
    <2> QED BY <1>1
<1> HIDE DEF F
<1>3. Parts(s, k) = FlattenSeq([i \in DOMAIN s |-> IF s[i].kind = k THEN <<s[i]>> ELSE <<>>])
    BY Zenon DEF Parts, Select, FlatMap, MapSeq
<1>4. Parts(s, k) = Over(F, s)
    BY <1>2, <1>3, Zenon DEF Over
<1> QED BY <1>4 DEF F

\* What blocks say: their text, their calls and their thinking, block by block.
LEMMA SpokenOver ==
    ASSUME NEW p, NEW D, NEW s, Within(s, D)
    PROVE  Spoken(p, s) = Speech(p, Over(TextOf(D), s), Over(IdsOfKind("call", D), s),
                                 Over(IdsOfKind("think", D), s))
<1> DEFINE t == [i \in DOMAIN s |-> IF s[i].kind = "text" THEN s[i].content ELSE <<>>]
           c == [i \in DOMAIN s |-> IF s[i].kind = "call" THEN <<s[i].id>> ELSE <<>>]
           h == [i \in DOMAIN s |-> IF s[i].kind = "think" THEN <<s[i].id>> ELSE <<>>]
<1>1. Spoken(p, s) = [role |-> "assistant", text |-> FlattenSeq(t), calls |-> FlattenSeq(c),
                      thinking |-> IF p \in ReplaysThinking THEN FlattenSeq(h) ELSE <<>>]
    BY Zenon DEF Spoken, FlatMap, MapSeq
<1>2. /\ t = [i \in DOMAIN s |-> TextOf(D)[s[i]]]
      /\ c = [i \in DOMAIN s |-> IdsOfKind("call", D)[s[i]]]
      /\ h = [i \in DOMAIN s |-> IdsOfKind("think", D)[s[i]]]
    BY DEF Within, TextOf, IdsOfKind
<1> HIDE DEF t, c, h
<1>3. /\ FlattenSeq(t) = Over(TextOf(D), s)
      /\ FlattenSeq(c) = Over(IdsOfKind("call", D), s)
      /\ FlattenSeq(h) = Over(IdsOfKind("think", D), s)
    BY <1>2, Zenon DEF Over
<1> QED BY <1>1, <1>3, Zenon DEF Speech

\* Every block gives a sequence of snippets, and of ids.
LEMMA YieldsText ==
    ASSUME NEW D, NEW s, Within(s, D), WordedBlocks(s)
    PROVE  /\ Yields(TextOf(D), s)
           /\ \A k : Yields(IdsOfKind(k, D), s)
<1>1. IsSequence(s) /\ IsSequence(<<>>) /\ \A i \in DOMAIN s : s[i] \in D
    BY SequenceOne DEF Within
<1>2. \A i \in DOMAIN s : TextOf(D)[s[i]] = IF s[i].kind = "text" THEN s[i].content ELSE <<>>
    BY <1>1 DEF TextOf
<1>3. \A k : \A i \in DOMAIN s :
           IdsOfKind(k, D)[s[i]] = IF s[i].kind = k THEN <<s[i].id>> ELSE <<>>
    BY <1>1 DEF IdsOfKind
<1>4. \A i \in DOMAIN s : IsSequence(TextOf(D)[s[i]])
    BY <1>1, <1>2 DEF WordedBlocks
<1>5. \A k : \A i \in DOMAIN s : IsSequence(IdsOfKind(k, D)[s[i]])
    BY <1>1, <1>3, SequenceOne
<1> QED BY <1>1, <1>4, <1>5 DEF Yields

\* What blocks say is a turn of the assistant.
LEMMA SpokenMade ==
    ASSUME NEW p, NEW s, WordedBlocks(s)
    PROVE  IsSpeech(Spoken(p, s))
<1> DEFINE D == Range(s)
<1>1. Within(s, D)
    BY DEF Within, WordedBlocks, Range
<1> HIDE DEF D
<1> DEFINE t == Over(TextOf(D), s)
           c == Over(IdsOfKind("call", D), s)
           h == Over(IdsOfKind("think", D), s)
           u == Spoken(p, s)
<1>2. u = Speech(p, t, c, h)
    BY <1>1, SpokenOver
<1>3. IsSequence(t) /\ IsSequence(c) /\ IsSequence(h) /\ IsSequence(<<>>)
    BY <1>1, YieldsText, OverMade, SequenceOne
<1> HIDE DEF t, c, h, u
<1>4. IsSpeech(u)
    BY <1>2, <1>3 DEF Speech, IsSpeech
<1> QED BY <1>4 DEF u

\* Turns merge text with text, calls with calls, thinking with thinking.
LEMMA SpeechMerged ==
    ASSUME NEW p, NEW a, NEW b, NEW c, NEW d, NEW e, NEW f
    PROVE  Merged(Speech(p, a, b, c), Speech(p, d, e, f))
               = Speech(p, a \o d, b \o e, c \o f)
<1>1. <<>> \o <<>> = <<>>
    OBVIOUS
<1>2. CASE p \in ReplaysThinking
    BY <1>2 DEF Merged, Speech
<1>3. CASE p \notin ReplaysThinking
    BY <1>1, <1>3 DEF Merged, Speech
<1> QED BY <1>2, <1>3

\* Blocks joined say what the first say, merged with what the others say.
LEMMA SpokenJoined ==
    ASSUME NEW p, NEW s, WordedBlocks(s), NEW t, WordedBlocks(t)
    PROVE  /\ WordedBlocks(s \o t)
           /\ Spoken(p, s \o t) = Merged(Spoken(p, s), Spoken(p, t))
<1> DEFINE D == Range(s) \cup Range(t)
           u == s \o t
<1>1. IsSequence(s) /\ IsSequence(t)
    BY DEF WordedBlocks
<1>2. Within(s, D) /\ Within(t, D)
    BY <1>1 DEF Within, Range
<1>3. /\ IsSequence(u)
      /\ \A i \in DOMAIN s : u[i] = s[i]
      /\ \A i \in (DOMAIN u) \ DOMAIN s : i - Len(s) \in DOMAIN t /\ u[i] = t[i - Len(s)]
    BY <1>1, SequenceJoined
<1> HIDE DEF D, u
<1>4. ASSUME NEW i \in DOMAIN u
      PROVE  u[i] \in D /\ (u[i].kind = "text" => IsSequence(u[i].content))
    <2>1. CASE i \in DOMAIN s
        BY <1>2, <1>3, <2>1 DEF Within, WordedBlocks
    <2>2. CASE i \notin DOMAIN s
        BY <1>2, <1>3, <2>2 DEF Within, WordedBlocks
    <2> QED BY <2>1, <2>2
<1>5. Within(u, D) /\ WordedBlocks(u)
    BY <1>3, <1>4 DEF Within, WordedBlocks
<1>6. /\ Over(TextOf(D), u) = Over(TextOf(D), s) \o Over(TextOf(D), t)
      /\ Over(IdsOfKind("call", D), u)
            = Over(IdsOfKind("call", D), s) \o Over(IdsOfKind("call", D), t)
      /\ Over(IdsOfKind("think", D), u)
            = Over(IdsOfKind("think", D), s) \o Over(IdsOfKind("think", D), t)
    <2>1. /\ Yields(TextOf(D), s) /\ Yields(TextOf(D), t)
          /\ \A k : Yields(IdsOfKind(k, D), s) /\ Yields(IdsOfKind(k, D), t)
        BY <1>2, YieldsText
    <2> QED BY <2>1, OverJoined, ZenonT(40) DEF u
<1>7. /\ Spoken(p, s) = Speech(p, Over(TextOf(D), s), Over(IdsOfKind("call", D), s),
                                 Over(IdsOfKind("think", D), s))
      /\ Spoken(p, t) = Speech(p, Over(TextOf(D), t), Over(IdsOfKind("call", D), t),
                                 Over(IdsOfKind("think", D), t))
      /\ Spoken(p, u) = Speech(p, Over(TextOf(D), u), Over(IdsOfKind("call", D), u),
                                 Over(IdsOfKind("think", D), u))
    BY <1>2, <1>5, SpokenOver
<1>9. Spoken(p, u) = Merged(Spoken(p, s), Spoken(p, t))
    <2> DEFINE a == Over(TextOf(D), s)
               b == Over(IdsOfKind("call", D), s)
               c == Over(IdsOfKind("think", D), s)
               d == Over(TextOf(D), t)
               e == Over(IdsOfKind("call", D), t)
               f == Over(IdsOfKind("think", D), t)
    <2>1. /\ Spoken(p, s) = Speech(p, a, b, c) /\ Spoken(p, t) = Speech(p, d, e, f)
          /\ Spoken(p, u) = Speech(p, a \o d, b \o e, c \o f)
        <3>1. /\ Over(TextOf(D), u) = a \o d /\ Over(IdsOfKind("call", D), u) = b \o e
              /\ Over(IdsOfKind("think", D), u) = c \o f
            BY <1>6
        <3>2. Spoken(p, u) = Speech(p, Over(TextOf(D), u), Over(IdsOfKind("call", D), u),
                                       Over(IdsOfKind("think", D), u))
            BY <1>7
        <3> QED BY <1>7, <3>1, <3>2, Zenon
    <2> HIDE DEF a, b, c, d, e, f
    <2>2. Merged(Speech(p, a, b, c), Speech(p, d, e, f))
              = Speech(p, a \o d, b \o e, c \o f)
        BY SpeechMerged
    <2> QED BY <2>1, <2>2, Zenon
<1> QED BY <1>5, <1>9 DEF u

\* The picked ones are picked.
LEMMA PickedFound ==
    ASSUME NEW D, NEW r, Within(r, D), NEW T
    PROVE  /\ Within(Over(Picks(T, D), r), D)
           /\ \A k \in DOMAIN Over(Picks(T, D), r) : Over(Picks(T, D), r)[k] \in T
<1> DEFINE F == Picks(T, D)
           K == Over(F, r)
           N == {i \in DOMAIN r : r[i] \in T}
<1>1. [i \in DOMAIN r |-> F[r[i]]] = [i \in DOMAIN r |-> IF i \in N THEN <<r[i]>> ELSE <<>>]
    BY DEF Within, Picks
<1>2. K = PicksOf(r, N)
    <2> HIDE DEF F, N
    <2> QED BY <1>1, Zenon DEF Over, PicksOf
<1>3. IsSequence(r) /\ \A i \in DOMAIN r : r[i] \in D
    BY DEF Within
<1>0. N \in SUBSET DOMAIN r /\ \A i \in N : r[i] \in T
    OBVIOUS
<1> HIDE DEF F, K, N
<1>4. IsSequence(K) /\ \A k \in DOMAIN K : \E i \in N : K[k] = r[i]
    <2> DEFINE L == PicksOf(r, N)
    <2>1. IsSequence(L) /\ \A k \in DOMAIN L : \E i \in N : L[k] = r[i]
        BY <1>0, <1>3, PicksFound
    <2> HIDE DEF L
    <2>2. K = L
        BY <1>2 DEF L
    <2> QED BY <2>1, <2>2
<1>5. \A k \in DOMAIN K : K[k] \in D /\ K[k] \in T
    BY <1>0, <1>3, <1>4
<1>6. Within(K, D) /\ \A k \in DOMAIN K : K[k] \in T
    BY <1>4, <1>5 DEF Within
<1> QED BY <1>6 DEF K, F

\* What blocks say that elements have become.
LEMMA SpokenMapped ==
    ASSUME NEW p, NEW D, NEW r, Within(r, D), NEW V,
           NEW t, \A x \in D : t[x] = IF V[x].kind = "text" THEN V[x].content ELSE <<>>,
           NEW c, \A x \in D : c[x] = IF V[x].kind = "call" THEN <<V[x].id>> ELSE <<>>,
           NEW h, \A x \in D : h[x] = IF V[x].kind = "think" THEN <<V[x].id>> ELSE <<>>
    PROVE  Spoken(p, Mapped(V, r)) = Speech(p, Over(t, r), Over(c, r), Over(h, r))
<1> DEFINE bs == Mapped(V, r)
           E  == Range(bs)
<1>1. IsSequence(r) /\ \A i \in DOMAIN r : r[i] \in D
    BY DEF Within
<1>2. IsSequence(bs) /\ DOMAIN bs = DOMAIN r /\ \A i \in DOMAIN r : bs[i] = V[r[i]]
    BY <1>1, MappedMade
<1> HIDE DEF bs
<1>3. Within(bs, E) /\ \A i \in DOMAIN r : bs[i] \in E
    BY <1>2 DEF Within, Range
<1> HIDE DEF E
<1>4. Spoken(p, bs) = Speech(p, Over(TextOf(E), bs), Over(IdsOfKind("call", E), bs),
                                Over(IdsOfKind("think", E), bs))
    BY <1>3, SpokenOver
<1>5. /\ [i \in DOMAIN bs |-> TextOf(E)[bs[i]]] = [i \in DOMAIN r |-> t[r[i]]]
      /\ [i \in DOMAIN bs |-> IdsOfKind("call", E)[bs[i]]] = [i \in DOMAIN r |-> c[r[i]]]
      /\ [i \in DOMAIN bs |-> IdsOfKind("think", E)[bs[i]]] = [i \in DOMAIN r |-> h[r[i]]]
    <2>1. ASSUME NEW i \in DOMAIN r
          PROVE  /\ TextOf(E)[bs[i]] = t[r[i]]
                 /\ IdsOfKind("call", E)[bs[i]] = c[r[i]]
                 /\ IdsOfKind("think", E)[bs[i]] = h[r[i]]
        <3> DEFINE x == r[i]
                   b == bs[i]
        <3>1. x \in D /\ b \in E /\ b = V[x]
            BY <1>1, <1>2, <1>3
        <3> HIDE DEF x, b
        <3>2. /\ TextOf(E)[b] = IF b.kind = "text" THEN b.content ELSE <<>>
              /\ IdsOfKind("call", E)[b] = IF b.kind = "call" THEN <<b.id>> ELSE <<>>
              /\ IdsOfKind("think", E)[b] = IF b.kind = "think" THEN <<b.id>> ELSE <<>>
            BY <3>1 DEF TextOf, IdsOfKind
        <3>3. TextOf(E)[b] = t[x] /\ IdsOfKind("call", E)[b] = c[x]
              /\ IdsOfKind("think", E)[b] = h[x]
            BY <3>1, <3>2, Zenon
        <3> QED BY <3>3 DEF x, b
    <2> QED BY <1>2, <2>1
<1>6. /\ Over(TextOf(E), bs) = Over(t, r)
      /\ Over(IdsOfKind("call", E), bs) = Over(c, r)
      /\ Over(IdsOfKind("think", E), bs) = Over(h, r)
    BY <1>5, Zenon DEF Over
<1>7. Spoken(p, bs) = Speech(p, Over(t, r), Over(c, r), Over(h, r))
    BY <1>4, <1>6, Zenon
<1> QED BY <1>7 DEF bs

\* What those say that were picked.
LEMMA SpokenPicked ==
    ASSUME NEW p, NEW D, NEW r, Within(r, D), NEW T, NEW V,
           \A x \in D : x \in T /\ V[x].kind = "text" => IsSequence(V[x].content),
           NEW t, \A x \in D : t[x] = IF x \in T /\ V[x].kind = "text" THEN V[x].content ELSE <<>>,
           NEW c, \A x \in D : c[x] = IF x \in T /\ V[x].kind = "call" THEN <<V[x].id>> ELSE <<>>,
           NEW h, \A x \in D : h[x] = IF x \in T /\ V[x].kind = "think" THEN <<V[x].id>> ELSE <<>>
    PROVE  /\ WordedBlocks(Mapped(V, Over(Picks(T, D), r)))
           /\ Spoken(p, Mapped(V, Over(Picks(T, D), r)))
                 = Speech(p, Over(t, r), Over(c, r), Over(h, r))
<1> DEFINE K  == Over(Picks(T, D), r)
           bs == Mapped(V, K)
           a  == [x \in D |-> IF V[x].kind = "text" THEN V[x].content ELSE <<>>]
           b  == [x \in D |-> IF V[x].kind = "call" THEN <<V[x].id>> ELSE <<>>]
           d  == [x \in D |-> IF V[x].kind = "think" THEN <<V[x].id>> ELSE <<>>]
<1>1. /\ \A x \in D : a[x] = IF V[x].kind = "text" THEN V[x].content ELSE <<>>
      /\ \A x \in D : b[x] = IF V[x].kind = "call" THEN <<V[x].id>> ELSE <<>>
      /\ \A x \in D : d[x] = IF V[x].kind = "think" THEN <<V[x].id>> ELSE <<>>
    OBVIOUS
<1>2. \A i \in DOMAIN r : r[i] \in D
    BY DEF Within
<1>3. Within(K, D) /\ \A k \in DOMAIN K : K[k] \in T
    BY PickedFound
<1> HIDE DEF a, b, d
<1>4. Over(a, K) = Over(t, r)
    <2>1. \A i \in DOMAIN r : t[r[i]] = IF r[i] \in T THEN a[r[i]] ELSE <<>>
        BY <1>1, <1>2
    <2>2. \A i \in DOMAIN r : r[i] \in T => IsSequence(a[r[i]])
        BY <1>1, <1>2, SequenceOne
    <2> QED BY <2>1, <2>2, OverPicked
<1>5. Over(b, K) = Over(c, r)
    <2>1. \A i \in DOMAIN r : c[r[i]] = IF r[i] \in T THEN b[r[i]] ELSE <<>>
        BY <1>1, <1>2
    <2>2. \A i \in DOMAIN r : r[i] \in T => IsSequence(b[r[i]])
        BY <1>1, <1>2, SequenceOne
    <2> QED BY <2>1, <2>2, OverPicked
<1>6. Over(d, K) = Over(h, r)
    <2>1. \A i \in DOMAIN r : h[r[i]] = IF r[i] \in T THEN d[r[i]] ELSE <<>>
        BY <1>1, <1>2
    <2>2. \A i \in DOMAIN r : r[i] \in T => IsSequence(d[r[i]])
        BY <1>1, <1>2, SequenceOne
    <2> QED BY <2>1, <2>2, OverPicked
<1> HIDE DEF K
<1>7. Spoken(p, bs) = Speech(p, Over(t, r), Over(c, r), Over(h, r))
    <2>1. Spoken(p, bs) = Speech(p, Over(a, K), Over(b, K), Over(d, K))
        <3>1. Within(K, D)
            BY <1>3
        <3> HIDE DEF bs
        <3>2. Spoken(p, Mapped(V, K)) = Speech(p, Over(a, K), Over(b, K), Over(d, K))
            BY <1>1, <3>1, SpokenMapped
        <3> QED BY <3>2 DEF bs
    <2> QED BY <1>4, <1>5, <1>6, <2>1, Zenon
<1>8. WordedBlocks(bs)
    <2>1. IsSequence(bs) /\ DOMAIN bs = DOMAIN K /\ \A k \in DOMAIN K : bs[k] = V[K[k]]
        BY <1>3, MappedMade DEF Within
    <2> HIDE DEF bs
    <2>2. \A k \in DOMAIN K : bs[k].kind = "text" => IsSequence(bs[k].content)
        BY <1>3, <2>1 DEF Within
    <2> QED BY <2>1, <2>2 DEF WordedBlocks
<1> QED BY <1>7, <1>8 DEF bs, K

\* Two sequences over a set join to one over it.
LEMMA WithinJoined ==
    ASSUME NEW D, NEW s, Within(s, D), NEW t, Within(t, D)
    PROVE  Within(s \o t, D)
<1> DEFINE u == s \o t
<1>1. IsSequence(s) /\ IsSequence(t)
    BY DEF Within
<1>2. /\ IsSequence(u)
      /\ \A i \in DOMAIN s : u[i] = s[i]
      /\ \A i \in (DOMAIN u) \ DOMAIN s : i - Len(s) \in DOMAIN t /\ u[i] = t[i - Len(s)]
    BY <1>1, SequenceJoined
<1> HIDE DEF u
<1>3. \A i \in DOMAIN u : u[i] \in D
    BY <1>2 DEF Within
<1>4. Within(u, D)
    BY <1>2, <1>3 DEF Within
<1> QED BY <1>4 DEF u

-----------------------------------------------------------------------------
(* One message, or a run of messages, of the assistant. *)
\* A message of the assistant continues the history with what its blocks say.
LEMMA SpeechAdded ==
    ASSUME NEW p, NEW h, IsSequence(h), NEW bs
    PROVE  Meaning(p, h \o <<[role |-> "assistant", blocks |-> bs]>>)
               = Continued(Meaning(p, h), Spoken(p, bs))
<1> DEFINE x == [role |-> "assistant", blocks |-> bs]
<1>1. x.role = "assistant" /\ x.blocks = bs
    OBVIOUS
<1> HIDE DEF x
<1>2. Append(h, x) = h \o <<x>>
    BY JoinRules
<1>3. Meaning(p, Append(h, x)) = Adds(p, Meaning(p, h), x)
    BY MeaningAppended
<1>4. Adds(p, Meaning(p, h), x) = Continued(Meaning(p, h), Spoken(p, bs))
    BY <1>1, Zenon DEF Adds
<1>5. Meaning(p, h \o <<x>>) = Continued(Meaning(p, h), Spoken(p, bs))
    BY <1>2, <1>3, <1>4, Zenon
<1> QED BY <1>5 DEF x

\* Items of the Responses API that follow one another are one turn.
Run(bs) == [k \in DOMAIN bs |-> Item("assistant", bs[k])]

\* A message, or a run of items, of the assistant continues the history with what its
\* blocks say.
LEMMA RunSpoken ==
    ASSUME NEW p, NEW h, IsSequence(h), Worded(Meaning(p, h)),
           NEW bs, WordedBlocks(bs), bs # <<>>
    PROVE  /\ IsSequence(Run(bs))
           /\ Meaning(p, h \o Run(bs)) = Continued(Meaning(p, h), Spoken(p, bs))
<1>1. /\ IsSequence(bs) /\ Len(bs) \in Nat /\ DOMAIN bs = 1..Len(bs) /\ Len(bs) # 0
      /\ \A j \in DOMAIN bs : bs[j].kind = "text" => IsSequence(bs[j].content)
    BY SequenceRules DEF WordedBlocks
<1> DEFINE T == {m \in 0..Len(bs) : m # 0 =>
                    /\ WordedBlocks(Upto(bs, m)) /\ IsSequence(Run(Upto(bs, m)))
                    /\ Meaning(p, h \o Run(Upto(bs, m)))
                           = Continued(Meaning(p, h), Spoken(p, Upto(bs, m)))}
<1>2. 0 \in T
    BY <1>1
<1>3. \A m \in 0..(Len(bs) - 1) : m \in T => m + 1 \in T
    <2> SUFFICES ASSUME NEW m \in 0..(Len(bs) - 1), m \in T PROVE m + 1 \in T
        OBVIOUS
    <2> DEFINE s == Upto(bs, m)
               x == bs[m + 1]
               o == <<x>>
               u == s \o o
    <2>1. m # 0 => /\ WordedBlocks(s) /\ IsSequence(Run(s))
                   /\ Meaning(p, h \o Run(s)) = Continued(Meaning(p, h), Spoken(p, s))
        OBVIOUS
    <2>2. m \in 0..Len(bs) /\ m + 1 \in 0..Len(bs) /\ m + 1 \in DOMAIN bs /\ m \in Nat
        BY <1>1
    <2>3. Upto(bs, m + 1) = u /\ IsSequence(s) /\ (m = 0 => s = <<>>)
        <3>1. Upto(bs, m + 1) = Append(s, x) /\ IsSequence(s) /\ Upto(bs, 0) = <<>>
            BY <1>1, <2>2, UptoRules
        <3> QED BY <3>1, JoinRules
    <2>4. IsSequence(o) /\ DOMAIN o = {1} /\ o[1] = x
        BY SequenceOne
    <2>5. x.kind = "text" => IsSequence(x.content)
        BY <1>1, <2>2
    <2>6. Run(o) = <<Item("assistant", x)>>
        BY DEF Run
    <2>7. Item("assistant", x) = [role |-> "assistant", blocks |-> o]
        BY DEF Item
    <2> HIDE DEF T, s, x, o
    <2>8. WordedBlocks(o)
        BY <2>4, <2>5 DEF WordedBlocks
    <2>9. \A g : IsSequence(g) => Meaning(p, g \o Run(o)) = Continued(Meaning(p, g), Spoken(p, o))
        <3> SUFFICES ASSUME NEW g, IsSequence(g)
                     PROVE  Meaning(p, g \o Run(o)) = Continued(Meaning(p, g), Spoken(p, o))
            OBVIOUS
        <3>1. Meaning(p, g \o <<[role |-> "assistant", blocks |-> o]>>)
                  = Continued(Meaning(p, g), Spoken(p, o))
            BY SpeechAdded
        <3> QED BY <2>6, <2>7, <3>1, Zenon
    <2>10. IsSequence(Run(o))
        BY <2>6, SequenceOne
    <2>11. CASE m = 0
        <3>1. <<>> \o o = o
            BY <2>4, JoinRules
        <3>2. u = o
            BY <2>3, <2>11, <3>1, Zenon
        <3>3. Meaning(p, h \o Run(o)) = Continued(Meaning(p, h), Spoken(p, o))
            BY <2>9
        <3> QED BY <2>2, <2>3, <2>8, <2>10, <3>2, <3>3 DEF T
    <2>12. CASE m # 0
        <3>1. /\ WordedBlocks(s) /\ IsSequence(Run(s))
              /\ Meaning(p, h \o Run(s)) = Continued(Meaning(p, h), Spoken(p, s))
            BY <2>1, <2>12
        <3>2. WordedBlocks(u) /\ Spoken(p, u) = Merged(Spoken(p, s), Spoken(p, o))
            BY <2>8, <3>1, SpokenJoined
        <3>3. Run(u) = Run(s) \o Run(o)
            <4> DEFINE D == Range(s) \cup Range(o)
                       I == [b \in D |-> Item("assistant", b)]
            <4>1. \A t : Within(t, D) => Run(t) = Mapped(I, t)
                BY DEF Within, Run, Mapped
            <4>2. Within(s, D) /\ Within(o, D)
                BY <2>3, <2>4 DEF Within, Range
            <4>3. Within(u, D)
                <5> HIDE DEF D
                <5> QED BY <4>2, WithinJoined
            <4> HIDE DEF I, D
            <4>4. Mapped(I, u) = Mapped(I, s) \o Mapped(I, o)
                BY <2>3, <2>4, MappedJoined
            <4>5. Run(u) = Mapped(I, u)
                <5> HIDE DEF u
                <5> QED BY <4>1, <4>3
            <4>6. Run(s) = Mapped(I, s) /\ Run(o) = Mapped(I, o)
                BY <4>1, <4>2
            <4> QED BY <4>4, <4>5, <4>6, Zenon
        <3>4. IsSequence(Run(u))
            BY <2>10, <3>1, <3>3, SequenceJoined
        <3>5. h \o (Run(s) \o Run(o)) = (h \o Run(s)) \o Run(o)
            <4> DEFINE a == Run(s)
                       b == Run(o)
            <4>1. IsSequence(a) /\ IsSequence(b)
                BY <2>10, <3>1
            <4> HIDE DEF a, b
            <4>2. (h \o a) \o b = h \o (a \o b)
                BY <4>1, JoinAssociates
            <4> QED BY <4>2 DEF a, b
        <3>6. IsSequence(h \o Run(s))
            BY <3>1, SequenceJoined
        <3>7. Meaning(p, (h \o Run(s)) \o Run(o))
                  = Continued(Meaning(p, h \o Run(s)), Spoken(p, o))
            BY <2>9, <3>6
        <3>8. IsSpeech(Spoken(p, s)) /\ IsSpeech(Spoken(p, o))
            BY <2>8, <3>1, SpokenMade
        <3>9. Continued(Continued(Meaning(p, h), Spoken(p, s)), Spoken(p, o))
                  = Continued(Meaning(p, h), Merged(Spoken(p, s), Spoken(p, o)))
            BY <3>8, ContinuedTwice
        <3>10. Meaning(p, h \o Run(u)) = Continued(Meaning(p, h), Spoken(p, u))
            BY <3>1, <3>2, <3>3, <3>5, <3>7, <3>9, Zenon
        <3> HIDE DEF u
        <3> QED BY <2>2, <2>3, <3>2, <3>4, <3>10 DEF T
    <2> QED BY <2>11, <2>12
<1>4. Len(bs) \in T
    <2> HIDE DEF T
    <2> QED BY <1>1, <1>2, <1>3, PrefixInduction
<1>5. Upto(bs, Len(bs)) = bs
    BY <1>1, UptoRules
<1> QED BY <1>1, <1>4, <1>5

-----------------------------------------------------------------------------
(* A turn's text and its calls, as blocks. *)
\* No blocks say nothing.
LEMMA SpokenNone ==
    ASSUME NEW p
    PROVE  Spoken(p, <<>>) = Speech(p, <<>>, <<>>, <<>>) /\ WordedBlocks(<<>>)
<1> DEFINE e == <<>>
<1>0. IsSequence(e)
    BY SequenceOne
<1>1. \A i \in DOMAIN e : FALSE
    OBVIOUS
<1> HIDE DEF e
<1>2. Within(e, {}) /\ WordedBlocks(e)
    BY <1>0, <1>1 DEF Within, WordedBlocks
<1>3. Spoken(p, e) = Speech(p, Over(TextOf({}), e), Over(IdsOfKind("call", {}), e),
                                  Over(IdsOfKind("think", {}), e))
    BY <1>2, SpokenOver
<1>4. /\ Over(TextOf({}), e) = e /\ Over(IdsOfKind("call", {}), e) = e
      /\ Over(IdsOfKind("think", {}), e) = e
    BY OverNone DEF e
<1>5. Spoken(p, e) = Speech(p, e, e, e)
    BY <1>3, <1>4, Zenon
<1> QED BY <1>2, <1>5 DEF e

\* A text as blocks says the text.
LEMMA SpokenText ==
    ASSUME NEW p, NEW text, IsSequence(text)
    PROVE  /\ WordedBlocks(TextOrNone(text))
           /\ Spoken(p, TextOrNone(text)) = Speech(p, text, <<>>, <<>>)
<1>1. CASE text = <<>>
    <2>1. TextOrNone(text) = <<>>
        BY <1>1 DEF TextOrNone
    <2>2. Spoken(p, <<>>) = Speech(p, <<>>, <<>>, <<>>) /\ WordedBlocks(<<>>)
        BY SpokenNone
    <2>3. WordedBlocks(TextOrNone(text))
        BY <2>1, <2>2, Zenon
    <2>4. Spoken(p, TextOrNone(text)) = Speech(p, text, <<>>, <<>>)
        BY <1>1, <2>1, <2>2, Zenon
    <2> QED BY <2>3, <2>4
<1>2. CASE text # <<>>
    <2> DEFINE b == Text(text)
               o == <<b>>
               D == {b}
    <2>1. TextOrNone(text) = o
        BY <1>2 DEF TextOrNone
    <2>2. b.kind = "text" /\ b.content = text
        BY DEF Text, Block
    <2>3. IsSequence(o) /\ DOMAIN o = {1} /\ o[1] = b
        BY SequenceOne
    <2>4. b \in D
        OBVIOUS
    <2> HIDE DEF b, o, D
    <2>5. Within(o, D) /\ WordedBlocks(o)
        BY <2>2, <2>3, <2>4 DEF Within, WordedBlocks
    <2>6. Spoken(p, o) = Speech(p, Over(TextOf(D), o), Over(IdsOfKind("call", D), o),
                                   Over(IdsOfKind("think", D), o))
        BY <2>5, SpokenOver
    <2> DEFINE e == <<>>
    <2>7. /\ Over(TextOf(D), o) = TextOf(D)[b]
          /\ Over(IdsOfKind("call", D), o) = IdsOfKind("call", D)[b]
          /\ Over(IdsOfKind("think", D), o) = IdsOfKind("think", D)[b]
        BY OverOne DEF o
    <2>8. TextOf(D)[b] = text /\ IdsOfKind("call", D)[b] = e
          /\ IdsOfKind("think", D)[b] = e
        BY <2>2, <2>4 DEF TextOf, IdsOfKind
    <2> HIDE DEF e
    <2>9. Spoken(p, o) = Speech(p, text, e, e)
        BY <2>6, <2>7, <2>8, Zenon
    <2> QED BY <2>1, <2>5, <2>9 DEF e
<1> QED BY <1>1, <1>2, Zenon

\* The ids of the calls.
LEMMA CallsOver ==
    ASSUME NEW D, NEW s, Within(s, D)
    PROVE  MapSeq(Parts(s, "call"), LAMBDA b : b.id) = Over(IdsOfKind("call", D), s)
<1> DEFINE T == {x \in D : x.kind = "call"}
           K == Parts(s, "call")
           G == [x \in D |-> <<x.id>>]
           g == [x \in D |-> x.id]
           H == IdsOfKind("call", D)
<1>1. K = Over(Picks(T, D), s)
    BY PartsOver
<1>2. \A i \in DOMAIN s : s[i] \in D
    BY DEF Within
<1>3. Within(K, D)
    BY <1>1, PickedFound
<1>4. Over(G, K) = Over(H, s)
    <2>1. \A i \in DOMAIN s : H[s[i]] = IF s[i] \in T THEN G[s[i]] ELSE <<>>
        BY <1>2 DEF IdsOfKind
    <2>2. \A i \in DOMAIN s : s[i] \in T => IsSequence(G[s[i]])
        BY <1>2, SequenceOne
    <2> HIDE DEF T, K, G, H
    <2> QED BY <1>1, <2>1, <2>2, OverPicked
<1>5. \A x \in D : G[x] = <<g[x]>> /\ g[x] = x.id
    OBVIOUS
<1>6. MapSeq(K, LAMBDA b : b.id) = [i \in DOMAIN K |-> K[i].id]
    BY Zenon DEF MapSeq
<1> HIDE DEF K, G, g
<1>7. IsSequence(K) /\ \A i \in DOMAIN K : K[i] \in D
    BY <1>3 DEF Within
<1>8. Over(G, K) = Mapped(g, K)
    BY <1>5, <1>7, OverMapped
<1>9. [i \in DOMAIN K |-> K[i].id] = Mapped(g, K)
    BY <1>5, <1>7 DEF Mapped
<1> QED BY <1>4, <1>6, <1>8, <1>9 DEF K, H

\* The calls of parts or blocks, as blocks.
LEMMA SpokenCalls ==
    ASSUME NEW p, NEW D, NEW s, Within(s, D)
    PROVE  /\ WordedBlocks(Calls(s))
           /\ Spoken(p, Calls(s)) = Speech(p, <<>>, Over(IdsOfKind("call", D), s), <<>>)
<1> DEFINE T == {x \in D : x.kind = "call"}
           V == [x \in D |-> Block("call", x.id, <<>>)]
           n == [x \in D |-> <<>>]
           c == IdsOfKind("call", D)
           K == Over(Picks(T, D), s)
           bs == Mapped(V, K)
<1>1. \A x \in D : V[x].kind = "call" /\ V[x].id = x.id
    BY DEF Block
<1>2. \A x \in D : /\ V[x] = Block("call", x.id, <<>>) /\ n[x] = <<>>
                   /\ c[x] = IF x.kind = "call" THEN <<x.id>> ELSE <<>>
                   /\ x \in T <=> x.kind = "call"
    BY DEF IdsOfKind
<1>3. K = Parts(s, "call")
    BY PartsOver
<1>4. Within(K, D)
    BY PickedFound
<1>5. Calls(s) = bs
    <2>1. Calls(s) = [i \in DOMAIN K |-> Call(K[i])]
        BY <1>3, Zenon DEF Calls, MapSeq
    <2>2. \A i \in DOMAIN K : Call(K[i]) = V[K[i]]
        <3> HIDE DEF K, V
        <3> QED BY <1>2, <1>4 DEF Within, Call
    <2> HIDE DEF K, V
    <2> QED BY <2>1, <2>2 DEF Mapped
<1> HIDE DEF T, V, n, c
<1>6. /\ \A x \in D : x \in T /\ V[x].kind = "text" => IsSequence(V[x].content)
      /\ \A x \in D : n[x] = IF x \in T /\ V[x].kind = "text" THEN V[x].content ELSE <<>>
      /\ \A x \in D : c[x] = IF x \in T /\ V[x].kind = "call" THEN <<V[x].id>> ELSE <<>>
      /\ \A x \in D : n[x] = IF x \in T /\ V[x].kind = "think" THEN <<V[x].id>> ELSE <<>>
    BY <1>1, <1>2
<1>7. WordedBlocks(bs) /\ Spoken(p, bs) = Speech(p, Over(n, s), Over(c, s), Over(n, s))
    BY <1>6, SpokenPicked
<1>8. Over(n, s) = <<>>
    BY <1>2, OverNothing DEF Within
<1> QED BY <1>5, <1>7, <1>8, Zenon DEF c

\* Text and calls, the way three providers put them together.
LEMMA SpokenBase ==
    ASSUME NEW p, NEW text, IsSequence(text), NEW D, NEW s, Within(s, D)
    PROVE  /\ WordedBlocks(TextOrNone(text) \o Calls(s))
           /\ Spoken(p, TextOrNone(text) \o Calls(s))
                 = Speech(p, text, Over(IdsOfKind("call", D), s), <<>>)
<1> DEFINE a == TextOrNone(text)
           b == Calls(s)
           c == Over(IdsOfKind("call", D), s)
           e == <<>>
<1>1. WordedBlocks(a) /\ Spoken(p, a) = Speech(p, text, e, e)
    BY SpokenText
<1>2. WordedBlocks(b) /\ Spoken(p, b) = Speech(p, e, c, e)
    BY SpokenCalls
<1>3. IsSequence(c)
    <2>1. \A i \in DOMAIN s : IsSequence(IdsOfKind("call", D)[s[i]])
        BY SequenceOne DEF Within, IdsOfKind
    <2>2. Yields(IdsOfKind("call", D), s)
        BY <2>1 DEF Within, Yields
    <2> QED BY <2>2, OverMade
<1> HIDE DEF a, b, c, e
<1>4. WordedBlocks(a \o b) /\ Spoken(p, a \o b) = Merged(Spoken(p, a), Spoken(p, b))
    BY <1>1, <1>2, SpokenJoined
<1>6. text \o e = text /\ e \o c = c /\ e \o e = e
    BY <1>3, JoinRules, SequenceOne DEF e
<1>5. Merged(Speech(p, text, e, e), Speech(p, e, c, e)) = Speech(p, text, c, e)
    <2>1. Merged(Speech(p, text, e, e), Speech(p, e, c, e))
              = Speech(p, text \o e, e \o c, e \o e)
        BY SpeechMerged
    <2> QED BY <1>6, <2>1, Zenon
<1>7. Spoken(p, a \o b) = Speech(p, text, c, e)
    BY <1>1, <1>2, <1>4, <1>5, Zenon
<1>8. WordedBlocks(a \o b)
    BY <1>4
<1> QED BY <1>7, <1>8 DEF a, b, c, e

-----------------------------------------------------------------------------
(* What a response says, and that Observe adds it. *)
SaidIn(D)   == [b \in D |-> IF b.kind = "text" THEN Said(b.id) ELSE <<>>]
TextsOf(r)  == Over(SaidIn(Range(r)), r)
CallsOf(r)  == Over(IdsOfKind("call", Range(r)), r)
ThinkOf(r)  == Over(IdsOfKind("think", Range(r)), r)
SpeechOf(p, r) == Speech(p, TextsOf(r), CallsOf(r), ThinkOf(r))

\* A sequence is one over its range.
LEMMA WithinRange ==
    ASSUME NEW s, IsSequence(s)
    PROVE  Within(s, Range(s))
BY DEF Within, Range

\* The texts, the calls and the thinking of a response are sequences.
LEMMA ResponseYields ==
    ASSUME NEW r, IsSequence(r)
    PROVE  /\ Yields(SaidIn(Range(r)), r) /\ IsSequence(TextsOf(r))
           /\ \A k : Yields(IdsOfKind(k, Range(r)), r)
           /\ IsSequence(CallsOf(r)) /\ IsSequence(ThinkOf(r))
<1>1. IsSequence(r) /\ \A i \in DOMAIN r : r[i] \in Range(r)
    BY WithinRange DEF Within
<1>2. \A id : IsSequence(Said(id))
    BY SequenceOne DEF Said
<1>3. \A i \in DOMAIN r : IsSequence(SaidIn(Range(r))[r[i]])
    BY <1>1, <1>2, SequenceOne DEF SaidIn
<1>4. ASSUME NEW k PROVE \A i \in DOMAIN r : IsSequence(IdsOfKind(k, Range(r))[r[i]])
    BY <1>1, SequenceOne DEF IdsOfKind
<1>5. Yields(SaidIn(Range(r)), r)
    BY <1>3 DEF Yields
<1>6. ASSUME NEW k PROVE Yields(IdsOfKind(k, Range(r)), r)
    BY <1>4 DEF Yields
<1> QED BY <1>5, <1>6, OverMade DEF TextsOf, CallsOf, ThinkOf

\* The text is what convert and Next put together of the text blocks.
LEMMA TextsJoined ==
    ASSUME NEW r, IsSequence(r)
    PROVE  FlatMap(Parts(r, "text"), LAMBDA b : Said(b.id)) = TextsOf(r)
<1> DEFINE D == Range(r)
           T == {x \in D : x.kind = "text"}
           K == Parts(r, "text")
           G == [x \in D |-> Said(x.id)]
           H == SaidIn(D)
<1>1. Within(r, D) /\ \A i \in DOMAIN r : r[i] \in D
    BY WithinRange DEF Within
<1>2. \A x \in D : /\ G[x] = Said(x.id) /\ IsSequence(Said(x.id))
                   /\ H[x] = IF x \in T THEN G[x] ELSE <<>>
    BY SequenceOne DEF SaidIn, Said
<1> HIDE DEF D
<1>3. K = Over(Picks(T, D), r)
    BY <1>1, PartsOver
<1>4. Within(K, D)
    BY <1>1, <1>3, PickedFound
<1>5. FlatMap(K, LAMBDA b : Said(b.id)) = FlattenSeq([i \in DOMAIN K |-> Said(K[i].id)])
    BY Zenon DEF FlatMap, MapSeq
<1> HIDE DEF T, K, G, H
<1>6. [i \in DOMAIN K |-> Said(K[i].id)] = [i \in DOMAIN K |-> G[K[i]]]
    BY <1>2, <1>4 DEF Within
<1>7. Over(G, K) = Over(H, r)
    <2>1. \A i \in DOMAIN r : H[r[i]] = IF r[i] \in T THEN G[r[i]] ELSE <<>>
        BY <1>1, <1>2
    <2>2. \A i \in DOMAIN r : r[i] \in T => IsSequence(G[r[i]])
        BY <1>1, <1>2
    <2> QED BY <1>1, <1>3, <2>1, <2>2, OverPicked
<1>8. FlatMap(K, LAMBDA b : Said(b.id)) = Over(H, r)
    BY <1>5, <1>6, <1>7, Zenon DEF Over
<1> QED BY <1>8 DEF K, H, D, TextsOf

\* Nothing has no calls.
LEMMA CallsNone == CallsOf(<<>>) = <<>>
BY OverNone DEF CallsOf

\* The blocks of a response, one for each, say what it says.
LEMMA ResponseMapped ==
    ASSUME NEW p, NEW r, IsSequence(r), NEW V,
           \A x \in Range(r) :
               /\ x.kind = "text" => V[x].kind = "text" /\ V[x].content = Said(x.id)
               /\ x.kind \in {"call", "think"} => V[x].kind = x.kind /\ V[x].id = x.id
               /\ x.kind \notin {"text", "call", "think"} =>
                      V[x].kind \notin {"text", "call", "think"}
    PROVE  Spoken(p, Mapped(V, r)) = SpeechOf(p, r)
<1> DEFINE D == Range(r)
           t == SaidIn(D)
           c == IdsOfKind("call", D)
           h == IdsOfKind("think", D)
<1>1. Within(r, D)
    BY WithinRange
<1>2. /\ \A x \in D : t[x] = IF V[x].kind = "text" THEN V[x].content ELSE <<>>
      /\ \A x \in D : c[x] = IF V[x].kind = "call" THEN <<V[x].id>> ELSE <<>>
      /\ \A x \in D : h[x] = IF V[x].kind = "think" THEN <<V[x].id>> ELSE <<>>
    BY DEF SaidIn, IdsOfKind
<1> HIDE DEF D, t, c, h
<1>3. Spoken(p, Mapped(V, r)) = Speech(p, Over(t, r), Over(c, r), Over(h, r))
    BY <1>1, <1>2, SpokenMapped
<1> QED BY <1>3, Zenon DEF SpeechOf, TextsOf, CallsOf, ThinkOf, t, c, h, D

\* Anthropic.
LEMMA AnthropicSpoken ==
    ASSUME NEW r, IsSequence(r), NEW h, IsSequence(h)
    PROVE  Meaning("anthropic", h \o AnthropicResponse(r))
               = Continued(Meaning("anthropic", h), SpeechOf("anthropic", r))
<1> DEFINE V == [b \in Range(r) |->
                    CASE b.kind = "text" -> Text(Said(b.id))
                      [] b.kind \in {"call", "think"} -> Block(b.kind, b.id, <<>>)
                      [] OTHER -> Block("empty", NoId, <<>>)]
           bs == Mapped(V, r)
<1>1. \A i \in DOMAIN r : r[i] \in Range(r)
    BY DEF Range
<1>2. AnthropicResponse(r) = <<[role |-> "assistant", blocks |-> bs]>>
    BY <1>1 DEF AnthropicResponse, MapSeq, Mapped
<1>3. \A x \in Range(r) :
          /\ x.kind = "text" => V[x].kind = "text" /\ V[x].content = Said(x.id)
          /\ x.kind \in {"call", "think"} => V[x].kind = x.kind /\ V[x].id = x.id
          /\ x.kind \notin {"text", "call", "think"} =>
                 V[x].kind \notin {"text", "call", "think"}
    BY DEF Text, Block
<1> HIDE DEF V
<1>4. Spoken("anthropic", bs) = SpeechOf("anthropic", r)
    BY <1>3, ResponseMapped
<1> HIDE DEF bs
<1>5. Meaning("anthropic", h \o <<[role |-> "assistant", blocks |-> bs]>>)
          = Continued(Meaning("anthropic", h), Spoken("anthropic", bs))
    BY SpeechAdded
<1> QED BY <1>2, <1>4, <1>5, Zenon

\* Google leaves no empty message.
LEMMA NotEmptyOne ==
    ASSUME NEW m, m.blocks # <<>>
    PROVE  NotEmpty(<<m>>) = <<m>>
<1>1. [i \in DOMAIN <<m>> |-> IF <<m>>[i].blocks # <<>> THEN <<(<<m>>[i])>> ELSE <<>>] = <<(<<m>>)>>
    OBVIOUS
<1>2. NotEmpty(<<m>>)
          = FlattenSeq([i \in DOMAIN <<m>> |-> IF <<m>>[i].blocks # <<>> THEN <<(<<m>>[i])>> ELSE <<>>])
    BY Zenon DEF NotEmpty, Select, FlatMap, MapSeq
<1> QED BY <1>1, <1>2, FlattenOne, Zenon

\* Google: the response that Observe appends says what the response says.
LEMMA GoogleSpoken ==
    ASSUME NEW r, IsSequence(r), CallsOf(r) # <<>>, NEW h, IsSequence(h)
    PROVE  Meaning("google", h \o GoogleResponse(r))
               = Continued(Meaning("google", h), SpeechOf("google", r))
<1> DEFINE V == [b \in Range(r) |-> IF b.kind = "text" THEN Text(Said(b.id))
                                    ELSE Block(b.kind, b.id, <<>>)]
           bs == Mapped(V, r)
           m == [role |-> "assistant", blocks |-> bs]
<1>1. \A i \in DOMAIN r : r[i] \in Range(r)
    BY DEF Range
<1>2. GoogleResponse(r) = NotEmpty(<<m>>)
    <2>1. MapSeq(r, LAMBDA b :
                    IF b.kind = "text" THEN Text(Said(b.id)) ELSE Block(b.kind, b.id, <<>>))
              = [i \in DOMAIN r |-> IF r[i].kind = "text" THEN Text(Said(r[i].id))
                                    ELSE Block(r[i].kind, r[i].id, <<>>)]
        BY Zenon DEF MapSeq
    <2>2. [i \in DOMAIN r |-> IF r[i].kind = "text" THEN Text(Said(r[i].id))
                              ELSE Block(r[i].kind, r[i].id, <<>>)] = bs
        BY <1>1 DEF Mapped
    <2> HIDE DEF bs
    <2> QED BY <2>1, <2>2, Zenon DEF GoogleResponse
<1>3. \A x \in Range(r) :
          /\ x.kind = "text" => V[x].kind = "text" /\ V[x].content = Said(x.id)
          /\ x.kind \in {"call", "think"} => V[x].kind = x.kind /\ V[x].id = x.id
          /\ x.kind \notin {"text", "call", "think"} =>
                 V[x].kind \notin {"text", "call", "think"}
    BY DEF Text, Block
<1> HIDE DEF V
<1>4. Spoken("google", bs) = SpeechOf("google", r)
    BY <1>3, ResponseMapped
<1>5. bs # <<>>
    <2>1. DOMAIN bs = DOMAIN r
        BY MappedMade
    <2>2. r # <<>>
        BY CallsNone
    <2>3. DOMAIN r # {}
        <3>1. r = [i \in DOMAIN r |-> r[i]]
            BY SequenceRules
        <3> QED BY <2>2, <3>1
    <2> HIDE DEF bs
    <2>4. DOMAIN bs # {}
        BY <2>1, <2>3
    <2> QED BY <2>4
<1> HIDE DEF bs
<1>6. NotEmpty(<<m>>) = <<m>>
    <2>1. m.blocks # <<>>
        BY <1>5
    <2> HIDE DEF m
    <2> QED BY <2>1, NotEmptyOne
<1>7. Meaning("google", h \o <<m>>) = Continued(Meaning("google", h), Spoken("google", bs))
    BY SpeechAdded
<1> QED BY <1>2, <1>4, <1>6, <1>7, Zenon

-----------------------------------------------------------------------------
\* OpenAI leaves the outputs of its own tools out.
LEMMA OpenAISpoken ==
    ASSUME NEW r, IsSequence(r), CallsOf(r) # <<>>,
           NEW h, IsSequence(h), Worded(Meaning("openai", h))
    PROVE  Meaning("openai", h \o OpenAIResponse(r))
               = Continued(Meaning("openai", h), SpeechOf("openai", r))
<1> DEFINE D == Range(r)
           T == {x \in D : x.kind # "server"}
           V == [b \in D |-> IF b.kind = "text" THEN Text(Said(b.id)) ELSE Block(b.kind, b.id, <<>>)]
           K == Over(Picks(T, D), r)
           bs == Mapped(V, K)
           t == SaidIn(D)
           c == IdsOfKind("call", D)
           d == IdsOfKind("think", D)
<1>1. Within(r, D) /\ \A i \in DOMAIN r : r[i] \in D
    BY WithinRange DEF Within
<1>2. \A x \in D : /\ x \in T <=> x.kind # "server"
                   /\ x.kind = "text" => V[x].kind = "text" /\ V[x].content = Said(x.id)
                   /\ x.kind # "text" => V[x].kind = x.kind /\ V[x].id = x.id
                   /\ IsSequence(Said(x.id))
    BY SequenceOne DEF Text, Block, Said
<1>3. /\ \A x \in D : t[x] = IF x.kind = "text" THEN Said(x.id) ELSE <<>>
      /\ \A x \in D : c[x] = IF x.kind = "call" THEN <<x.id>> ELSE <<>>
      /\ \A x \in D : d[x] = IF x.kind = "think" THEN <<x.id>> ELSE <<>>
    BY DEF SaidIn, IdsOfKind
<1>4. Select(r, LAMBDA b : b.kind # "server") = K
    <2>1. Select(r, LAMBDA b : b.kind # "server")
              = FlattenSeq([i \in DOMAIN r |-> IF r[i].kind # "server" THEN <<r[i]>> ELSE <<>>])
        BY Zenon DEF Select, FlatMap, MapSeq
    <2>2. [i \in DOMAIN r |-> IF r[i].kind # "server" THEN <<r[i]>> ELSE <<>>]
              = [i \in DOMAIN r |-> Picks(T, D)[r[i]]]
        BY <1>1, <1>2 DEF Picks
    <2> QED BY <2>1, <2>2, Zenon DEF Over
<1>5. Within(K, D) /\ \A i \in DOMAIN K : K[i] \in D
    BY <1>1, PickedFound DEF Within
<1>6. OpenAIResponse(r) = Run(bs)
    <2>1. OpenAIResponse(r)
              = [i \in DOMAIN K |-> Item("assistant", IF K[i].kind = "text" THEN Text(Said(K[i].id))
                                                      ELSE Block(K[i].kind, K[i].id, <<>>))]
        BY <1>4, Zenon DEF OpenAIResponse, MapSeq
    <2>2. \A i \in DOMAIN K : bs[i] = (IF K[i].kind = "text" THEN Text(Said(K[i].id))
                                       ELSE Block(K[i].kind, K[i].id, <<>>))
        BY <1>5 DEF Mapped
    <2>3. DOMAIN bs = DOMAIN K
        BY DEF Mapped
    <2> HIDE DEF bs, K
    <2> QED BY <2>1, <2>2, <2>3 DEF Run
<1> HIDE DEF D, T, V, t, c, d, K
<1>7. /\ \A x \in D : x \in T /\ V[x].kind = "text" => IsSequence(V[x].content)
      /\ \A x \in D : t[x] = IF x \in T /\ V[x].kind = "text" THEN V[x].content ELSE <<>>
      /\ \A x \in D : c[x] = IF x \in T /\ V[x].kind = "call" THEN <<V[x].id>> ELSE <<>>
      /\ \A x \in D : d[x] = IF x \in T /\ V[x].kind = "think" THEN <<V[x].id>> ELSE <<>>
    <2> SUFFICES ASSUME NEW x \in D
                 PROVE  /\ x \in T /\ V[x].kind = "text" => IsSequence(V[x].content)
                        /\ t[x] = IF x \in T /\ V[x].kind = "text" THEN V[x].content ELSE <<>>
                        /\ c[x] = IF x \in T /\ V[x].kind = "call" THEN <<V[x].id>> ELSE <<>>
                        /\ d[x] = IF x \in T /\ V[x].kind = "think" THEN <<V[x].id>> ELSE <<>>
        OBVIOUS
    <2>1. V[x].kind = x.kind /\ (x \in T <=> x.kind # "server")
        BY <1>2
    <2>2. x.kind = "text" => V[x].content = Said(x.id) /\ IsSequence(Said(x.id))
        BY <1>2
    <2>3. x.kind # "text" => V[x].id = x.id
        BY <1>2
    <2>4. /\ t[x] = IF x.kind = "text" THEN Said(x.id) ELSE <<>>
          /\ c[x] = IF x.kind = "call" THEN <<x.id>> ELSE <<>>
          /\ d[x] = IF x.kind = "think" THEN <<x.id>> ELSE <<>>
        BY <1>3
    <2> DEFINE v == V[x]
    <2> HIDE DEF v
    <2>5. /\ v.kind = x.kind /\ (x.kind = "text" => v.content = Said(x.id))
          /\ (x.kind # "text" => v.id = x.id)
        BY <2>1, <2>2, <2>3 DEF v
    <2>6. /\ x \in T /\ v.kind = "text" => IsSequence(v.content)
          /\ t[x] = IF x \in T /\ v.kind = "text" THEN v.content ELSE <<>>
          /\ c[x] = IF x \in T /\ v.kind = "call" THEN <<v.id>> ELSE <<>>
          /\ d[x] = IF x \in T /\ v.kind = "think" THEN <<v.id>> ELSE <<>>
        BY <2>1, <2>2, <2>4, <2>5
    <2> QED BY <2>6 DEF v
<1>8. WordedBlocks(bs) /\ Spoken("openai", bs) = Speech("openai", Over(t, r), Over(c, r), Over(d, r))
    BY <1>1, <1>7, SpokenPicked DEF K
<1>9. Speech("openai", Over(t, r), Over(c, r), Over(d, r)) = SpeechOf("openai", r)
    BY Zenon DEF SpeechOf, TextsOf, CallsOf, ThinkOf, t, c, d, D
<1>10. bs # <<>>
    <2>1. ASSUME bs = <<>> PROVE FALSE
        <3>1. Spoken("openai", <<>>) = Speech("openai", <<>>, <<>>, <<>>)
            BY SpokenNone
        <3>2. SpeechOf("openai", r) = Speech("openai", <<>>, <<>>, <<>>)
            BY <1>8, <1>9, <2>1, <3>1, Zenon
        <3>3. SpeechOf("openai", r).calls = CallsOf(r)
              /\ Speech("openai", <<>>, <<>>, <<>>).calls = <<>>
            BY DEF SpeechOf, Speech
        <3> QED BY <3>2, <3>3
    <2> QED BY <2>1
<1> HIDE DEF bs
<1>11. Meaning("openai", h \o Run(bs)) = Continued(Meaning("openai", h), Spoken("openai", bs))
    BY <1>8, <1>10, RunSpoken
<1> QED BY <1>6, <1>8, <1>9, <1>11, Zenon

\* OpenRouter keeps the reasoning, which replay does not: it is left out.
LEMMA OpenRouterSpoken ==
    ASSUME NEW r, IsSequence(r), NEW h, IsSequence(h)
    PROVE  Meaning("openrouter", h \o OpenRouterResponse(r))
               = Continued(Meaning("openrouter", h), SpeechOf("openrouter", r))
<1> DEFINE p == "openrouter"
           D == Range(r)
           T == {x \in D : x.kind = "think"}
           V == [b \in D |-> Block("think", b.id, <<>>)]
           K == Parts(r, "think")
           n == [b \in D |-> <<>>]
           d == IdsOfKind("think", D)
           a == TextOrNone(TextsOf(r)) \o Calls(r)
           b == Mapped(V, K)
           e == <<>>
<1>1. Within(r, D) /\ \A i \in DOMAIN r : r[i] \in D
    BY WithinRange DEF Within
<1>2. K = Over(Picks(T, D), r) /\ Within(K, D)
    <2>1. K = Over(Picks(T, D), r)
        BY <1>1, PartsOver
    <2>2. Within(Over(Picks(T, D), r), D)
        BY <1>1, PickedFound
    <2> QED BY <2>1, <2>2, Zenon
<1>3. MapSeq(K, LAMBDA x : Block("think", x.id, <<>>)) = b
    <2>1. MapSeq(K, LAMBDA x : Block("think", x.id, <<>>))
              = [i \in DOMAIN K |-> Block("think", K[i].id, <<>>)]
        BY Zenon DEF MapSeq
    <2>2. \A i \in DOMAIN K : V[K[i]] = Block("think", K[i].id, <<>>)
        <3>1. \A i \in DOMAIN K : K[i] \in D
            BY <1>2 DEF Within
        <3> HIDE DEF K, D
        <3> QED BY <3>1
    <2> HIDE DEF K, V
    <2> QED BY <2>1, <2>2 DEF Mapped
<1>4. OpenRouterResponse(r) = <<[role |-> "assistant", blocks |-> a \o b]>>
    <2>1. FlatMap(Parts(r, "text"), LAMBDA x : Said(x.id)) = TextsOf(r)
        BY TextsJoined
    <2> HIDE DEF b
    <2> QED BY <1>3, <2>1, Zenon DEF OpenRouterResponse
<1>5. IsSequence(TextsOf(r)) /\ IsSequence(CallsOf(r)) /\ IsSequence(ThinkOf(r))
    BY ResponseYields
<1>6. WordedBlocks(a) /\ Spoken(p, a) = Speech(p, TextsOf(r), CallsOf(r), <<>>)
    BY <1>1, <1>5, SpokenBase DEF CallsOf
<1>7. \A x \in D : /\ x \in T <=> x.kind = "think"
                   /\ V[x].kind = "think" /\ V[x].id = x.id /\ n[x] = <<>>
                   /\ d[x] = IF x.kind = "think" THEN <<x.id>> ELSE <<>>
    BY DEF Block, IdsOfKind
<1> HIDE DEF D, T, V, n, d, K, a, e
<1>8. /\ \A x \in D : x \in T /\ V[x].kind = "text" => IsSequence(V[x].content)
      /\ \A x \in D : n[x] = IF x \in T /\ V[x].kind = "text" THEN V[x].content ELSE <<>>
      /\ \A x \in D : n[x] = IF x \in T /\ V[x].kind = "call" THEN <<V[x].id>> ELSE <<>>
      /\ \A x \in D : d[x] = IF x \in T /\ V[x].kind = "think" THEN <<V[x].id>> ELSE <<>>
    BY <1>7
<1>9. WordedBlocks(b) /\ Spoken(p, b) = Speech(p, Over(n, r), Over(n, r), Over(d, r))
    BY <1>1, <1>2, <1>8, SpokenPicked
<1>10. Over(n, r) = e
    <2>1. \A i \in DOMAIN r : n[r[i]] = <<>>
        BY <1>1, <1>7
    <2> QED BY <2>1, OverNothing DEF e
<1> HIDE DEF b
<1>11. \A x, y, z : Speech(p, x, y, z) = Speech(p, x, y, e)
    BY DEF Speech, ReplaysThinking, e
<1>12. Spoken(p, b) = Speech(p, e, e, e)
    <2>1. Spoken(p, b) = Speech(p, e, e, Over(d, r))
        BY <1>9, <1>10, Zenon
    <2> QED BY <1>11, <2>1
<1>13. Spoken(p, a \o b) = Merged(Spoken(p, a), Spoken(p, b))
    BY <1>6, <1>9, SpokenJoined
<1>14. Merged(Speech(p, TextsOf(r), CallsOf(r), e), Speech(p, e, e, e))
           = Speech(p, TextsOf(r), CallsOf(r), e)
    <2>1. Merged(Speech(p, TextsOf(r), CallsOf(r), e), Speech(p, e, e, e))
              = Speech(p, TextsOf(r) \o e, CallsOf(r) \o e, e \o e)
        BY SpeechMerged
    <2>2. TextsOf(r) \o e = TextsOf(r) /\ CallsOf(r) \o e = CallsOf(r) /\ e \o e = e
        BY <1>5, JoinRules, SequenceOne DEF e
    <2> QED BY <2>1, <2>2, Zenon
<1>15. Spoken(p, a \o b) = SpeechOf(p, r)
    <2>1. SpeechOf(p, r) = Speech(p, TextsOf(r), CallsOf(r), e)
        BY <1>11 DEF SpeechOf
    <2>2. Spoken(p, a) = Speech(p, TextsOf(r), CallsOf(r), e)
        BY <1>6 DEF e
    <2> QED BY <1>12, <1>13, <1>14, <2>1, <2>2, Zenon
<1>16. Meaning(p, h \o <<[role |-> "assistant", blocks |-> a \o b]>>)
           = Continued(Meaning(p, h), Spoken(p, a \o b))
    BY SpeechAdded
<1> QED BY <1>4, <1>15, <1>16, Zenon

-----------------------------------------------------------------------------
(* What the neutral message of a response says. *)
TextIn(D)  == [x \in D |-> IF x.kind = "text" THEN x.text ELSE <<>>]
Thought(D) == [x \in D |-> IF x.kind = "think" /\ ~x.redacted THEN <<x.id>> ELSE <<>>]

\* The two parts of a sequence over a set are over it.
LEMMA WithinParts ==
    ASSUME NEW D, NEW s, IsSequence(s), NEW t, IsSequence(t), Within(s \o t, D)
    PROVE  Within(s, D) /\ Within(t, D)
<1> DEFINE u == s \o t
           n == Len(s)
<1>1. /\ n \in Nat /\ DOMAIN s = 1..n /\ Len(t) \in Nat /\ DOMAIN t = 1..Len(t)
      /\ DOMAIN u = 1..(n + Len(t))
      /\ \A i \in DOMAIN s : u[i] = s[i]
      /\ \A i \in (DOMAIN u) \ DOMAIN s : u[i] = t[i - n]
    BY SequenceJoined, SequenceRules, ZenonT(40)
<1>2. \A i \in DOMAIN u : u[i] \in D
    BY DEF Within
<1> HIDE DEF u, n
<1>3. \A i \in DOMAIN s : i \in DOMAIN u
    BY <1>1
<1>4. ASSUME NEW j \in DOMAIN t PROVE t[j] \in D
    <2> DEFINE i == j + n
    <2>1. i \in DOMAIN u /\ i \notin DOMAIN s /\ i - n = j
        BY <1>1
    <2> HIDE DEF i
    <2> QED BY <1>1, <1>2, <2>1
<1> QED BY <1>1, <1>2, <1>3, <1>4 DEF Within

\* Over what a mapping makes.
LEMMA OverOfMapped ==
    ASSUME NEW s, IsSequence(s), NEW g, NEW F, NEW H,
           \A i \in DOMAIN s : F[g[s[i]]] = H[s[i]]
    PROVE  Over(F, Mapped(g, s)) = Over(H, s)
<1> DEFINE t == Mapped(g, s)
<1>1. DOMAIN t = DOMAIN s /\ \A i \in DOMAIN s : t[i] = g[s[i]]
    BY DEF Mapped
<1> HIDE DEF t
<1>2. [i \in DOMAIN t |-> F[t[i]]] = [i \in DOMAIN s |-> H[s[i]]]
    BY <1>1
<1>3. Over(F, t) = Over(H, s)
    BY <1>2, Zenon DEF Over
<1> QED BY <1>3 DEF t

\* The thinking of a response, as parts.
Thoughts(p, r) == MapSeq(Select(r, LAMBDA b : Thinks(p, b)),
                         LAMBDA b : ThinkingPart(b.id, b.kind = "redacted"))

\* The thinking of a response as parts of its neutral message, which Anthropic and the
\* others keep in different kinds of part, is the thinking of the response.
LEMMA ThoughtParts ==
    ASSUME NEW p, NEW r, IsSequence(r), NEW U, U = Thoughts(p, r)
    PROVE  /\ IsSequence(U)
           /\ \A i \in DOMAIN U : U[i].kind = "think"
           /\ \A D : Within(U, D) =>
                  /\ Over(Thought(D), U) = ThinkOf(r)
                  /\ p # "anthropic" => Over(IdsOfKind("think", D), U) = ThinkOf(r)
<1> DEFINE E == Range(r)
           T == {x \in E : Thinks(p, x)}
           K == Over(Picks(T, E), r)
           g == [x \in E |-> ThinkingPart(x.id, x.kind = "redacted")]
           d == IdsOfKind("think", E)
<1>1. Within(r, E) /\ \A i \in DOMAIN r : r[i] \in E
    BY WithinRange DEF Within
<1>2. Select(r, LAMBDA b : Thinks(p, b)) = K
    <2>1. Select(r, LAMBDA b : Thinks(p, b))
              = FlattenSeq([i \in DOMAIN r |-> IF Thinks(p, r[i]) THEN <<r[i]>> ELSE <<>>])
        BY Zenon DEF Select, FlatMap, MapSeq
    <2>2. [i \in DOMAIN r |-> IF Thinks(p, r[i]) THEN <<r[i]>> ELSE <<>>]
              = [i \in DOMAIN r |-> Picks(T, E)[r[i]]]
        BY <1>1 DEF Picks
    <2> QED BY <2>1, <2>2, Zenon DEF Over
<1>3. Within(K, E) /\ \A k \in DOMAIN K : K[k] \in T
    BY <1>1, PickedFound
<1>4. IsSequence(K) /\ \A k \in DOMAIN K : K[k] \in E /\ Thinks(p, K[k])
    BY <1>3 DEF Within
<1>5. \A x \in E : /\ g[x].kind = "think" /\ g[x].id = x.id
                   /\ x.kind = "redacted" => g[x].redacted = TRUE
                   /\ x.kind # "redacted" => g[x].redacted = FALSE
                   /\ g[x] = ThinkingPart(x.id, x.kind = "redacted")
    BY DEF ThinkingPart
<1>6. \A x \in E : d[x] = IF x.kind = "think" THEN <<x.id>> ELSE <<>>
    BY DEF IdsOfKind
<1>7. U = [k \in DOMAIN K |-> ThinkingPart(K[k].id, K[k].kind = "redacted")]
    BY <1>2, Zenon DEF Thoughts, MapSeq
<1> HIDE DEF K, g, d
<1>8. U = Mapped(g, K)
    <2>1. \A k \in DOMAIN K : ThinkingPart(K[k].id, K[k].kind = "redacted") = g[K[k]]
        BY <1>4, <1>5, Zenon
    <2> QED BY <1>7, <2>1, Zenon DEF Mapped
<1>9. IsSequence(U) /\ DOMAIN U = DOMAIN K /\ \A k \in DOMAIN K : U[k] = g[K[k]]
    <2> DEFINE M == Mapped(g, K)
    <2>1. IsSequence(M) /\ DOMAIN M = DOMAIN K /\ \A k \in DOMAIN K : M[k] = g[K[k]]
        BY <1>4, MappedMade
    <2>2. U = M
        BY <1>8
    <2> HIDE DEF M
    <2> QED BY <2>1, <2>2
<1>10. \A i \in DOMAIN U : U[i].kind = "think"
    <2> SUFFICES ASSUME NEW i \in DOMAIN U PROVE U[i].kind = "think"
        OBVIOUS
    <2>1. i \in DOMAIN K /\ U[i] = g[K[i]] /\ K[i] \in E
        BY <1>4, <1>9
    <2> QED BY <1>5, <2>1
<1>11. Over(d, K) = ThinkOf(r)
    <2>1. \A i \in DOMAIN r : d[r[i]] = IF r[i] \in T THEN d[r[i]] ELSE <<>>
        BY <1>1, <1>6 DEF Thinks
    <2>2. \A i \in DOMAIN r : r[i] \in T => IsSequence(d[r[i]])
        BY <1>1, <1>6, SequenceOne
    <2> HIDE DEF T
    <2>3. Over(d, K) = Over(d, r)
        BY <1>1, <2>1, <2>2, OverPicked DEF K
    <2> QED BY <2>3, Zenon DEF ThinkOf, d, E
<1>12. ASSUME NEW D, Within(U, D) PROVE Over(Thought(D), U) = ThinkOf(r)
    <2>1. \A k \in DOMAIN K : Thought(D)[g[K[k]]] = d[K[k]]
        <3> SUFFICES ASSUME NEW k \in DOMAIN K PROVE Thought(D)[g[K[k]]] = d[K[k]]
            OBVIOUS
        <3> DEFINE x == K[k]
                   y == g[x]
        <3>1. x \in E /\ (x.kind = "think" \/ x.kind = "redacted") /\ y \in D
            BY <1>4, <1>9, <1>12 DEF Thinks, Within
        <3>2. /\ y.kind = "think" /\ y.id = x.id
              /\ x.kind = "redacted" => y.redacted = TRUE
              /\ x.kind # "redacted" => y.redacted = FALSE
            BY <1>4, <1>5
        <3> HIDE DEF x, y
        <3>3. Thought(D)[y] = IF y.kind = "think" /\ ~y.redacted THEN <<y.id>> ELSE <<>>
            BY <3>1 DEF Thought
        <3>4. d[x] = IF x.kind = "think" THEN <<x.id>> ELSE <<>>
            BY <1>6, <3>1
        <3>5. ASSUME x.kind = "redacted" PROVE Thought(D)[y] = d[x]
            <4>1. y.redacted /\ x.kind # "think"
                BY <3>2, <3>5
            <4>2. Thought(D)[y] = <<>>
                BY <3>3, <4>1, Zenon
            <4> QED BY <3>4, <4>1, <4>2
        <3>6. ASSUME x.kind = "think" PROVE Thought(D)[y] = d[x]
            <4>1. ~y.redacted
                BY <3>2, <3>6
            <4>2. Thought(D)[y] = <<y.id>>
                BY <3>2, <3>3, <4>1, Zenon
            <4> QED BY <3>2, <3>4, <3>6, <4>2
        <3>7. Thought(D)[y] = d[x]
            BY <3>1, <3>5, <3>6
        <3> QED BY <3>7 DEF x, y
    <2>2. Over(Thought(D), Mapped(g, K)) = Over(d, K)
        BY <1>4, <2>1, OverOfMapped
    <2> QED BY <1>8, <1>11, <2>2, Zenon
<1>13. ASSUME NEW D, Within(U, D), p # "anthropic"
       PROVE  Over(IdsOfKind("think", D), U) = ThinkOf(r)
    <2>1. \A k \in DOMAIN K : IdsOfKind("think", D)[g[K[k]]] = d[K[k]]
        <3> SUFFICES ASSUME NEW k \in DOMAIN K PROVE IdsOfKind("think", D)[g[K[k]]] = d[K[k]]
            OBVIOUS
        <3> DEFINE x == K[k]
                   y == g[x]
        <3>1. x \in E /\ x.kind = "think" /\ y \in D
            BY <1>4, <1>9, <1>13 DEF Thinks, Within
        <3>2. y.kind = "think" /\ y.id = x.id
            BY <1>4, <1>5
        <3> HIDE DEF x, y
        <3>3. IdsOfKind("think", D)[y] = <<x.id>>
            BY <3>1, <3>2 DEF IdsOfKind
        <3>4. d[x] = <<x.id>>
            BY <1>6, <3>1
        <3>5. IdsOfKind("think", D)[y] = d[x]
            BY <3>3, <3>4
        <3> QED BY <3>5 DEF x, y
    <2>2. Over(IdsOfKind("think", D), Mapped(g, K)) = Over(d, K)
        BY <1>4, <2>1, OverOfMapped
    <2> QED BY <1>8, <1>11, <2>2, Zenon
<1> QED BY <1>9, <1>10, <1>12, <1>13

\* Its calls.
LEMMA CalledParts ==
    ASSUME NEW r, IsSequence(r),
           NEW C, C = MapSeq(Parts(r, "call"), LAMBDA b : CallPart(b.id))
    PROVE  /\ IsSequence(C)
           /\ \A i \in DOMAIN C : C[i].kind = "call"
           /\ \A D : Within(C, D) => Over(IdsOfKind("call", D), C) = CallsOf(r)
<1> DEFINE E == Range(r)
           T == {x \in E : x.kind = "call"}
           K == Parts(r, "call")
           g == [x \in E |-> CallPart(x.id)]
           d == IdsOfKind("call", E)
<1>1. Within(r, E) /\ \A i \in DOMAIN r : r[i] \in E
    BY WithinRange DEF Within
<1>2. K = Over(Picks(T, E), r)
    BY <1>1, PartsOver
<1>3. Within(K, E) /\ \A k \in DOMAIN K : K[k] \in T
    <2>1. Within(Over(Picks(T, E), r), E)
          /\ \A k \in DOMAIN Over(Picks(T, E), r) : Over(Picks(T, E), r)[k] \in T
        BY <1>1, PickedFound
    <2> QED BY <1>2, <2>1, Zenon
<1>4. IsSequence(K) /\ \A k \in DOMAIN K : K[k] \in E /\ K[k].kind = "call"
    BY <1>3 DEF Within
<1>5. \A x \in E : g[x].kind = "call" /\ g[x].id = x.id /\ g[x] = CallPart(x.id)
    BY DEF CallPart
<1>6. \A x \in E : d[x] = IF x.kind = "call" THEN <<x.id>> ELSE <<>>
    BY DEF IdsOfKind
<1>7. C = [k \in DOMAIN K |-> CallPart(K[k].id)]
    BY Zenon DEF MapSeq
<1> HIDE DEF K, g, d
<1>8. C = Mapped(g, K)
    BY <1>4, <1>5, <1>7 DEF Mapped
<1>9. IsSequence(C) /\ DOMAIN C = DOMAIN K /\ \A k \in DOMAIN K : C[k] = g[K[k]]
    <2> DEFINE M == Mapped(g, K)
    <2>1. IsSequence(M) /\ DOMAIN M = DOMAIN K /\ \A k \in DOMAIN K : M[k] = g[K[k]]
        BY <1>4, MappedMade
    <2>2. C = M
        BY <1>8
    <2> HIDE DEF M
    <2> QED BY <2>1, <2>2
<1>10. \A i \in DOMAIN C : C[i].kind = "call"
    <2> SUFFICES ASSUME NEW i \in DOMAIN C PROVE C[i].kind = "call"
        OBVIOUS
    <2>1. i \in DOMAIN K /\ C[i] = g[K[i]] /\ K[i] \in E
        BY <1>4, <1>9
    <2> QED BY <1>5, <2>1
<1>11. Over(d, K) = CallsOf(r)
    <2>1. \A i \in DOMAIN r : d[r[i]] = IF r[i] \in T THEN d[r[i]] ELSE <<>>
        BY <1>1, <1>6
    <2>2. \A i \in DOMAIN r : r[i] \in T => IsSequence(d[r[i]])
        BY <1>1, <1>6, SequenceOne
    <2> HIDE DEF T
    <2>3. Over(d, K) = Over(d, r)
        BY <1>1, <1>2, <2>1, <2>2, OverPicked
    <2> QED BY <2>3, Zenon DEF CallsOf, d, E
<1>12. ASSUME NEW D, Within(C, D) PROVE Over(IdsOfKind("call", D), C) = CallsOf(r)
    <2>1. \A k \in DOMAIN K : IdsOfKind("call", D)[g[K[k]]] = d[K[k]]
        <3> SUFFICES ASSUME NEW k \in DOMAIN K PROVE IdsOfKind("call", D)[g[K[k]]] = d[K[k]]
            OBVIOUS
        <3> DEFINE x == K[k]
                   y == g[x]
        <3>1. x \in E /\ x.kind = "call" /\ y \in D
            BY <1>4, <1>9, <1>12 DEF Within
        <3>2. y.kind = "call" /\ y.id = x.id
            BY <1>4, <1>5
        <3> HIDE DEF x, y
        <3>3. IdsOfKind("call", D)[y] = <<x.id>>
            BY <3>1, <3>2 DEF IdsOfKind
        <3>4. d[x] = <<x.id>>
            BY <1>6, <3>1
        <3>5. IdsOfKind("call", D)[y] = d[x]
            BY <3>3, <3>4
        <3> QED BY <3>5 DEF x, y
    <2>2. Over(IdsOfKind("call", D), Mapped(g, K)) = Over(d, K)
        BY <1>4, <2>1, OverOfMapped
    <2> QED BY <1>8, <1>11, <2>2, Zenon
<1> QED BY <1>9, <1>10, <1>12

\* Every part gives a sequence of snippets, of ids, of thinking.
LEMMA PartsYield ==
    ASSUME NEW D, NEW s, Within(s, D)
    PROVE  /\ WordedParts(s) => Yields(TextIn(D), s)
           /\ \A k : Yields(IdsOfKind(k, D), s)
           /\ Yields(Thought(D), s)
<1>1. IsSequence(s) /\ \A i \in DOMAIN s : s[i] \in D
    BY DEF Within
<1>2. ASSUME WordedParts(s) PROVE Yields(TextIn(D), s)
    <2>1. \A i \in DOMAIN s : IsSequence(TextIn(D)[s[i]])
        BY <1>1, <1>2, SequenceOne DEF TextIn, WordedParts
    <2> QED BY <1>1, <2>1 DEF Yields
<1>3. ASSUME NEW k PROVE Yields(IdsOfKind(k, D), s)
    <2>1. \A i \in DOMAIN s : IsSequence(IdsOfKind(k, D)[s[i]])
        BY <1>1, SequenceOne DEF IdsOfKind
    <2> QED BY <1>1, <2>1 DEF Yields
<1>4. Yields(Thought(D), s)
    <2>1. \A i \in DOMAIN s : IsSequence(Thought(D)[s[i]])
        BY <1>1, SequenceOne DEF Thought
    <2> QED BY <1>1, <2>1 DEF Yields
<1> QED BY <1>2, <1>3, <1>4

\* Of three sequences, one after the other.
LEMMA OverThree ==
    ASSUME NEW F, NEW a, Yields(F, a), NEW b, Yields(F, b), NEW c, Yields(F, c)
    PROVE  Over(F, (a \o b) \o c) = (Over(F, a) \o Over(F, b)) \o Over(F, c)
<1> DEFINE d == a \o b
<1>1. Yields(F, d) /\ Over(F, d) = Over(F, a) \o Over(F, b)
    BY OverJoined
<1> HIDE DEF d
<1>2. Over(F, d \o c) = Over(F, d) \o Over(F, c)
    BY <1>1, OverJoined
<1>3. Over(F, d \o c) = (Over(F, a) \o Over(F, b)) \o Over(F, c)
    BY <1>1, <1>2, Zenon
<1> QED BY <1>3 DEF d

\* One of the three has something to say.
LEMMA OneOfThree ==
    ASSUME NEW x, IsSequence(x), NEW e, e = <<>>
    PROVE  (x \o e) \o e = x /\ (e \o x) \o e = x /\ (e \o e) \o x = x
<1>1. x \o e = x /\ e \o x = x /\ e \o e = e
    BY JoinRules, SequenceOne
<1> QED BY <1>1, Zenon

\* The neutral message of a response says what the response says.
LEMMA NeutralSays ==
    ASSUME NEW p, NEW r, IsSequence(r), NEW N, N = Neutral(p, r)
    PROVE  /\ WordedParts(N)
           /\ \A i \in DOMAIN N : N[i].kind \in {"think", "text", "call"}
           /\ Over(TextIn(Range(N)), N) = TextsOf(r)
           /\ Over(IdsOfKind("call", Range(N)), N) = CallsOf(r)
           /\ Over(Thought(Range(N)), N) = ThinkOf(r)
           /\ p # "anthropic" => Over(IdsOfKind("think", Range(N)), N) = ThinkOf(r)
<1> DEFINE D == Range(N)
           e == <<>>
           text == TextsOf(r)
           U == Thoughts(p, r)
           X == IF text = <<>> THEN <<>> ELSE <<TextPart(text)>>
           C == MapSeq(Parts(r, "call"), LAMBDA b : CallPart(b.id))
<1>1. N = (U \o X) \o C
    <2>1. FlatMap(Parts(r, "text"), LAMBDA b : Said(b.id)) = text
        BY TextsJoined
    <2> QED BY <2>1, Zenon DEF Neutral, Thoughts
<1>2. IsSequence(text) /\ IsSequence(CallsOf(r)) /\ IsSequence(ThinkOf(r))
    BY ResponseYields
<1>3. /\ IsSequence(U) /\ \A i \in DOMAIN U : U[i].kind = "think"
      /\ \A E : Within(U, E) =>
                  /\ Over(Thought(E), U) = ThinkOf(r)
                  /\ p # "anthropic" => Over(IdsOfKind("think", E), U) = ThinkOf(r)
    BY ThoughtParts
<1>4. /\ IsSequence(C) /\ \A i \in DOMAIN C : C[i].kind = "call"
      /\ \A E : Within(C, E) => Over(IdsOfKind("call", E), C) = CallsOf(r)
    BY CalledParts
<1>5. /\ IsSequence(X) /\ \A i \in DOMAIN X : X[i].kind = "text" /\ X[i].text = text
      /\ text = <<>> => X = <<>>
      /\ text # <<>> => X = <<TextPart(text)>>
    <2> HIDE DEF text
    <2> QED BY SequenceOne DEF TextPart
<1> HIDE DEF U, X, C, text
<1>6. /\ IsSequence(U \o X) /\ IsSequence(N)
      /\ \A i \in DOMAIN N : \/ \E j \in DOMAIN U : N[i] = U[j]
                             \/ \E j \in DOMAIN X : N[i] = X[j]
                             \/ \E j \in DOMAIN C : N[i] = C[j]
    <2> DEFINE V == U \o X
    <2>1. /\ IsSequence(V)
          /\ \A i \in DOMAIN U : V[i] = U[i]
          /\ \A i \in (DOMAIN V) \ DOMAIN U : i - Len(U) \in DOMAIN X /\ V[i] = X[i - Len(U)]
        BY <1>3, <1>5, SequenceJoined, ZenonT(40)
    <2> HIDE DEF V
    <2>2. N = V \o C
        BY <1>1 DEF V
    <2> DEFINE M == V \o C
    <2>3. /\ IsSequence(M)
          /\ \A i \in DOMAIN V : M[i] = V[i]
          /\ \A i \in (DOMAIN M) \ DOMAIN V : i - Len(V) \in DOMAIN C /\ M[i] = C[i - Len(V)]
        BY <1>4, <2>1, SequenceJoined
    <2> HIDE DEF M
    <2>4. N = M
        BY <2>2 DEF M
    <2>5. \A i \in DOMAIN V : (\E j \in DOMAIN U : V[i] = U[j]) \/ \E j \in DOMAIN X : V[i] = X[j]
        BY <2>1
    <2>6. \A i \in DOMAIN M : (i \in DOMAIN V /\ M[i] = V[i]) \/ \E j \in DOMAIN C : M[i] = C[j]
        BY <2>3
    <2>7. \A i \in DOMAIN M : \/ \E j \in DOMAIN U : M[i] = U[j]
                              \/ \E j \in DOMAIN X : M[i] = X[j]
                              \/ \E j \in DOMAIN C : M[i] = C[j]
        BY <2>5, <2>6
    <2>8. IsSequence(N)
        BY <2>3, <2>4
    <2> QED BY <2>1, <2>4, <2>7, <2>8 DEF V
<1>7. Within(N, D)
    BY <1>6, WithinRange
<1> HIDE DEF D
<1>8. Within(U, D) /\ Within(X, D) /\ Within(C, D)
    <2> DEFINE V == U \o X
    <2>1. IsSequence(V)
        BY <1>6
    <2>2. Within(V \o C, D)
        BY <1>1, <1>7
    <2>3. Within(V, D) /\ Within(C, D)
        <3> HIDE DEF V
        <3> QED BY <1>4, <2>1, <2>2, WithinParts
    <2> QED BY <1>3, <1>5, <2>3, WithinParts
<1>9. /\ \A i \in DOMAIN N : N[i].kind \in {"think", "text", "call"}
      /\ \A i \in DOMAIN N : N[i].kind = "text" => N[i].text = text
    BY <1>3, <1>4, <1>5, <1>6
<1>10. WordedParts(N)
    BY <1>2, <1>6, <1>9 DEF WordedParts
<1>11. WordedParts(U) /\ WordedParts(X) /\ WordedParts(C)
    BY <1>2, <1>3, <1>4, <1>5 DEF WordedParts
<1>12. /\ Yields(TextIn(D), U) /\ Yields(TextIn(D), X) /\ Yields(TextIn(D), C)
       /\ \A k : Yields(IdsOfKind(k, D), U) /\ Yields(IdsOfKind(k, D), X)
                 /\ Yields(IdsOfKind(k, D), C)
       /\ Yields(Thought(D), U) /\ Yields(Thought(D), X) /\ Yields(Thought(D), C)
    BY <1>8, <1>11, PartsYield
<1>13. ASSUME NEW F, Yields(F, U), Yields(F, X), Yields(F, C)
       PROVE  Over(F, N) = (Over(F, U) \o Over(F, X)) \o Over(F, C)
    BY <1>1, <1>13, OverThree, SMTT(30)

\* The text.
<1>14. Over(TextIn(D), N) = text
    <2> DEFINE F == TextIn(D)
    <2>1. \A x \in D : F[x] = IF x.kind = "text" THEN x.text ELSE <<>>
        BY DEF TextIn
    <2> HIDE DEF F
    <2>2. Over(F, U) = e
        BY <1>3, <1>8, <2>1, OverNothing DEF Within
    <2>3. Over(F, C) = e
        BY <1>4, <1>8, <2>1, OverNothing DEF Within
    <2>4. Over(F, X) = text
        <3>1. CASE text = <<>>
            <4>1. Over(F, <<>>) = <<>>
                BY OverNone
            <4> QED BY <1>5, <3>1, <4>1, Zenon
        <3>2. CASE text # <<>>
            <4> DEFINE b == TextPart(text)
            <4>1. b.kind = "text" /\ b.text = text
                BY DEF TextPart
            <4> HIDE DEF b
            <4>2. X = <<b>>
                BY <1>5, <3>2 DEF b
            <4>3. b \in D
                <5>1. 1 \in DOMAIN X /\ X[1] = b
                    BY <4>2
                <5> QED BY <1>8, <5>1 DEF Within
            <4>4. Over(F, <<b>>) = F[b]
                BY OverOne
            <4>5. F[b] = text
                BY <2>1, <4>1, <4>3
            <4> QED BY <4>2, <4>4, <4>5, Zenon
        <3> QED BY <3>1, <3>2
    <2>5. Over(F, N) = (Over(F, U) \o Over(F, X)) \o Over(F, C)
        BY <1>12, <1>13 DEF F
    <2>6. (e \o text) \o e = text
        BY <1>2, OneOfThree
    <2>7. Over(F, N) = text
        BY <2>2, <2>3, <2>4, <2>5, <2>6, Zenon
    <2> QED BY <2>7 DEF F
\* The calls.
<1>15. Over(IdsOfKind("call", D), N) = CallsOf(r)
    <2> DEFINE F == IdsOfKind("call", D)
    <2>1. \A x \in D : F[x] = IF x.kind = "call" THEN <<x.id>> ELSE <<>>
        BY DEF IdsOfKind
    <2>2. Over(F, C) = CallsOf(r)
        BY <1>4, <1>8
    <2> HIDE DEF F
    <2>3. Over(F, U) = e
        BY <1>3, <1>8, <2>1, OverNothing DEF Within
    <2>4. Over(F, X) = e
        BY <1>5, <1>8, <2>1, OverNothing DEF Within
    <2>5. Over(F, N) = (Over(F, U) \o Over(F, X)) \o Over(F, C)
        BY <1>12, <1>13 DEF F
    <2>6. (e \o e) \o CallsOf(r) = CallsOf(r)
        BY <1>2, OneOfThree
    <2>7. Over(F, N) = CallsOf(r)
        BY <2>2, <2>3, <2>4, <2>5, <2>6, Zenon
    <2> QED BY <2>7 DEF F
\* The thinking.
<1>16. ASSUME NEW F, \A x \in D : x.kind # "think" => F[x] = <<>>,
              Yields(F, U), Yields(F, X), Yields(F, C), Over(F, U) = ThinkOf(r)
       PROVE  Over(F, N) = ThinkOf(r)
    <2>1. Over(F, X) = e
        BY <1>5, <1>8, <1>16, OverNothing DEF Within
    <2>2. Over(F, C) = e
        BY <1>4, <1>8, <1>16, OverNothing DEF Within
    <2>3. Over(F, N) = (Over(F, U) \o Over(F, X)) \o Over(F, C)
        BY <1>13, <1>16
    <2>4. (ThinkOf(r) \o e) \o e = ThinkOf(r)
        BY <1>2, OneOfThree
    <2> QED BY <1>16, <2>1, <2>2, <2>3, <2>4, Zenon
<1>17. Over(Thought(D), N) = ThinkOf(r)
    <2>1. \A x \in D : x.kind # "think" => Thought(D)[x] = <<>>
        BY DEF Thought
    <2> QED BY <1>3, <1>8, <1>12, <1>16, <2>1
<1>18. ASSUME p # "anthropic" PROVE Over(IdsOfKind("think", D), N) = ThinkOf(r)
    <2>1. \A x \in D : x.kind # "think" => IdsOfKind("think", D)[x] = <<>>
        BY DEF IdsOfKind
    <2> QED BY <1>3, <1>8, <1>12, <1>16, <1>18, <2>1
<1> QED BY <1>9, <1>10, <1>14, <1>15, <1>17, <1>18 DEF D, text

-----------------------------------------------------------------------------
(* convertMessages, one message at a time. *)
Converted(p, m) ==
    CASE p = "anthropic"  -> AnthropicMessages(<<m>>)
      [] p = "openai"     -> OpenAIMessage(m)
      [] p = "openrouter" -> OpenRouterMessage(m)
      [] p = "google"     -> GoogleMessage(m)

\* Functions that agree on the elements of a sequence give the same over it.
LEMMA OverSame ==
    ASSUME NEW s, NEW F, NEW G, \A i \in DOMAIN s : F[s[i]] = G[s[i]]
    PROVE  Over(F, s) = Over(G, s)
<1>1. [i \in DOMAIN s |-> F[s[i]]] = [i \in DOMAIN s |-> G[s[i]]]
    OBVIOUS
<1> QED BY <1>1, Zenon DEF Over

\* Text parts put together.
LEMMA JoinedOver ==
    ASSUME NEW s, WordedParts(s)
    PROVE  /\ JoinedText(s) = Over(TextIn(Range(s)), s)
           /\ IsSequence(JoinedText(s))
<1> DEFINE D == Range(s)
           T == {x \in D : x.kind = "text"}
           K == Parts(s, "text")
           G == [x \in D |-> x.text]
           H == TextIn(D)
<1>1. Within(s, D) /\ IsSequence(s) /\ \A i \in DOMAIN s : s[i] \in D
    BY WithinRange DEF WordedParts, Within
<1>2. \A x \in D : /\ G[x] = x.text
                   /\ x \in T <=> x.kind = "text"
                   /\ H[x] = IF x.kind = "text" THEN x.text ELSE <<>>
    BY DEF TextIn
<1> HIDE DEF D
<1>3. K = Over(Picks(T, D), s)
    BY <1>1, PartsOver
<1>4. Within(K, D)
    <2>1. Within(Over(Picks(T, D), s), D)
        BY <1>1, PickedFound
    <2> QED BY <1>3, <2>1, Zenon
<1>5. JoinedText(s) = FlattenSeq([i \in DOMAIN K |-> K[i].text])
    BY Zenon DEF JoinedText, FlatMap, MapSeq
<1> HIDE DEF T, K, G, H
<1>6. [i \in DOMAIN K |-> K[i].text] = [i \in DOMAIN K |-> G[K[i]]]
    BY <1>2, <1>4 DEF Within
<1>7. Over(G, K) = Over(H, s)
    <2>1. \A i \in DOMAIN s : H[s[i]] = IF s[i] \in T THEN G[s[i]] ELSE <<>>
        BY <1>1, <1>2
    <2>2. \A i \in DOMAIN s : s[i] \in T => IsSequence(G[s[i]])
        BY <1>1, <1>2 DEF WordedParts
    <2> QED BY <1>1, <1>3, <2>1, <2>2, OverPicked
<1>8. JoinedText(s) = Over(H, s)
    BY <1>5, <1>6, <1>7, Zenon DEF Over
<1>9. IsSequence(Over(H, s))
    <2>1. Yields(H, s)
        BY <1>1, PartsYield DEF H
    <2> QED BY <2>1, OverMade
<1>10. IsSequence(JoinedText(s))
    BY <1>8, <1>9, Zenon
<1> QED BY <1>8, <1>10 DEF H, D

\* What OpenAI and OpenRouter make of an assistant message.
LEMMA PartsSpoken ==
    ASSUME NEW p, NEW s, WordedParts(s)
    PROVE  /\ WordedBlocks(TextOrNone(JoinedText(s)) \o Calls(s))
           /\ Spoken(p, TextOrNone(JoinedText(s)) \o Calls(s))
                 = Speech(p, Over(TextIn(Range(s)), s), Over(IdsOfKind("call", Range(s)), s), <<>>)
<1> DEFINE text == JoinedText(s)
           D == Range(s)
<1>1. IsSequence(text) /\ text = Over(TextIn(D), s)
    BY JoinedOver
<1>2. Within(s, D)
    BY WithinRange DEF WordedParts
<1> HIDE DEF text, D
<1>3. /\ WordedBlocks(TextOrNone(text) \o Calls(s))
      /\ Spoken(p, TextOrNone(text) \o Calls(s))
             = Speech(p, text, Over(IdsOfKind("call", D), s), <<>>)
    BY <1>1, <1>2, SpokenBase
<1>4. Spoken(p, TextOrNone(text) \o Calls(s))
          = Speech(p, Over(TextIn(D), s), Over(IdsOfKind("call", D), s), <<>>)
    BY <1>1, <1>3, Zenon
<1>5. WordedBlocks(TextOrNone(text) \o Calls(s))
    BY <1>3
<1> QED BY <1>4, <1>5 DEF text, D

\* What is no text and no thinking counts as a call with Anthropic.
Asked(D) == [x \in D |-> IF x.kind \in {"text", "think"} THEN <<>> ELSE <<x.id>>]

\* Anthropic: what the blocks say that an assistant message is converted to.
LEMMA AssistantSpoken ==
    ASSUME NEW p, NEW m, WordedParts(m.parts)
    PROVE  LET s == m.parts
               D == Range(s)
           IN  /\ WordedBlocks(AnthropicAssistant(m))
               /\ p \in ReplaysThinking =>
                      Spoken(p, AnthropicAssistant(m))
                          = Speech(p, Over(TextIn(D), s), Over(Asked(D), s), Over(Thought(D), s))
<1> DEFINE s == m.parts
           D == Range(s)
           T == {x \in D : x.kind = "think"}
           R == {x \in D : x.kind # "think"}
           K == Over(Picks(T, D), s)
           L == Over(Picks(R, D), s)
           g == [x \in D |-> AnthropicThinking(x)]
           f == [x \in D |-> IF x.kind = "text" THEN Text(x.text) ELSE Call(x)]
           n == [x \in D |-> <<>>]
           t == TextIn(D)
           c == Asked(D)
           d == Thought(D)
           a == Mapped(g, K)
           b == Mapped(f, L)
           e == <<>>
<1>1. Within(s, D) /\ IsSequence(s) /\ \A i \in DOMAIN s : s[i] \in D
    BY WithinRange DEF WordedParts, Within
<1>2. Parts(s, "think") = K
    BY <1>1, PartsOver
<1>3. Select(s, LAMBDA x : x.kind # "think") = L
    <2>1. Select(s, LAMBDA x : x.kind # "think")
              = FlattenSeq([i \in DOMAIN s |-> IF s[i].kind # "think" THEN <<s[i]>> ELSE <<>>])
        BY Zenon DEF Select, FlatMap, MapSeq
    <2>2. [i \in DOMAIN s |-> IF s[i].kind # "think" THEN <<s[i]>> ELSE <<>>]
              = [i \in DOMAIN s |-> Picks(R, D)[s[i]]]
        BY <1>1 DEF Picks
    <2> HIDE DEF R, s
    <2> QED BY <2>1, <2>2, Zenon DEF Over
<1>4. Within(K, D) /\ Within(L, D)
    BY <1>1, PickedFound
<1>5. AnthropicAssistant(m) = a \o b
    <2>1. AnthropicAssistant(m) = [i \in DOMAIN K |-> AnthropicThinking(K[i])]
                \o [i \in DOMAIN L |-> IF L[i].kind = "text" THEN Text(L[i].text) ELSE Call(L[i])]
        BY <1>2, <1>3, Zenon DEF AnthropicAssistant, MapSeq
    <2>2. /\ \A x \in D : g[x] = AnthropicThinking(x)
          /\ \A x \in D : f[x] = IF x.kind = "text" THEN Text(x.text) ELSE Call(x)
        OBVIOUS
    <2> HIDE DEF K, L, D, g, f
    <2>3. [i \in DOMAIN K |-> AnthropicThinking(K[i])] = a
        BY <1>4, <2>2 DEF Mapped, Within
    <2>4. [i \in DOMAIN L |-> IF L[i].kind = "text" THEN Text(L[i].text) ELSE Call(L[i])] = b
        BY <1>4, <2>2 DEF Mapped, Within
    <2> QED BY <2>1, <2>3, <2>4, Zenon
<1>6. \A x \in D : /\ x \in T <=> x.kind = "think"
                   /\ x \in R <=> x.kind # "think"
                   /\ n[x] = <<>>
                   /\ t[x] = IF x.kind = "text" THEN x.text ELSE <<>>
                   /\ c[x] = IF x.kind \in {"text", "think"} THEN <<>> ELSE <<x.id>>
                   /\ d[x] = IF x.kind = "think" /\ ~x.redacted THEN <<x.id>> ELSE <<>>
    BY DEF TextIn, Asked, Thought
<1>7. \A x \in D : /\ g[x].kind = IF x.redacted THEN "redacted" ELSE "think"
                   /\ g[x].id = x.id
    BY DEF AnthropicThinking, Block
<1>8. \A x \in D : /\ x.kind = "text" => f[x].kind = "text" /\ f[x].content = x.text
                   /\ x.kind # "text" => f[x].kind = "call" /\ f[x].id = x.id
    BY DEF Text, Call, Block
<1>9. \A x \in D : x.kind = "text" => IsSequence(x.text)
    <2> SUFFICES ASSUME NEW x \in D, x.kind = "text" PROVE IsSequence(x.text)
        OBVIOUS
    <2>1. PICK i \in DOMAIN s : x = s[i]
        BY DEF Range
    <2> QED BY <2>1 DEF WordedParts
<1> HIDE DEF s, D, T, R, g, f, n, t, c, d, K, L
<1>10. /\ \A x \in D : x \in T /\ g[x].kind = "text" => IsSequence(g[x].content)
       /\ \A x \in D : n[x] = IF x \in T /\ g[x].kind = "text" THEN g[x].content ELSE <<>>
       /\ \A x \in D : n[x] = IF x \in T /\ g[x].kind = "call" THEN <<g[x].id>> ELSE <<>>
       /\ \A x \in D : d[x] = IF x \in T /\ g[x].kind = "think" THEN <<g[x].id>> ELSE <<>>
    <2>1. \A x \in D : g[x].kind # "text" /\ g[x].kind # "call"
        BY <1>7
    <2>2. ASSUME NEW x \in D
          PROVE  d[x] = IF x \in T /\ g[x].kind = "think" THEN <<g[x].id>> ELSE <<>>
        <3> DEFINE v == g[x]
        <3>1. v.kind = (IF x.redacted THEN "redacted" ELSE "think") /\ v.id = x.id
            BY <1>7
        <3>2. d[x] = IF x.kind = "think" /\ ~x.redacted THEN <<x.id>> ELSE <<>>
            BY <1>6
        <3>3. x \in T <=> x.kind = "think"
            BY <1>6
        <3> HIDE DEF v
        <3>4. v.kind = "think" <=> ~x.redacted
            BY <3>1
        <3>5. d[x] = IF x \in T /\ v.kind = "think" THEN <<v.id>> ELSE <<>>
            BY <3>1, <3>2, <3>3, <3>4, Zenon
        <3> QED BY <3>5 DEF v
    <2> QED BY <1>6, <2>1, <2>2
<1>11. WordedBlocks(a) /\ Spoken(p, a) = Speech(p, Over(n, s), Over(n, s), Over(d, s))
    BY <1>1, <1>10, SpokenPicked DEF K
<1>12. /\ \A x \in D : x \in R /\ f[x].kind = "text" => IsSequence(f[x].content)
       /\ \A x \in D : t[x] = IF x \in R /\ f[x].kind = "text" THEN f[x].content ELSE <<>>
       /\ \A x \in D : c[x] = IF x \in R /\ f[x].kind = "call" THEN <<f[x].id>> ELSE <<>>
       /\ \A x \in D : n[x] = IF x \in R /\ f[x].kind = "think" THEN <<f[x].id>> ELSE <<>>
    <2> SUFFICES ASSUME NEW x \in D
                 PROVE  /\ x \in R /\ f[x].kind = "text" => IsSequence(f[x].content)
                        /\ t[x] = IF x \in R /\ f[x].kind = "text" THEN f[x].content ELSE <<>>
                        /\ c[x] = IF x \in R /\ f[x].kind = "call" THEN <<f[x].id>> ELSE <<>>
                        /\ n[x] = IF x \in R /\ f[x].kind = "think" THEN <<f[x].id>> ELSE <<>>
        OBVIOUS
    <2> DEFINE v == f[x]
    <2>1. /\ x.kind = "text" => v.kind = "text" /\ v.content = x.text /\ IsSequence(x.text)
          /\ x.kind # "text" => v.kind = "call" /\ v.id = x.id
        BY <1>8, <1>9
    <2>2. /\ x \in R <=> x.kind # "think"
          /\ n[x] = <<>>
          /\ t[x] = IF x.kind = "text" THEN x.text ELSE <<>>
          /\ c[x] = IF x.kind \in {"text", "think"} THEN <<>> ELSE <<x.id>>
        BY <1>6
    <2> HIDE DEF v
    <2>3. /\ x \in R /\ v.kind = "text" => IsSequence(v.content)
          /\ t[x] = IF x \in R /\ v.kind = "text" THEN v.content ELSE <<>>
          /\ c[x] = IF x \in R /\ v.kind = "call" THEN <<v.id>> ELSE <<>>
          /\ n[x] = IF x \in R /\ v.kind = "think" THEN <<v.id>> ELSE <<>>
        BY <2>1, <2>2
    <2> QED BY <2>3 DEF v
<1>13. WordedBlocks(b) /\ Spoken(p, b) = Speech(p, Over(t, s), Over(c, s), Over(n, s))
    BY <1>1, <1>12, SpokenPicked DEF L
<1> HIDE DEF a, b
<1>14. WordedBlocks(a \o b) /\ Spoken(p, a \o b) = Merged(Spoken(p, a), Spoken(p, b))
    BY <1>11, <1>13, SpokenJoined
<1>15. Over(n, s) = e
    BY <1>1, <1>6, OverNothing
<1>16. IsSequence(Over(t, s)) /\ IsSequence(Over(c, s)) /\ IsSequence(Over(d, s))
    <2>1. \A x \in D : IsSequence(t[x]) /\ IsSequence(c[x]) /\ IsSequence(d[x])
        <3> SUFFICES ASSUME NEW x \in D
                     PROVE  IsSequence(t[x]) /\ IsSequence(c[x]) /\ IsSequence(d[x])
            OBVIOUS
        <3>1. IsSequence(e) /\ IsSequence(<<x.id>>)
            BY SequenceOne DEF e
        <3>2. /\ x.kind = "text" => IsSequence(x.text)
              /\ t[x] = IF x.kind = "text" THEN x.text ELSE e
              /\ c[x] = IF x.kind \in {"text", "think"} THEN e ELSE <<x.id>>
              /\ d[x] = IF x.kind = "think" /\ ~x.redacted THEN <<x.id>> ELSE e
            BY <1>6, <1>9 DEF e
        <3> HIDE DEF e
        <3> QED BY <3>1, <3>2, Zenon
    <2>2. Yields(t, s) /\ Yields(c, s) /\ Yields(d, s)
        BY <1>1, <2>1 DEF Yields
    <2> QED BY <2>2, OverMade
<1> HIDE DEF e
<1>17. Merged(Speech(p, e, e, Over(d, s)), Speech(p, Over(t, s), Over(c, s), e))
           = Speech(p, Over(t, s), Over(c, s), Over(d, s))
    <2> DEFINE x == Over(t, s)
               y == Over(c, s)
               z == Over(d, s)
    <2>1. Merged(Speech(p, e, e, z), Speech(p, x, y, e)) = Speech(p, e \o x, e \o y, z \o e)
        BY SpeechMerged
    <2>2. IsSequence(x) /\ IsSequence(y) /\ IsSequence(z)
        BY <1>16
    <2> HIDE DEF x, y, z
    <2>3. e \o x = x /\ e \o y = y /\ z \o e = z
        BY <2>2, JoinRules DEF e
    <2>4. Merged(Speech(p, e, e, z), Speech(p, x, y, e)) = Speech(p, x, y, z)
        BY <2>1, <2>3, Zenon
    <2> QED BY <2>4 DEF x, y, z
<1>18. Spoken(p, a \o b) = Speech(p, Over(t, s), Over(c, s), Over(d, s))
    BY <1>11, <1>13, <1>14, <1>15, <1>17, Zenon
<1>19. WordedBlocks(AnthropicAssistant(m))
    BY <1>5, <1>14
<1>20. Spoken(p, AnthropicAssistant(m)) = Speech(p, Over(t, s), Over(c, s), Over(d, s))
    BY <1>5, <1>18, Zenon
<1> QED BY <1>19, <1>20 DEF t, c, d, D, s

-----------------------------------------------------------------------------
(* convertMessages on the neutral message of a response. *)
\* What names a call is not empty.
LEMMA NotSilent ==
    ASSUME NEW p, NEW bs, Spoken(p, bs).calls # <<>>
    PROVE  bs # <<>>
<1>1. ASSUME bs = <<>> PROVE FALSE
    <2>1. Spoken(p, <<>>) = Speech(p, <<>>, <<>>, <<>>)
        BY SpokenNone
    <2>2. Spoken(p, bs) = Speech(p, <<>>, <<>>, <<>>)
        BY <1>1, <2>1, Zenon
    <2>3. Speech(p, <<>>, <<>>, <<>>).calls = <<>>
        BY DEF Speech
    <2> QED BY <2>2, <2>3
<1> QED BY <1>1

\* The message of a response with calls has parts.
LEMMA NeutralSpeaks ==
    ASSUME NEW p, NEW r, IsSequence(r), CallsOf(r) # <<>>
    PROVE  Neutral(p, r) # <<>>
<1> DEFINE N == Neutral(p, r)
<1>1. Over(IdsOfKind("call", Range(N)), N) = CallsOf(r)
    BY NeutralSays
<1>2. ASSUME N = <<>> PROVE FALSE
    <2> DEFINE F == IdsOfKind("call", Range(N))
    <2>1. Over(F, <<>>) = <<>>
        BY OverNone
    <2>2. Over(F, N) = CallsOf(r)
        BY <1>1
    <2> HIDE DEF F, N
    <2>3. Over(F, N) = <<>>
        BY <1>2, <2>1, Zenon
    <2> QED BY <2>2, <2>3
<1> QED BY <1>2

\* OpenAI: a response converted from its neutral message says what the response says.
LEMMA OpenAIReplays ==
    ASSUME NEW r, IsSequence(r), CallsOf(r) # <<>>,
           NEW h, IsSequence(h), Worded(Meaning("openai", h))
    PROVE  Meaning("openai", h \o OpenAIMessage(Message("assistant", Neutral("openai", r))))
               = Continued(Meaning("openai", h), SpeechOf("openai", r))
<1> DEFINE p == "openai"
           N == Neutral(p, r)
           bs == TextOrNone(JoinedText(N)) \o Calls(N)
<1>1. /\ WordedParts(N)
      /\ Over(TextIn(Range(N)), N) = TextsOf(r)
      /\ Over(IdsOfKind("call", Range(N)), N) = CallsOf(r)
    BY NeutralSays
<1> HIDE DEF N
<1>2. /\ WordedBlocks(bs)
      /\ Spoken(p, bs) = Speech(p, Over(TextIn(Range(N)), N),
                                Over(IdsOfKind("call", Range(N)), N), <<>>)
    BY <1>1, PartsSpoken
<1>3. Spoken(p, bs) = SpeechOf(p, r)
    <2>1. Spoken(p, bs) = Speech(p, TextsOf(r), CallsOf(r), <<>>)
        BY <1>1, <1>2, Zenon
    <2>2. \A x, y, z : Speech(p, x, y, z) = Speech(p, x, y, <<>>)
        BY DEF Speech, ReplaysThinking
    <2> QED BY <2>1, <2>2 DEF SpeechOf
<1> HIDE DEF bs
<1>4. bs # <<>>
    <2>1. SpeechOf(p, r).calls = CallsOf(r)
        BY DEF SpeechOf, Speech
    <2> QED BY <1>3, <2>1, NotSilent
<1>5. OpenAIMessage(Message("assistant", N)) = Run(bs)
    <2> DEFINE m == Message("assistant", N)
    <2>1. m.role = "assistant" /\ m.parts = N
        BY DEF Message
    <2> HIDE DEF m
    <2>2. OpenAIMessage(m) = MapSeq(TextOrNone(JoinedText(N)) \o Calls(N),
                                    LAMBDA b : Item("assistant", b))
        BY <2>1 DEF OpenAIMessage
    <2>3. MapSeq(bs, LAMBDA b : Item("assistant", b)) = Run(bs)
        BY Zenon DEF MapSeq, Run
    <2> QED BY <2>2, <2>3, Zenon DEF bs, m
<1>6. Meaning(p, h \o Run(bs)) = Continued(Meaning(p, h), Spoken(p, bs))
    BY <1>2, <1>4, RunSpoken
<1> QED BY <1>3, <1>5, <1>6, Zenon DEF N

\* OpenRouter: the same.
LEMMA OpenRouterReplays ==
    ASSUME NEW r, IsSequence(r), NEW h, IsSequence(h)
    PROVE  Meaning("openrouter", h \o OpenRouterMessage(Message("assistant", Neutral("openrouter", r))))
               = Continued(Meaning("openrouter", h), SpeechOf("openrouter", r))
<1> DEFINE p == "openrouter"
           N == Neutral(p, r)
           bs == TextOrNone(JoinedText(N)) \o Calls(N)
<1>1. /\ WordedParts(N)
      /\ Over(TextIn(Range(N)), N) = TextsOf(r)
      /\ Over(IdsOfKind("call", Range(N)), N) = CallsOf(r)
    BY NeutralSays
<1> HIDE DEF N
<1>2. Spoken(p, bs) = Speech(p, Over(TextIn(Range(N)), N),
                             Over(IdsOfKind("call", Range(N)), N), <<>>)
    BY <1>1, PartsSpoken
<1>3. Spoken(p, bs) = SpeechOf(p, r)
    <2>1. Spoken(p, bs) = Speech(p, TextsOf(r), CallsOf(r), <<>>)
        BY <1>1, <1>2, Zenon
    <2>2. \A x, y, z : Speech(p, x, y, z) = Speech(p, x, y, <<>>)
        BY DEF Speech, ReplaysThinking
    <2> QED BY <2>1, <2>2 DEF SpeechOf
<1>4. OpenRouterMessage(Message("assistant", N)) = <<[role |-> "assistant", blocks |-> bs]>>
    <2> DEFINE m == Message("assistant", N)
    <2>1. m.role = "assistant" /\ m.parts = N
        BY DEF Message
    <2> HIDE DEF m
    <2>2. OpenRouterMessage(m) = <<[role |-> "assistant",
              blocks |-> TextOrNone(JoinedText(N)) \o Calls(N)]>>
        BY <2>1 DEF OpenRouterMessage
    <2> QED BY <2>2, Zenon DEF m
<1> HIDE DEF bs
<1>5. Meaning(p, h \o <<[role |-> "assistant", blocks |-> bs]>>)
          = Continued(Meaning(p, h), Spoken(p, bs))
    BY SpeechAdded
<1> QED BY <1>3, <1>4, <1>5, Zenon DEF N

\* Anthropic: the same.
LEMMA AnthropicReplays ==
    ASSUME NEW r, IsSequence(r), NEW h, IsSequence(h)
    PROVE  Meaning("anthropic", h \o AnthropicMessages(<<Message("assistant", Neutral("anthropic", r))>>))
               = Continued(Meaning("anthropic", h), SpeechOf("anthropic", r))
<1> DEFINE p == "anthropic"
           N == Neutral(p, r)
           D == Range(N)
           m == Message("assistant", N)
           bs == AnthropicAssistant(m)
<1>1. /\ WordedParts(N)
      /\ \A i \in DOMAIN N : N[i].kind \in {"think", "text", "call"}
      /\ Over(TextIn(D), N) = TextsOf(r)
      /\ Over(IdsOfKind("call", D), N) = CallsOf(r)
      /\ Over(Thought(D), N) = ThinkOf(r)
    BY NeutralSays
<1> HIDE DEF N
<1>2. m.role = "assistant" /\ m.parts = N
    BY DEF Message
<1>3. Over(Asked(D), N) = Over(IdsOfKind("call", D), N)
    <2>1. \A i \in DOMAIN N : N[i] \in D
        BY DEF Range
    <2>2. \A i \in DOMAIN N : Asked(D)[N[i]] = IdsOfKind("call", D)[N[i]]
        BY <1>1, <2>1 DEF Asked, IdsOfKind
    <2> QED BY <2>2, OverSame
<1> HIDE DEF m
<1>4. Spoken(p, bs) = Speech(p, Over(TextIn(D), N), Over(Asked(D), N), Over(Thought(D), N))
    <2>1. WordedParts(m.parts) /\ p \in ReplaysThinking
        BY <1>1, <1>2 DEF ReplaysThinking
    <2>2. Spoken(p, AnthropicAssistant(m))
              = Speech(p, Over(TextIn(Range(m.parts)), m.parts),
                       Over(Asked(Range(m.parts)), m.parts),
                       Over(Thought(Range(m.parts)), m.parts))
        BY <2>1, AssistantSpoken
    <2> QED BY <1>2, <2>2, Zenon
<1>5. Spoken(p, bs) = SpeechOf(p, r)
    <2> HIDE DEF D, bs
    <2> QED BY <1>1, <1>3, <1>4, Zenon DEF SpeechOf
<1> HIDE DEF bs
<1>6. AnthropicMessages(<<m>>) = <<[role |-> "assistant", blocks |-> bs]>>
    <2>1. AnthropicMessages(<<m>>)
              = [i \in DOMAIN <<m>> |->
                    [role   |-> <<m>>[i].role,
                     blocks |-> IF <<m>>[i].role = "user"
                                THEN AnthropicUser(<<m>>[i], i = Len(<<m>>))
                                ELSE AnthropicAssistant(<<m>>[i])]]
        BY DEF AnthropicMessages
    <2>2. DOMAIN <<m>> = {1} /\ <<m>>[1] = m
        OBVIOUS
    <2> QED BY <1>2, <2>1, <2>2 DEF bs
<1>7. Meaning(p, h \o <<[role |-> "assistant", blocks |-> bs]>>)
          = Continued(Meaning(p, h), Spoken(p, bs))
    BY SpeechAdded
<1>8. Meaning(p, h \o AnthropicMessages(<<m>>)) = Continued(Meaning(p, h), SpeechOf(p, r))
    BY <1>5, <1>6, <1>7, Zenon
<1> QED BY <1>8 DEF m, N

-----------------------------------------------------------------------------
(* Google, whose parts keep their order. *)
\* Without results there are no files to bring after them.
LEMMA TrailingNone ==
    ASSUME NEW fileNames
    PROVE  TrailingBlocks(<<>>, fileNames) = <<>>
<1> DEFINE e == <<>>
<1>1. \A i \in DOMAIN e : FALSE
    OBVIOUS
<1>2. e = [i \in {} |-> 0] /\ DOMAIN e = {}
    OBVIOUS
<1> HIDE DEF e
<1>3. FlatMap(e, LAMBDA x : IF x.error THEN <<>> ELSE ToolAttachment(x)) = e
    <2>1. FlatMap(e, LAMBDA x : IF x.error THEN <<>> ELSE ToolAttachment(x))
              = FlattenSeq([i \in DOMAIN e |-> IF e[i].error THEN <<>> ELSE ToolAttachment(e[i])])
        BY Zenon DEF FlatMap, MapSeq
    <2>2. [i \in DOMAIN e |-> IF e[i].error THEN <<>> ELSE ToolAttachment(e[i])] = e
        BY <1>2
    <2>3. FlattenSeq(e) = e
        BY FlattenNone DEF e
    <2> QED BY <2>1, <2>2, <2>3, Zenon
<1>4. Trailing(e, fileNames) = e
    BY <1>3, Zenon DEF Trailing, e
<1>5. TrailingBlocks(e, fileNames) = MapSeq(e, LAMBDA m : AsBlocks(m, fileNames))
    BY <1>4, Zenon DEF TrailingBlocks
<1>6. MapSeq(e, LAMBDA m : AsBlocks(m, fileNames)) = [i \in DOMAIN e |-> AsBlocks(e[i], fileNames)]
    BY Zenon DEF MapSeq
<1>7. [i \in DOMAIN e |-> AsBlocks(e[i], fileNames)] = e
    BY <1>2
<1> QED BY <1>5, <1>6, <1>7, Zenon DEF e

\* Parts that are no files are what they are.
LEMMA ExpandedSame ==
    ASSUME NEW s, IsSequence(s), \A i \in DOMAIN s : s[i].kind # "binary", NEW fileNames
    PROVE  ExpandFileParts(s, fileNames) = s
<1> DEFINE D == Range(s)
           g == [x \in D |-> x]
           F == [x \in D |-> <<x>>]
<1>1. \A i \in DOMAIN s : s[i] \in D
    BY DEF Range
<1>2. \A x \in D : g[x] = x /\ F[x] = <<x>>
    OBVIOUS
<1> HIDE DEF D, g, F
<1>3. ExpandFileParts(s, fileNames) = FlattenSeq([i \in DOMAIN s |-> Expanded(s[i], fileNames)])
    BY Zenon DEF ExpandFileParts, FlatMap, MapSeq
<1>4. [i \in DOMAIN s |-> Expanded(s[i], fileNames)] = [i \in DOMAIN s |-> F[s[i]]]
    BY <1>1, <1>2 DEF Expanded
<1>5. ExpandFileParts(s, fileNames) = Over(F, s)
    BY <1>3, <1>4, Zenon DEF Over
<1>6. \A i \in DOMAIN s : F[s[i]] = <<g[s[i]]>>
    BY <1>1, <1>2
<1>7. Over(F, s) = Mapped(g, s)
    BY <1>6, OverMapped
<1>8. Mapped(g, s) = s
    <2>1. s = [i \in DOMAIN s |-> s[i]]
        BY SequenceRules
    <2>2. Mapped(g, s) = [i \in DOMAIN s |-> s[i]]
        BY <1>1, <1>2 DEF Mapped
    <2> QED BY <2>1, <2>2, Zenon
<1> QED BY <1>5, <1>7, <1>8, Zenon

\* A message left out when it is empty is a sequence of at most one.
LEMMA NotEmptyMade ==
    ASSUME NEW m
    PROVE  IsSequence(NotEmpty(<<m>>))
<1> DEFINE w == <<m>>
<1>1. IsSequence(w)
    BY SequenceOne
<1> HIDE DEF w
<1>2. NotEmpty(w) = FlattenSeq([i \in DOMAIN w |-> IF w[i].blocks # <<>> THEN <<w[i]>> ELSE <<>>])
    BY Zenon DEF NotEmpty, Select, FlatMap, MapSeq
<1>3. NotEmpty(w) = PicksOf(w, {i \in DOMAIN w : w[i].blocks # <<>>})
    <2>1. [i \in DOMAIN w |-> IF w[i].blocks # <<>> THEN <<w[i]>> ELSE <<>>]
              = [i \in DOMAIN w |-> IF i \in {j \in DOMAIN w : w[j].blocks # <<>>}
                                     THEN <<w[i]>> ELSE <<>>]
        OBVIOUS
    <2> QED BY <1>2, <2>1, Zenon DEF PicksOf
<1>4. IsSequence(PicksOf(w, {i \in DOMAIN w : w[i].blocks # <<>>}))
    BY <1>1, PicksFound
<1> QED BY <1>3, <1>4, Zenon DEF w

\* Google: the same.
LEMMA GoogleReplays ==
    ASSUME NEW r, IsSequence(r), CallsOf(r) # <<>>, NEW h, IsSequence(h)
    PROVE  Meaning("google", h \o GoogleMessage(Message("assistant", Neutral("google", r))))
               = Continued(Meaning("google", h), SpeechOf("google", r))
<1> DEFINE p == "google"
           N == Neutral(p, r)
           D == Range(N)
           m == Message("assistant", N)
           V == [x \in D |-> GooglePart(x)]
           t == TextIn(D)
           c == IdsOfKind("call", D)
           d == IdsOfKind("think", D)
           bs == Mapped(V, N)
<1>1. /\ WordedParts(N)
      /\ \A i \in DOMAIN N : N[i].kind \in {"think", "text", "call"}
      /\ Over(TextIn(D), N) = TextsOf(r)
      /\ Over(IdsOfKind("call", D), N) = CallsOf(r)
      /\ Over(IdsOfKind("think", D), N) = ThinkOf(r)
    BY NeutralSays
<1> HIDE DEF N
<1>2. m.role = "assistant" /\ m.parts = N
    BY DEF Message
<1>3. Within(N, D) /\ IsSequence(N) /\ \A x \in D : x.kind \in {"think", "text", "call"}
    <2>1. \A x \in D : x.kind \in {"think", "text", "call"}
        BY <1>1 DEF Range
    <2> QED BY <1>1, <2>1, WithinRange DEF WordedParts
<1>4. \A x \in D : V[x] = GooglePart(x)
    OBVIOUS
<1>5. \A x \in D : /\ t[x] = IF x.kind = "text" THEN x.text ELSE <<>>
                   /\ c[x] = IF x.kind = "call" THEN <<x.id>> ELSE <<>>
                   /\ d[x] = IF x.kind = "think" THEN <<x.id>> ELSE <<>>
    BY DEF TextIn, IdsOfKind
<1>6. \A x : /\ x.kind = "text" => GooglePart(x) = Text(x.text)
             /\ x.kind = "call" => GooglePart(x) = Call(x)
             /\ x.kind = "think" => GooglePart(x) = Block("think", x.id, <<>>)
    <2>1. ASSUME NEW x, x.kind = "text" PROVE GooglePart(x) = Text(x.text)
        <3>0. PartModality(x) = ""
            BY <2>1 DEF PartModality
        <3>1. UserBlock(x) = Text(x.text)
            BY <2>1, <3>0 DEF UserBlock
        <3>2. GooglePart(x) = UserBlock(x)
            BY <2>1 DEF GooglePart
        <3> QED BY <3>1, <3>2
    <2>2. ASSUME NEW x, x.kind = "call" PROVE GooglePart(x) = Call(x)
        BY <2>2 DEF GooglePart
    <2>3. ASSUME NEW x, x.kind = "think" PROVE GooglePart(x) = Block("think", x.id, <<>>)
        BY <2>3 DEF GooglePart
    <2> QED BY <2>1, <2>2, <2>3
<1>7. \A x : /\ Text(x.text).kind = "text" /\ Text(x.text).content = x.text
             /\ Call(x).kind = "call" /\ Call(x).id = x.id
             /\ Block("think", x.id, <<>>).kind = "think" /\ Block("think", x.id, <<>>).id = x.id
    BY DEF Text, Call, Block
<1>8. GoogleMessage(m) = NotEmpty(<<[role |-> "assistant", blocks |-> bs]>>)
    <2>1. ExpandFileParts(N, FALSE) = N
        BY <1>1, <1>3, ExpandedSame
    <2>2. Parts(N, "result") = <<>>
        BY <1>1, <1>3, PartsFound
    <2>3. MapSeq(N, GooglePart) = bs
        <3>1. MapSeq(N, GooglePart) = [i \in DOMAIN N |-> GooglePart(N[i])]
            BY Zenon DEF MapSeq
        <3>2. \A i \in DOMAIN N : N[i] \in D
            BY <1>3 DEF Within
        <3> HIDE DEF D, V
        <3>3. [i \in DOMAIN N |-> GooglePart(N[i])] = bs
            BY <1>4, <3>2 DEF Mapped
        <3> QED BY <3>1, <3>3, Zenon
    <2>4. TrailingBlocks(<<>>, FALSE) = <<>>
        BY TrailingNone
    <2> DEFINE q == NotEmpty(<<[role |-> "assistant", blocks |-> bs]>>)
    <2>5. IsSequence(q)
        BY NotEmptyMade
    <2>6. GoogleMessage(m)
              = NotEmpty(<<[role |-> m.role,
                            blocks |-> MapSeq(ExpandFileParts(m.parts, FALSE), GooglePart)]>>)
                    \o TrailingBlocks(Parts(m.parts, "result"), FALSE)
        BY Zenon DEF GoogleMessage
    <2> HIDE DEF m, bs
    <2>7. GoogleMessage(m) = q \o <<>>
        BY <1>2, <2>1, <2>2, <2>3, <2>4, <2>6, Zenon
    <2> HIDE DEF q
    <2>8. q \o <<>> = q
        BY <2>5, JoinRules
    <2> QED BY <2>7, <2>8, Zenon DEF q
<1> HIDE DEF D, V, t, c, d, m
<1>9. /\ \A x \in D : t[x] = IF V[x].kind = "text" THEN V[x].content ELSE <<>>
      /\ \A x \in D : c[x] = IF V[x].kind = "call" THEN <<V[x].id>> ELSE <<>>
      /\ \A x \in D : d[x] = IF V[x].kind = "think" THEN <<V[x].id>> ELSE <<>>
    <2> SUFFICES ASSUME NEW x \in D
                 PROVE  /\ t[x] = IF V[x].kind = "text" THEN V[x].content ELSE <<>>
                        /\ c[x] = IF V[x].kind = "call" THEN <<V[x].id>> ELSE <<>>
                        /\ d[x] = IF V[x].kind = "think" THEN <<V[x].id>> ELSE <<>>
        OBVIOUS
    <2> DEFINE v == V[x]
    <2>1. /\ x.kind = "text" => v = Text(x.text)
          /\ x.kind = "call" => v = Call(x)
          /\ x.kind = "think" => v = Block("think", x.id, <<>>)
        BY <1>4, <1>6
    <2> HIDE DEF v
    <2>2. /\ x.kind = "text" => v.kind = "text" /\ v.content = x.text
          /\ x.kind = "call" => v.kind = "call" /\ v.id = x.id
          /\ x.kind = "think" => v.kind = "think" /\ v.id = x.id
        BY <1>7, <2>1
    <2>3. /\ t[x] = IF v.kind = "text" THEN v.content ELSE <<>>
          /\ c[x] = IF v.kind = "call" THEN <<v.id>> ELSE <<>>
          /\ d[x] = IF v.kind = "think" THEN <<v.id>> ELSE <<>>
        BY <1>3, <1>5, <2>2
    <2> QED BY <2>3 DEF v
<1>10. Spoken(p, bs) = Speech(p, Over(t, N), Over(c, N), Over(d, N))
    BY <1>3, <1>9, SpokenMapped
<1>11. Spoken(p, bs) = SpeechOf(p, r)
    <2> HIDE DEF bs
    <2> QED BY <1>1, <1>10, Zenon DEF SpeechOf, t, c, d
<1> HIDE DEF bs
<1>12. bs # <<>>
    <2>1. SpeechOf(p, r).calls = CallsOf(r)
        BY DEF SpeechOf, Speech
    <2> QED BY <1>11, <2>1, NotSilent
<1>13. NotEmpty(<<[role |-> "assistant", blocks |-> bs]>>) = <<[role |-> "assistant", blocks |-> bs]>>
    <2> DEFINE w == [role |-> "assistant", blocks |-> bs]
    <2>1. w.blocks # <<>>
        BY <1>12
    <2> HIDE DEF w
    <2>2. NotEmpty(<<w>>) = <<w>>
        BY <2>1, NotEmptyOne
    <2> QED BY <2>2 DEF w
<1>14. Meaning(p, h \o <<[role |-> "assistant", blocks |-> bs]>>)
           = Continued(Meaning(p, h), Spoken(p, bs))
    BY SpeechAdded
<1>15. Meaning(p, h \o GoogleMessage(m)) = Continued(Meaning(p, h), SpeechOf(p, r))
    BY <1>8, <1>11, <1>13, <1>14, Zenon
<1> QED BY <1>15 DEF m, N

-----------------------------------------------------------------------------
(* What convertMessages and Observe make are sequences of messages. *)
\* A sequence mapped is a sequence of the same length.
LEMMA MapSequence ==
    ASSUME NEW s, IsSequence(s)
    PROVE  /\ IsSequence(MapSeq(s, LAMBDA b : Item("assistant", b)))
           /\ IsSequence(MapSeq(s, LAMBDA r : FunctionCallOutput(r.id, Told(r), Brought(r))))
           /\ IsSequence(MapSeq(s, ToolMessage))
<1>1. ASSUME NEW t, t = [i \in DOMAIN s |-> t[i]]
      PROVE  IsSequence(t)
    BY <1>1, SequenceMapped
<1>3. IsSequence([i \in DOMAIN s |-> Item("assistant", s[i])])
    <2> DEFINE t == [i \in DOMAIN s |-> Item("assistant", s[i])]
    <2>1. t = [i \in DOMAIN s |-> t[i]]
        OBVIOUS
    <2> HIDE DEF t
    <2>2. IsSequence(t)
        BY <1>1, <2>1
    <2> QED BY <2>2 DEF t
<1>4. IsSequence([i \in DOMAIN s |-> FunctionCallOutput(s[i].id, Told(s[i]), Brought(s[i]))])
    <2> DEFINE t == [i \in DOMAIN s |-> FunctionCallOutput(s[i].id, Told(s[i]), Brought(s[i]))]
    <2>1. t = [i \in DOMAIN s |-> t[i]]
        OBVIOUS
    <2> HIDE DEF t
    <2>2. IsSequence(t)
        BY <1>1, <2>1
    <2> QED BY <2>2 DEF t
<1>5. IsSequence([i \in DOMAIN s |-> ToolMessage(s[i])])
    <2> DEFINE t == [i \in DOMAIN s |-> ToolMessage(s[i])]
    <2>1. t = [i \in DOMAIN s |-> t[i]]
        OBVIOUS
    <2> HIDE DEF t
    <2>2. IsSequence(t)
        BY <1>1, <2>1
    <2> QED BY <2>2 DEF t
<1>7. IsSequence(MapSeq(s, LAMBDA b : Item("assistant", b)))
    BY <1>3, Zenon DEF MapSeq
<1>8. IsSequence(MapSeq(s, LAMBDA r : FunctionCallOutput(r.id, Told(r), Brought(r))))
    BY <1>4, Zenon DEF MapSeq
<1>9. IsSequence(MapSeq(s, ToolMessage))
    BY <1>5, Zenon DEF MapSeq
<1> QED BY <1>7, <1>8, <1>9

\* The message with the files of results.
LEMMA TrailingMade ==
    ASSUME NEW s, NEW fileNames
    PROVE  IsSequence(TrailingBlocks(s, fileNames))
<1> DEFINE t == Trailing(s, fileNames)
<1>1. IsSequence(t)
    <2> DEFINE files == FlatMap(s, LAMBDA r : IF r.error THEN <<>> ELSE ToolAttachment(r))
    <2>1. t = IF files = <<>> THEN <<>> ELSE <<Message("user", files)>>
        BY Zenon DEF Trailing
    <2> HIDE DEF t, files
    <2>2. IsSequence(<<Message("user", files)>>) /\ IsSequence(<<>>)
        BY SequenceOne
    <2> QED BY <2>1, <2>2, Zenon
<1> HIDE DEF t
<1> DEFINE u == [i \in DOMAIN t |-> AsBlocks(t[i], fileNames)]
<1>2. TrailingBlocks(s, fileNames) = u
    BY Zenon DEF TrailingBlocks, MapSeq, t
<1>3. u = [i \in DOMAIN t |-> u[i]]
    OBVIOUS
<1> HIDE DEF u
<1>4. IsSequence(u)
    BY <1>1, <1>3, SequenceMapped
<1> QED BY <1>2, <1>4, Zenon

\* The calls of parts are a sequence, and so is a text with them.
LEMMA SaidMade ==
    ASSUME NEW s, IsSequence(s)
    PROVE  IsSequence(TextOrNone(JoinedText(s)) \o Calls(s))
<1>1. IsSequence(Parts(s, "call"))
    BY PartsFound
<1> DEFINE K == Parts(s, "call")
           t == [i \in DOMAIN K |-> Call(K[i])]
<1>2. IsSequence(Calls(s))
    <2>1. Calls(s) = t
        BY Zenon DEF Calls, MapSeq
    <2>2. t = [i \in DOMAIN K |-> t[i]]
        OBVIOUS
    <2> HIDE DEF K, t
    <2>3. IsSequence(t)
        BY <1>1, <2>2, SequenceMapped DEF K
    <2> QED BY <2>1, <2>3, Zenon
<1>3. IsSequence(TextOrNone(JoinedText(s)))
    <2>1. IsSequence(<<Text(JoinedText(s))>>) /\ IsSequence(<<>>)
        BY SequenceOne
    <2> QED BY <2>1, Zenon DEF TextOrNone
<1> QED BY <1>2, <1>3, SequenceJoined

-----------------------------------------------------------------------------
(* Histories that differ in their cache marks alone. *)
Twin(b, c) == /\ IsBlock(b) /\ IsBlock(c)
              /\ b.kind = c.kind /\ b.id = c.id /\ b.content = c.content

Twins(s, t) == /\ IsSequence(s) /\ IsSequence(t) /\ DOMAIN s = DOMAIN t
               /\ \A j \in DOMAIN s : Twin(s[j], t[j])
TwinMessages(x, y)  == x.role = y.role /\ Twins(x.blocks, y.blocks)

TwinHistories(h, g) == /\ IsSequence(h) /\ IsSequence(g) /\ DOMAIN h = DOMAIN g
                       /\ \A i \in DOMAIN h : TwinMessages(h[i], g[i])

\* What stamping a block changes: its cache mark alone.
LEMMA StampedIs ==
    ASSUME NEW b, IsBlock(b), NEW cc \in BOOLEAN
    PROVE  Stamped(b, cc) = [kind |-> b.kind, id |-> b.id, content |-> b.content, cc |-> cc]
BY DEF IsBlock, Stamped

\* A mark changes nothing else.
LEMMA TwinStamped ==
    ASSUME NEW b, IsBlock(b), NEW cc \in BOOLEAN
    PROVE  Twin(b, Stamped(b, cc)) /\ Twin(Stamped(b, cc), b) /\ Twin(b, b)
<1>1. Stamped(b, cc) = [kind |-> b.kind, id |-> b.id, content |-> b.content, cc |-> cc]
    BY StampedIs
<1>2. IsBlock(Stamped(b, cc)) /\ Stamped(b, cc).kind = b.kind
      /\ Stamped(b, cc).id = b.id /\ Stamped(b, cc).content = b.content
    BY <1>1 DEF IsBlock
<1> QED BY <1>2 DEF Twin

\* Without their marks they are the same.
LEMMA TwinsBare ==
    ASSUME NEW b, NEW c, Twin(b, c)
    PROVE  Stamped(b, FALSE) = Stamped(c, FALSE)
<1>1. Stamped(b, FALSE) = [kind |-> b.kind, id |-> b.id, content |-> b.content, cc |-> FALSE]
    BY StampedIs DEF Twin
<1>2. Stamped(c, FALSE) = [kind |-> c.kind, id |-> c.id, content |-> c.content, cc |-> FALSE]
    BY StampedIs DEF Twin
<1> QED BY <1>1, <1>2 DEF Twin

\* Twins joined to twins are twins.
LEMMA TwinsJoined ==
    ASSUME NEW s, NEW t, Twins(s, t), NEW u, NEW v, Twins(u, v)
    PROVE  Twins(s \o u, t \o v)
<1>1. /\ IsSequence(s) /\ IsSequence(t) /\ IsSequence(u) /\ IsSequence(v)
      /\ DOMAIN s = DOMAIN t /\ DOMAIN u = DOMAIN v
    BY DEF Twins
<1>2. Len(s) = Len(t) /\ Len(u) = Len(v)
    <2>1. /\ Len(s) \in Nat /\ DOMAIN s = 1..Len(s) /\ Len(u) \in Nat /\ DOMAIN u = 1..Len(u)
        BY <1>1, SequenceRules
    <2> QED BY <1>1, <2>1, LengthIs
<1>3. /\ IsSequence(s \o u) /\ DOMAIN (s \o u) = 1..(Len(s) + Len(u))
      /\ \A i \in DOMAIN s : (s \o u)[i] = s[i]
      /\ \A i \in DOMAIN (s \o u) \ DOMAIN s :
             i - Len(s) \in DOMAIN u /\ (s \o u)[i] = u[i - Len(s)]
    BY <1>1, SequenceJoined
<1>4. /\ IsSequence(t \o v) /\ DOMAIN (t \o v) = 1..(Len(t) + Len(v))
      /\ \A i \in DOMAIN t : (t \o v)[i] = t[i]
      /\ \A i \in DOMAIN (t \o v) \ DOMAIN t : (t \o v)[i] = v[i - Len(t)]
    BY <1>1, SequenceJoined
<1> DEFINE x == s \o u
           y == t \o v
<1> HIDE DEF x, y
<1>5. ASSUME NEW i \in DOMAIN x PROVE Twin(x[i], y[i])
    <2>1. CASE i \in DOMAIN s
        BY <1>1, <1>3, <1>4, <2>1 DEF Twins, x, y
    <2>2. CASE i \notin DOMAIN s
        <3> DEFINE j == i - Len(s)
        <3>1. j \in DOMAIN u /\ x[i] = u[j]
            BY <1>3, <2>2 DEF x
        <3>2. y[i] = v[j]
            BY <1>1, <1>2, <1>3, <1>4, <2>2 DEF x, y
        <3> HIDE DEF j
        <3> QED BY <3>1, <3>2 DEF Twins
    <2> QED BY <2>1, <2>2
<1>6. IsSequence(x) /\ IsSequence(y) /\ DOMAIN x = DOMAIN y
    BY <1>2, <1>3, <1>4 DEF x, y
<1>7. Twins(x, y)
    BY <1>5, <1>6 DEF Twins
<1> QED BY <1>7 DEF x, y

\* Twins one by one are twins when flattened.
LEMMA TwinsFlattened ==
    ASSUME NEW p, AllSequences(p), NEW q, AllSequences(q), DOMAIN p = DOMAIN q,
           \A i \in DOMAIN p : Twins(p[i], q[i])
    PROVE  Twins(FlattenSeq(p), FlattenSeq(q))
<1> DEFINE n == Len(p)
           T == {m \in 0..n : /\ AllSequences(Upto(p, m)) /\ AllSequences(Upto(q, m))
                              /\ Twins(FlattenSeq(Upto(p, m)), FlattenSeq(Upto(q, m)))}
<1>1. n \in Nat /\ DOMAIN p = 1..n
    BY SequenceRules DEF AllSequences
<1>2. Len(q) = n
    BY <1>1, LengthIs DEF AllSequences
<1>3. IsSequence(p) /\ IsSequence(q)
    BY DEF AllSequences
<1> HIDE DEF n
<1>4. 0 \in T
    <2> DEFINE e == <<>>
    <2>1. Upto(p, 0) = e /\ Upto(q, 0) = e
        BY <1>3, UptoRules
    <2>2. IsSequence(e)
        BY SequenceOne
    <2>3. \A i \in DOMAIN e : FALSE
        OBVIOUS
    <2>4. FlattenSeq(e) = e
        BY FlattenNone
    <2>5. 0 \in 0..n
        BY <1>1
    <2> HIDE DEF e
    <2>6. AllSequences(e) /\ Twins(e, e)
        BY <2>2, <2>3 DEF AllSequences, Twins
    <2>7. Twins(FlattenSeq(e), FlattenSeq(e))
        BY <2>4, <2>6, Zenon
    <2>8. AllSequences(Upto(p, 0)) /\ AllSequences(Upto(q, 0))
        BY <2>1, <2>6
    <2>9. Twins(FlattenSeq(Upto(p, 0)), FlattenSeq(Upto(q, 0)))
        BY <2>1, <2>7, Zenon
    <2> QED BY <2>5, <2>8, <2>9
<1>5. \A m \in 0..(n - 1) : m \in T => m + 1 \in T
    <2> SUFFICES ASSUME NEW m \in 0..(n - 1), m \in T PROVE m + 1 \in T
        OBVIOUS
    <2> DEFINE a == Upto(p, m)
               b == Upto(q, m)
               x == p[m + 1]
               y == q[m + 1]
    <2>1. m + 1 \in 0..n /\ m + 1 \in DOMAIN p
        BY <1>1
    <2>2. Upto(p, m + 1) = Append(a, x) /\ Upto(q, m + 1) = Append(b, y)
        <3>1. m \in 0..(Len(p) - 1) /\ m \in 0..(Len(q) - 1)
            BY <1>1, <1>2 DEF n
        <3> QED BY <1>3, <3>1, UptoRules
    <2>3. AllSequences(a) /\ AllSequences(b) /\ Twins(FlattenSeq(a), FlattenSeq(b))
        OBVIOUS
    <2>4. Twins(x, y)
        BY <2>1
    <2> HIDE DEF T, a, b, x, y
    <2>5. IsSequence(x) /\ IsSequence(y)
        BY <2>4 DEF Twins
    <2>6. /\ AllSequences(Append(a, x)) /\ FlattenSeq(Append(a, x)) = FlattenSeq(a) \o x
        BY <2>3, <2>5, FlattenAppended
    <2>7. /\ AllSequences(Append(b, y)) /\ FlattenSeq(Append(b, y)) = FlattenSeq(b) \o y
        BY <2>3, <2>5, FlattenAppended
    <2>8. Twins(FlattenSeq(a) \o x, FlattenSeq(b) \o y)
        <3> DEFINE v == FlattenSeq(a)
                   w == FlattenSeq(b)
        <3>1. Twins(v, w)
            BY <2>3
        <3> HIDE DEF v, w
        <3>2. Twins(v \o x, w \o y)
            BY <2>4, <3>1, TwinsJoined
        <3> QED BY <3>2 DEF v, w
    <2>9. Twins(FlattenSeq(Upto(p, m + 1)), FlattenSeq(Upto(q, m + 1)))
        BY <2>2, <2>6, <2>7, <2>8, Zenon
    <2>10. AllSequences(Upto(p, m + 1)) /\ AllSequences(Upto(q, m + 1))
        BY <2>2, <2>6, <2>7
    <2> QED BY <2>1, <2>9, <2>10 DEF T
<1> HIDE DEF T
<1>6. n \in T
    BY <1>1, <1>4, <1>5, PrefixInduction
<1>7. Upto(p, n) = p /\ Upto(q, n) = q
    BY <1>2, <1>3, UptoRules DEF n
<1>8. Twins(FlattenSeq(Upto(p, n)), FlattenSeq(Upto(q, n)))
    BY <1>6 DEF T
<1> QED BY <1>7, <1>8, Zenon

\* Twins say the same.
LEMMA TwinsAlike ==
    ASSUME NEW p, NEW x, NEW y, TwinMessages(x, y)
    PROVE  Alike(p, x, y)
<1> DEFINE s == x.blocks
           u == y.blocks
<1>1. x.role = y.role /\ DOMAIN s = DOMAIN u /\ \A j \in DOMAIN s : Twin(s[j], u[j])
    BY DEF TwinMessages, Twins
<1> HIDE DEF s, u
<1>2. Spoken(p, s) = Spoken(p, u)
    <2> DEFINE t(b) == [i \in DOMAIN b |-> IF b[i].kind = "text" THEN b[i].content ELSE <<>>]
               c(b) == [i \in DOMAIN b |-> IF b[i].kind = "call" THEN <<b[i].id>> ELSE <<>>]
               h(b) == [i \in DOMAIN b |-> IF b[i].kind = "think" THEN <<b[i].id>> ELSE <<>>]
    <2>1. \A b : Spoken(p, b) = [role |-> "assistant", text |-> FlattenSeq(t(b)), calls |-> FlattenSeq(c(b)),
                      thinking |-> IF p \in ReplaysThinking THEN FlattenSeq(h(b)) ELSE <<>>]
        BY Zenon DEF Spoken, FlatMap, MapSeq
    <2>2. t(s) = t(u) /\ c(s) = c(u) /\ h(s) = h(u)
        BY <1>1 DEF Twin
    <2> QED BY <2>1, <2>2, Zenon
<1>3. MapSeq(s, LAMBDA b : Stamped(b, FALSE)) = MapSeq(u, LAMBDA b : Stamped(b, FALSE))
    <2>1. /\ MapSeq(s, LAMBDA b : Stamped(b, FALSE)) = [i \in DOMAIN s |-> Stamped(s[i], FALSE)]
          /\ MapSeq(u, LAMBDA b : Stamped(b, FALSE)) = [i \in DOMAIN u |-> Stamped(u[i], FALSE)]
        BY Zenon DEF MapSeq
    <2>2. \A i \in DOMAIN s : Stamped(s[i], FALSE) = Stamped(u[i], FALSE)
        BY <1>1, TwinsBare
    <2>3. [i \in DOMAIN s |-> Stamped(s[i], FALSE)] = [i \in DOMAIN u |-> Stamped(u[i], FALSE)]
        BY <1>1, <2>2
    <2> QED BY <2>1, <2>3, Zenon
<1>4. ASSUME NEW said PROVE Adds(p, said, x) = Adds(p, said, y)
    BY <1>1, <1>2, <1>3, Zenon DEF Adds, s, u
<1> QED BY <1>4 DEF Alike

\* Histories whose messages are twins say the same, after whatever was said.
LEMMA MeaningOfTwins ==
    ASSUME NEW p, NEW h, IsSequence(h), NEW g, IsSequence(g), Meaning(p, h) = Meaning(p, g),
           NEW s, NEW t, TwinHistories(s, t)
    PROVE  Meaning(p, h \o s) = Meaning(p, g \o t)
<1>1. \A i \in DOMAIN s : Alike(p, s[i], t[i])
    BY TwinsAlike DEF TwinHistories
<1>2. IsSequence(s) /\ IsSequence(t) /\ DOMAIN s = DOMAIN t
    BY DEF TwinHistories
<1> QED BY <1>1, <1>2, MeaningJoined

\* The same messages are alike.
LEMMA MeaningThen ==
    ASSUME NEW p, NEW h, IsSequence(h), NEW g, IsSequence(g), Meaning(p, h) = Meaning(p, g),
           NEW s, IsSequence(s)
    PROVE  Meaning(p, h \o s) = Meaning(p, g \o s)
<1>1. \A i \in DOMAIN s : Alike(p, s[i], s[i])
    BY DEF Alike
<1> QED BY <1>1, MeaningJoined

\* Histories that differ in their cache marks alone say the same.
LEMMA TwinsMean ==
    ASSUME NEW p, NEW s, NEW t, TwinHistories(s, t)
    PROVE  Meaning(p, s) = Meaning(p, t)
<1> DEFINE e == <<>>
<1>1. IsSequence(e)
    BY SequenceOne
<1>2. IsSequence(s) /\ IsSequence(t)
    BY DEF TwinHistories
<1>3. e \o s = s /\ e \o t = t
    BY <1>2, JoinRules
<1> HIDE DEF e
<1>4. Meaning(p, e \o s) = Meaning(p, e \o t)
    BY <1>1, MeaningOfTwins
<1> QED BY <1>3, <1>4, Zenon

-----------------------------------------------------------------------------
(* What a message becomes does not depend on what follows it. *)
\* Blocks are their own twins.
LEMMA TwinSelf ==
    ASSUME NEW s, IsSequence(s), \A j \in DOMAIN s : IsBlock(s[j])
    PROVE  Twins(s, s)
BY DEF Twins, Twin

\* A block and its twin, each on its own.
LEMMA TwinOne ==
    ASSUME NEW b, NEW c, Twin(b, c)
    PROVE  Twins(<<b>>, <<c>>)
<1> DEFINE s == <<b>>
           t == <<c>>
<1>1. /\ IsSequence(s) /\ DOMAIN s = {1} /\ s[1] = b
      /\ IsSequence(t) /\ DOMAIN t = {1} /\ t[1] = c
    BY SequenceOne
<1> HIDE DEF s, t
<1>2. Twins(s, t)
    BY <1>1 DEF Twins
<1> QED BY <1>2 DEF s, t

\* A user message is converted to the same blocks last or not, cache marks apart.
LEMMA UserTwins ==
    ASSUME NEW m, IsSequence(m.parts), NEW a \in BOOLEAN, NEW b \in BOOLEAN
    PROVE  Twins(AnthropicUser(m, a), AnthropicUser(m, b))
<1> DEFINE p == [j \in DOMAIN m.parts |-> UserPart(m, a, j)]
           q == [j \in DOMAIN m.parts |-> UserPart(m, b, j)]
<1>1. AnthropicUser(m, a) = FlattenSeq(p) /\ AnthropicUser(m, b) = FlattenSeq(q)
    BY DEF AnthropicUser, UserPart, LastText
<1>2. /\ p = [j \in DOMAIN m.parts |-> p[j]] /\ DOMAIN p = DOMAIN m.parts
      /\ q = [j \in DOMAIN m.parts |-> q[j]] /\ DOMAIN q = DOMAIN m.parts
      /\ \A j \in DOMAIN m.parts : p[j] = UserPart(m, a, j) /\ q[j] = UserPart(m, b, j)
    OBVIOUS
<1>3. ASSUME NEW j \in DOMAIN m.parts PROVE Twins(UserPart(m, a, j), UserPart(m, b, j))
    <2>1. CASE m.parts[j].kind = "text"
        <3> DEFINE t == Text(m.parts[j].text)
                   x == LastText(m, a, j)
                   y == LastText(m, b, j)
        <3>1. x \in BOOLEAN /\ y \in BOOLEAN
            BY DEF LastText
        <3>2. UserPart(m, a, j) = <<Stamped(t, x)>> /\ UserPart(m, b, j) = <<Stamped(t, y)>>
            BY <2>1 DEF UserPart
        <3>3. IsBlock(t)
            BY TextMade DEF NoMark
        <3> HIDE DEF t, x, y
        <3>4. Twin(Stamped(t, x), t) /\ Twin(t, Stamped(t, y))
            BY <3>1, <3>3, TwinStamped
        <3>5. Twin(Stamped(t, x), Stamped(t, y))
            BY <3>4 DEF Twin
        <3>6. Twins(<<Stamped(t, x)>>, <<Stamped(t, y)>>)
            BY <3>5, TwinOne
        <3> QED BY <3>2, <3>6, Zenon
    <2>2. CASE m.parts[j].kind = "result"
        <3> DEFINE t == AnthropicResult(m.parts[j])
        <3>1. UserPart(m, a, j) = <<t>> /\ UserPart(m, b, j) = <<t>>
            BY <2>2 DEF UserPart
        <3>2. IsBlock(t)
            BY BlockMade DEF AnthropicResult, NoMark
        <3> HIDE DEF t
        <3>3. Twins(<<t>>, <<t>>)
            BY <3>2, TwinOne DEF Twin
        <3> QED BY <3>1, <3>3, Zenon
    <2>3. CASE m.parts[j].kind \notin {"text", "result"}
        <3> DEFINE t == AnthropicFile(m.parts[j])
        <3>1. UserPart(m, a, j) = t /\ UserPart(m, b, j) = t
            BY <2>3 DEF UserPart
        <3>2. IsSequence(t) /\ \A k \in DOMAIN t : IsBlock(t[k])
            BY FileMade DEF Plain, NoMark
        <3> HIDE DEF t
        <3>3. Twins(t, t)
            BY <3>2, TwinSelf
        <3> QED BY <3>1, <3>3, Zenon
    <2> QED BY <2>1, <2>2, <2>3
<1> HIDE DEF p, q
<1>4. AllSequences(p) /\ AllSequences(q)
    <2>1. IsSequence(p) /\ IsSequence(q)
        BY <1>2, SequenceMapped
    <2>2. \A j \in DOMAIN m.parts : IsSequence(p[j]) /\ IsSequence(q[j])
        BY <1>2, <1>3 DEF Twins
    <2> QED BY <1>2, <2>1, <2>2 DEF AllSequences
<1>5. Twins(FlattenSeq(p), FlattenSeq(q))
    BY <1>2, <1>3, <1>4, TwinsFlattened
<1> QED BY <1>1, <1>5, Zenon

\* What Anthropic is sent for one message, last or not.
SentFor(m, isLast) ==
    [role |-> m.role,
     blocks |-> IF m.role = "user" THEN AnthropicUser(m, isLast) ELSE AnthropicAssistant(m)]

\* So is any message.
LEMMA SentTwins ==
    ASSUME NEW m, IsSequence(m.parts), NEW a \in BOOLEAN, NEW b \in BOOLEAN
    PROVE  TwinMessages(SentFor(m, a), SentFor(m, b))
<1>1. CASE m.role = "user"
    <2>1. Twins(AnthropicUser(m, a), AnthropicUser(m, b))
        BY UserTwins
    <2> QED BY <1>1, <2>1 DEF SentFor, TwinMessages
<1>2. CASE m.role # "user"
    <2> DEFINE t == AnthropicAssistant(m)
    <2>1. IsSequence(t) /\ \A k \in DOMAIN t : IsBlock(t[k])
        BY AssistantMade DEF Plain, NoMark
    <2> HIDE DEF t
    <2>2. Twins(t, t)
        BY <2>1, TwinSelf
    <2> QED BY <1>2, <2>2 DEF SentFor, TwinMessages, t
<1> QED BY <1>1, <1>2

\* AnthropicMessages converts message by message; only the last is treated as last.
LEMMA AnthropicEach ==
    ASSUME NEW ms
    PROVE  AnthropicMessages(ms) = [i \in DOMAIN ms |-> SentFor(ms[i], i = Len(ms))]
BY DEF AnthropicMessages, SentFor

\* A message on its own is the last.
LEMMA AnthropicOne ==
    ASSUME NEW m
    PROVE  AnthropicMessages(<<m>>) = <<SentFor(m, TRUE)>>
<1> DEFINE o == <<m>>
           f == AnthropicMessages(o)
           x == SentFor(m, TRUE)
           w == <<x>>
<1>1. /\ IsSequence(o) /\ DOMAIN o = {1} /\ o[1] = m /\ Len(o) = 1
      /\ IsSequence(w) /\ DOMAIN w = {1} /\ w[1] = x
    BY SequenceOne
<1>2. f = [i \in DOMAIN o |-> SentFor(o[i], i = Len(o))]
    BY AnthropicEach
<1> HIDE DEF o, f, w
<1>3. /\ f = [i \in DOMAIN o |-> f[i]] /\ DOMAIN f = {1}
      /\ f[1] = SentFor(m, 1 = 1)
    BY <1>1, <1>2
<1>4. (1 = 1) = TRUE
    OBVIOUS
<1>5. f[1] = x
    BY <1>3, <1>4
<1>6. IsSequence(f)
    BY <1>1, <1>3, SequenceMapped
<1> HIDE DEF x
<1>7. DOMAIN f = DOMAIN w /\ \A i \in DOMAIN f : f[i] = w[i]
    BY <1>1, <1>3, <1>5
<1>8. f = w
    BY <1>1, <1>6, <1>7, SequenceSame
<1> QED BY <1>8 DEF f, w, o, x

\* A transcript with one more message is converted, cache marks apart, to what it was
\* converted to and what the message is converted to.
LEMMA AnthropicAppended ==
    ASSUME NEW ms, IsTranscript(ms), NEW m, IsSequence(m.parts)
    PROVE  TwinHistories(AnthropicMessages(Append(ms, m)),
                         AnthropicMessages(ms) \o AnthropicMessages(<<m>>))
<1> DEFINE n == Len(ms)
           next == Append(ms, m)
           h == AnthropicMessages(next)
           a == AnthropicMessages(ms)
           b == AnthropicMessages(<<m>>)
           x == SentFor(m, TRUE)
<1>1. IsSequence(ms) /\ n \in Nat /\ DOMAIN ms = 1..n
    BY SequenceRules DEF IsTranscript
<1>2. /\ IsSequence(next) /\ DOMAIN next = 1..(n + 1)
      /\ \A i \in DOMAIN ms : next[i] = ms[i]
      /\ next[n + 1] = m
    BY <1>1, SequenceAppended
<1>3. Len(next) = n + 1
    BY <1>1, <1>2, LengthIs
<1>4. \A i \in DOMAIN ms : IsSequence(ms[i].parts)
    BY DEF IsTranscript
<1>5. h = [i \in DOMAIN next |-> SentFor(next[i], i = Len(next))]
    BY AnthropicEach
<1>6. a = [i \in DOMAIN ms |-> SentFor(ms[i], i = n)]
    BY AnthropicEach
<1>7. b = <<x>>
    BY AnthropicOne
<1> HIDE DEF n, next, h, a, b, x
<1>8. /\ h = [i \in DOMAIN next |-> h[i]] /\ DOMAIN h = 1..(n + 1)
      /\ \A i \in DOMAIN next : h[i] = SentFor(next[i], i = n + 1)
      /\ a = [i \in DOMAIN ms |-> a[i]] /\ DOMAIN a = 1..n
      /\ \A i \in DOMAIN ms : a[i] = SentFor(ms[i], i = n)
    BY <1>1, <1>2, <1>3, <1>5, <1>6
<1>9. IsSequence(h) /\ IsSequence(a) /\ Len(a) = n
    BY <1>1, <1>2, <1>8, SequenceMapped DEF n
<1>10. IsSequence(b) /\ DOMAIN b = {1} /\ b[1] = x /\ Len(b) = 1
    BY <1>7, SequenceOne
<1>11. /\ IsSequence(a \o b) /\ DOMAIN (a \o b) = 1..(n + 1)
       /\ \A i \in 1..n : (a \o b)[i] = a[i]
       /\ (a \o b)[n + 1] = x
    <2>1. /\ IsSequence(a \o b) /\ DOMAIN (a \o b) = 1..(Len(a) + Len(b))
          /\ \A i \in DOMAIN a : (a \o b)[i] = a[i]
          /\ \A i \in DOMAIN (a \o b) \ DOMAIN a : (a \o b)[i] = b[i - Len(a)]
        BY <1>9, <1>10, SequenceJoined
    <2>2. n + 1 \in DOMAIN (a \o b) \ DOMAIN a /\ (n + 1) - n = 1
        BY <1>1, <1>8, <1>9, <1>10, <2>1
    <2> QED BY <1>8, <1>9, <1>10, <2>1, <2>2
<1> DEFINE g == a \o b
<1> HIDE DEF g
<1>12. ASSUME NEW i \in DOMAIN h PROVE TwinMessages(h[i], g[i])
    <2>1. CASE i \in 1..n
        <3>1. h[i] = SentFor(ms[i], i = n + 1) /\ g[i] = SentFor(ms[i], i = n)
            BY <1>1, <1>2, <1>8, <1>11, <2>1 DEF g
        <3>2. (i = n + 1) \in BOOLEAN /\ (i = n) \in BOOLEAN
            OBVIOUS
        <3> DEFINE u == i = n + 1
                   v == i = n
        <3> HIDE DEF u, v
        <3>3. TwinMessages(SentFor(ms[i], u), SentFor(ms[i], v))
            BY <1>1, <1>4, <2>1, <3>2, SentTwins DEF u, v
        <3> QED BY <3>1, <3>3 DEF u, v
    <2>2. CASE i = n + 1
        <3>1. h[i] = SentFor(m, i = n + 1) /\ g[i] = SentFor(m, TRUE)
            BY <1>1, <1>2, <1>8, <1>11, <2>2 DEF g, x
        <3>2. (i = n + 1) = TRUE
            BY <2>2
        <3>3. TwinMessages(SentFor(m, TRUE), SentFor(m, TRUE))
            BY SentTwins
        <3> QED BY <3>1, <3>2, <3>3
    <2> QED BY <1>1, <1>8, <2>1, <2>2
<1>13. IsSequence(g) /\ DOMAIN g = DOMAIN h
    BY <1>8, <1>11 DEF g
<1>14. TwinHistories(h, g)
    BY <1>9, <1>12, <1>13 DEF TwinHistories
<1> QED BY <1>14 DEF h, g, a, b, next

\* Marks that are wiped leave a twin.
LEMMA WipedTwins ==
    ASSUME NEW h, IsHistory(h), NEW kinds
    PROVE  TwinHistories(Wiped(h, kinds), h)
<1> DEFINE W == Wiped(h, kinds)
           b(i) == [j \in DOMAIN h[i].blocks |->
                       IF h[i].blocks[j].kind \in kinds THEN Stamped(h[i].blocks[j], FALSE)
                       ELSE h[i].blocks[j]]
<1>1. IsSequence(h) /\ IsSequence(W) /\ DOMAIN W = DOMAIN h
    BY WipedMade DEF IsHistory
<1>2. ASSUME NEW i \in DOMAIN h PROVE TwinMessages(W[i], h[i])
    <2> DEFINE c == b(i)
               g == h[i]
    <2>1. /\ g = [role |-> g.role, blocks |-> g.blocks]
          /\ IsSequence(g.blocks) /\ \A j \in DOMAIN g.blocks : IsBlock(g.blocks[j])
        BY DEF IsHistory, IsMessage
    <2>2. W[i] = [g EXCEPT !.blocks = c]
        BY DEF Wiped
    <2>3. c = [j \in DOMAIN g.blocks |-> c[j]]
        OBVIOUS
    <2>4. \A j \in DOMAIN g.blocks :
              c[j] = IF g.blocks[j].kind \in kinds THEN Stamped(g.blocks[j], FALSE)
                     ELSE g.blocks[j]
        OBVIOUS
    <2> HIDE DEF W, c, g
    <2>5. W[i].role = g.role /\ W[i].blocks = c
        BY <2>1, <2>2
    <2>6. IsSequence(c) /\ DOMAIN c = DOMAIN g.blocks
        BY <2>1, <2>3, SequenceMapped
    <2>7. \A j \in DOMAIN c : Twin(c[j], g.blocks[j])
        BY <2>1, <2>4, <2>6, TwinStamped
    <2>8. Twins(c, g.blocks)
        BY <2>1, <2>6, <2>7 DEF Twins
    <2> QED BY <2>5, <2>8 DEF TwinMessages, g
<1> HIDE DEF W
<1>3. TwinHistories(W, h)
    BY <1>1, <1>2 DEF TwinHistories
<1> QED BY <1>3 DEF W

-----------------------------------------------------------------------------
(* The results of the tools. *)
AreResults(o) == /\ IsSequence(o) /\ o # <<>>
                 /\ \A k \in DOMAIN o : o[k].kind = "result"

\* Results make a message of results, which expanding files leaves as it is.
LEMMA ResultsRules ==
    ASSUME NEW o, AreResults(o)
    PROVE  /\ IsResults(Message("user", o))
           /\ 1 \in DOMAIN o
           /\ Parts(o, "result") = o
           /\ \A fileNames : ExpandFileParts(o, fileNames) = o
<1>1. IsSequence(o) /\ Len(o) \in Nat /\ DOMAIN o = 1..Len(o) /\ o = [i \in DOMAIN o |-> o[i]]
    BY SequenceRules DEF AreResults
<1>2. 1 \in DOMAIN o
    <2>1. Len(o) # 0
        <3>1. ASSUME Len(o) = 0 PROVE FALSE
            <4> DEFINE e == <<>>
            <4>1. IsSequence(e) /\ DOMAIN e = {} /\ DOMAIN o = {}
                BY <1>1, <3>1, SequenceOne
            <4> HIDE DEF e
            <4>2. o = e
                BY <1>1, <4>1, SequenceSame
            <4> QED BY <4>2 DEF AreResults, e
        <3> QED BY <3>1
    <2> QED BY <1>1, <2>1
<1>3. IsResults(Message("user", o))
    BY <1>2 DEF IsResults, Message, AreResults
<1>4. \A fileNames : ExpandFileParts(o, fileNames) = o
    BY ExpandedSame DEF AreResults
<1>5. Parts(o, "result") = o
    <2> DEFINE D == Range(o)
               T == {x \in D : x.kind = "result"}
               F == Picks(T, D)
               g == [x \in D |-> x]
    <2>1. Within(o, D) /\ \A i \in DOMAIN o : o[i] \in D
        BY <1>1, WithinRange DEF Within
    <2>2. Parts(o, "result") = Over(F, o)
        BY <2>1, PartsOver
    <2>3. \A i \in DOMAIN o : F[o[i]] = <<g[o[i]]>> /\ g[o[i]] = o[i]
        BY <2>1 DEF Picks, AreResults
    <2> HIDE DEF D, T, F, g
    <2>4. Over(F, o) = Mapped(g, o)
        BY <1>1, <2>3, OverMapped, ZenonT(40)
    <2>5. Mapped(g, o) = [i \in DOMAIN o |-> o[i]]
        BY <2>3 DEF Mapped
    <2> QED BY <1>1, <2>2, <2>4, <2>5, Zenon
<1> QED BY <1>2, <1>3, <1>4, <1>5

\* The mark on the last result is all that Anthropic's Observe adds to them.
LEMMA OutcomesTwins ==
    ASSUME NEW o, AreResults(o)
    PROVE  TwinHistories(AnthropicOutcomes(o), AnthropicMessages(<<Message("user", o)>>))
<1> DEFINE m == Message("user", o)
           s == [k \in DOMAIN o |-> Stamped(AnthropicResult(o[k]), k = Len(o))]
           t == [k \in DOMAIN o |-> AnthropicResult(o[k])]
           x == [role |-> "user", blocks |-> s]
           y == [role |-> "user", blocks |-> t]
<1>1. m.role = "user" /\ m.parts = o /\ IsSequence(o)
    BY DEF Message, AreResults
<1>2. AnthropicOutcomes(o) = <<x>>
    BY Zenon DEF AnthropicOutcomes, AnthropicResult
<1>3. AnthropicMessages(<<m>>) = <<SentFor(m, TRUE)>>
    BY AnthropicOne
<1>4. AnthropicUser(m, TRUE) = t
    <2> DEFINE f == [j \in DOMAIN o |-> UserPart(m, TRUE, j)]
               D == Range(o)
               F == [r \in D |-> <<AnthropicResult(r)>>]
               g == [r \in D |-> AnthropicResult(r)]
    <2>1. AnthropicUser(m, TRUE) = FlattenSeq(f)
        BY <1>1 DEF AnthropicUser, UserPart, LastText
    <2>2. \A j \in DOMAIN o : UserPart(m, TRUE, j) = <<AnthropicResult(o[j])>>
        BY <1>1 DEF UserPart, AreResults
    <2>3. \A j \in DOMAIN o : o[j] \in D
        BY DEF Range
    <2>4. \A r \in D : F[r] = <<AnthropicResult(r)>> /\ g[r] = AnthropicResult(r)
        OBVIOUS
    <2> HIDE DEF D, F, g
    <2>5. f = [j \in DOMAIN o |-> F[o[j]]]
        BY <2>2, <2>3, <2>4
    <2>6. \A j \in DOMAIN o : F[o[j]] = <<g[o[j]]>>
        BY <2>3, <2>4
    <2>7. Over(F, o) = Mapped(g, o)
        BY <1>1, <2>6, OverMapped
    <2>8. Mapped(g, o) = t
        BY <2>3, <2>4 DEF Mapped
    <2> QED BY <2>1, <2>5, <2>7, <2>8, Zenon DEF Over
<1>5. SentFor(m, TRUE) = y
    BY <1>1, <1>4, Zenon DEF SentFor
<1>6. /\ s = [k \in DOMAIN o |-> s[k]] /\ t = [k \in DOMAIN o |-> t[k]]
      /\ \A k \in DOMAIN o : s[k] = Stamped(AnthropicResult(o[k]), k = Len(o))
                             /\ t[k] = AnthropicResult(o[k])
    OBVIOUS
<1>7. \A r : IsBlock(AnthropicResult(r))
    BY BlockMade DEF AnthropicResult, NoMark
<1>8. x.role = y.role /\ x.blocks = s /\ y.blocks = t
    OBVIOUS
<1> HIDE DEF s, t, m
<1>9. Twins(s, t)
    <2>1. IsSequence(s) /\ IsSequence(t) /\ DOMAIN s = DOMAIN o /\ DOMAIN t = DOMAIN o
        BY <1>1, <1>6, SequenceMapped
    <2>2. ASSUME NEW k \in DOMAIN o PROVE Twin(s[k], t[k])
        <3> DEFINE b == AnthropicResult(o[k])
                   cc == k = Len(o)
        <3>1. IsBlock(b) /\ cc \in BOOLEAN /\ s[k] = Stamped(b, cc) /\ t[k] = b
            BY <1>6, <1>7
        <3> HIDE DEF b, cc
        <3>2. Twin(Stamped(b, cc), b)
            BY <3>1, TwinStamped
        <3> QED BY <3>1, <3>2
    <2> QED BY <2>1, <2>2 DEF Twins
<1> HIDE DEF x, y
<1>10. TwinMessages(x, y)
    BY <1>8, <1>9 DEF TwinMessages
<1> DEFINE u == <<x>>
           v == <<y>>
<1>11. /\ IsSequence(u) /\ DOMAIN u = {1} /\ u[1] = x
       /\ IsSequence(v) /\ DOMAIN v = {1} /\ v[1] = y
    BY SequenceOne
<1> HIDE DEF u, v
<1>12. TwinHistories(u, v)
    BY <1>10, <1>11 DEF TwinHistories
<1> QED BY <1>2, <1>3, <1>5, <1>12, Zenon DEF u, v, m

-----------------------------------------------------------------------------
(* What the Responses API items of a transcript say. *)
\* What all members of the members belong to.
LEMMA FlattenWithin ==
    ASSUME NEW q, AllSequences(q), NEW S,
           \A i \in DOMAIN q : \A k \in DOMAIN q[i] : q[i][k] \in S
    PROVE  \A k \in DOMAIN FlattenSeq(q) : FlattenSeq(q)[k] \in S
<1>1. IsSequence(q) /\ Len(q) \in Nat /\ DOMAIN q = 1..Len(q) /\ q = [i \in DOMAIN q |-> q[i]]
    BY SequenceRules DEF AllSequences
<1>2. ASSUME NEW i \in DOMAIN q PROVE q[i] \in Seq(S)
    <2> DEFINE t == q[i]
    <2>1. t \in Seq(Range(t))
        BY SequenceRules DEF AllSequences
    <2>2. Range(t) \subseteq S
        BY DEF Range
    <2> HIDE DEF t
    <2>3. t \in Seq(S)
        BY <2>1, <2>2, SeqMonotonic
    <2> QED BY <2>3 DEF t
<1>3. q \in Seq(Seq(S))
    <2>1. q \in [1..Len(q) -> Seq(S)]
        BY <1>1, <1>2
    <2> QED BY <1>1, <2>1
<1>4. FlattenSeq(q) \in Seq(S)
    BY <1>3, FlattenPlaced
<1> DEFINE f == FlattenSeq(q)
<1> HIDE DEF f
<1>5. f \in Seq(S)
    BY <1>4 DEF f
<1>6. \A k \in DOMAIN f : f[k] \in S
    BY <1>5
<1> QED BY <1>6 DEF f

\* What the assistant said in a transcript has texts that are snippets.
WordedTranscript(ms) ==
    \A i \in DOMAIN ms : ms[i].role # "user" => WordedParts(ms[i].parts)

\* What the assistant's items for OpenAI say is a turn of the assistant.
LEMMA ItemsWorded ==
    ASSUME NEW m, IsSequence(m.parts), m.role # "user" => WordedParts(m.parts),
           NEW k \in DOMAIN OpenAIMessage(m), OpenAIMessage(m)[k].role = "assistant"
    PROVE  IsSpeech(Spoken("openai", OpenAIMessage(m)[k].blocks))
<1>1. CASE m.role = "user" /\ IsResults(m)
    <2>1. OpenAIMessage(m) = MapSeq(m.parts, LAMBDA r : FunctionCallOutput(r.id, Told(r), Brought(r)))
        BY <1>1 DEF OpenAIMessage
    <2>2. OpenAIMessage(m)
              = [i \in DOMAIN m.parts |-> FunctionCallOutput(m.parts[i].id, Told(m.parts[i]), Brought(m.parts[i]))]
        BY <2>1, Zenon DEF MapSeq
    <2>3. \A a, b, c : FunctionCallOutput(a, b, c).role = "tool"
        BY DEF FunctionCallOutput, Item
    <2> QED BY <2>2, <2>3
<1>2. CASE m.role = "user" /\ ~IsResults(m)
    <2>1. OpenAIMessage(m) = <<AsBlocks(m, TRUE)>>
        BY <1>2 DEF OpenAIMessage
    <2>2. AsBlocks(m, TRUE).role = "user"
        BY <1>2 DEF AsBlocks
    <2> DEFINE b == AsBlocks(m, TRUE)
    <2> HIDE DEF b
    <2>3. b.role = "user" /\ OpenAIMessage(m) = <<b>>
        BY <2>1, <2>2 DEF b
    <2> QED BY <2>3
<1>3. CASE m.role # "user"
    <2> DEFINE bs == TextOrNone(JoinedText(m.parts)) \o Calls(m.parts)
    <2>1. OpenAIMessage(m) = MapSeq(bs, LAMBDA b : Item("assistant", b))
        BY <1>3 DEF OpenAIMessage
    <2>2. WordedBlocks(bs)
        BY <1>3, PartsSpoken
    <2> HIDE DEF bs
    <2>3. OpenAIMessage(m) = [i \in DOMAIN bs |-> Item("assistant", bs[i])]
        BY <2>1, Zenon DEF MapSeq
    <2> DEFINE b == bs[k]
               o == <<b>>
    <2>4. k \in DOMAIN bs /\ OpenAIMessage(m)[k].blocks = o
        BY <2>3 DEF Item
    <2>5. b.kind = "text" => IsSequence(b.content)
        BY <2>2, <2>4 DEF WordedBlocks
    <2>6. IsSequence(o) /\ DOMAIN o = {1} /\ o[1] = b
        BY SequenceOne
    <2> HIDE DEF o, b
    <2>7. WordedBlocks(o)
        BY <2>5, <2>6 DEF WordedBlocks
    <2>8. IsSpeech(Spoken("openai", o))
        BY <2>7, SpokenMade
    <2> QED BY <2>4, <2>8, Zenon
<1> QED BY <1>1, <1>2, <1>3

-----------------------------------------------------------------------------
(* A conversation and its transcript. *)
\* A transcript stays well formed when a message is added to it.
LEMMA WordedAppended ==
    ASSUME NEW ms, IsTranscript(ms), WordedTranscript(ms), NEW role, NEW parts,
           role # "user" => WordedParts(parts)
    PROVE  WordedTranscript(Append(ms, Message(role, parts)))
<1> DEFINE m == Message(role, parts)
<1>1. m.role = role /\ m.parts = parts
    BY DEF Message
<1>2. IsSequence(ms)
    BY DEF IsTranscript
<1>3. DOMAIN ms = 1..Len(ms) /\ Len(ms) \in Nat
    BY <1>2, SequenceRules
<1> HIDE DEF m
<1> DEFINE next == Append(ms, m)
<1>4. /\ DOMAIN next = 1..(Len(ms) + 1)
      /\ \A i \in DOMAIN ms : next[i] = ms[i]
      /\ next[Len(ms) + 1] = m
    BY <1>2, SequenceAppended
<1> HIDE DEF next
<1>5. \A i \in DOMAIN next : i \in DOMAIN ms \/ i = Len(ms) + 1
    BY <1>3, <1>4
<1>6. WordedTranscript(next)
    BY <1>1, <1>4, <1>5 DEF WordedTranscript
<1> QED BY <1>6 DEF next, m
=============================================================================
