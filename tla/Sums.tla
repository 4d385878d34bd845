----------------------------------- MODULE Sums -----------------------------------
(***************************************************************************)
(* What a sum over a finite set is: facts about SumFunctionOnSet of the    *)
(* community modules that the proofs about balances, reservations and      *)
(* journals cite.  SumFunctionOnSet folds with a function that CHOOSE      *)
(* picks; after the inductions of the first part the second shows that     *)
(* there is such a function, and the third how a sum changes with its set  *)
(* and with the values it adds up.                                         *)
(***************************************************************************)
EXTENDS Integers, FiniteSetsExt, Functions, FiniteSetTheorems, TLAPS

-----------------------------------------------------------------------------
(* Induction.                                                               *)

\* Induction over a finite set: if some subsets of it are bad, a smallest one is.
LEMMA SetInduction ==
  ASSUME NEW S, IsFiniteSet(S), NEW Bad \in SUBSET (SUBSET S), Bad # {}
  PROVE  \E T \in Bad : \A U \in SUBSET T : U # T => U \notin Bad
<1>1. IsWellFoundedOn(StrictSubsetOrdering(S), SUBSET S)
  BY FS_StrictSubsetOrderingWellFounded, FS_FiniteSubsetsOfFinite
<1>2. PICK T \in Bad : \A U \in Bad : ~ (<<U, T>> \in StrictSubsetOrdering(S))
  BY <1>1, WFMin
<1> QED BY <1>2 DEF StrictSubsetOrdering

\* Induction over numbers: if some are bad, one of them is the smallest.
LEMMA SmallestNumber ==
  ASSUME NEW Bad \in SUBSET Nat, Bad # {}
  PROVE  \E n \in Bad : \A m \in Bad : n <= m
<1>1. PICK b \in Bad : b \in Nat
  OBVIOUS
<1> DEFINE Starts == { T \in SUBSET (0..b) : \E n \in Bad : T = 0..n }
<1>2. PICK T \in Starts : \A U \in SUBSET T : U # T => U \notin Starts
  <2>1. 0..b \in Starts
    BY <1>1
  <2>2. Starts \in SUBSET (SUBSET (0..b)) /\ Starts # {}
    BY <2>1
  <2>3. IsFiniteSet(0..b)
    BY <1>1, FS_Interval
  <2> HIDE DEF Starts
  <2> QED BY ZenonT(40), <2>2, <2>3, SetInduction
<1>3. PICK n \in Bad : T = 0..n
  BY <1>2
<1>4. ASSUME NEW m \in Bad, m < n PROVE FALSE
  <2>1. 0..m \subseteq T /\ n \in T /\ n \notin 0..m
    BY <1>3, <1>4
  <2>2. 0..m \in Starts
    BY <1>2, <1>4, <2>1
  <2> QED BY <1>2, <2>1, <2>2
<1>5. \A m \in Bad : n <= m
  BY <1>4
<1> QED BY <1>5

\* A finite set of numbers has a largest one.
LEMMA MaxIsThere ==
  ASSUME NEW S, IsFiniteSet(S), S \subseteq Int, S # {}
  PROVE  Max(S) \in S /\ \A y \in S : Max(S) >= y
<1> DEFINE Bad == { T \in SUBSET S : T # {} /\ ~ \E x \in T : \A y \in T : x >= y }
<1>1. Bad = {}
  <2> SUFFICES ASSUME Bad # {} PROVE FALSE
    OBVIOUS
  <2>1. PICK T \in Bad : \A U \in SUBSET T : U # T => U \notin Bad
    <3>1. Bad \in SUBSET (SUBSET S)
      OBVIOUS
    <3> HIDE DEF Bad
    <3> QED BY <3>1, SetInduction
  <2>2. PICK x \in T : TRUE
    OBVIOUS
  <2>3. T \ {x} \notin Bad /\ T \ {x} \in SUBSET S /\ T \subseteq Int
    BY <2>1, <2>2
  <2>4. CASE T \ {x} = {}
    <3>1. \A y \in T : y = x
      BY <2>4
    <3> QED BY <2>2, <2>3, <3>1
  <2>5. CASE T \ {x} # {}
    <3>1. PICK m \in T \ {x} : \A y \in T \ {x} : m >= y
      BY <2>3, <2>5
    <3>2. CASE x >= m
      <4>1. \A y \in T : x >= y
        BY <2>2, <2>3, <3>1, <3>2
      <4> QED BY <2>2, <4>1
    <3>3. CASE m >= x
      <4>1. \A y \in T : m >= y
        BY <2>2, <2>3, <3>1, <3>3
      <4> QED BY <3>1, <4>1
    <3> QED BY <2>2, <2>3, <3>1, <3>2, <3>3
  <2> QED BY <2>4, <2>5
<1>2. \E x \in S : \A y \in S : x >= y
  BY <1>1
<1> QED BY <1>2 DEF Max

\* The places of a sequence that a fold goes over, the last one last.
Places(S) == IsFiniteSet(S) /\ S \subseteq Int

LEMMA LastIsLess ==
  ASSUME NEW S, Places(S)
  PROVE  /\ \A R \in SUBSET S : Places(R)
         /\ S # {} => Max(S) \in S /\ S \ {Max(S)} \subseteq S /\ S \ {Max(S)} # S
<1>1. S # {} => Max(S) \in S
  BY MaxIsThere DEF Places
<1>2. \A R \in SUBSET S : Places(R)
  BY FS_Subset DEF Places
<1> QED BY <1>1, <1>2

-----------------------------------------------------------------------------
(* The function behind a sum, given on the subsets of S.                   *)

Chosen(T) == CHOOSE x \in T : TRUE
Sums(h, f, S) ==
  h = [T \in SUBSET S |-> IF T = {} THEN 0 ELSE f[Chosen(T)] + h[T \ {Chosen(T)}]]

\* A sum is the value of some such function.
LEMMA SumIsChosen ==
  ASSUME NEW f, NEW S
  PROVE  SumFunctionOnSet(f, S) = (CHOOSE h : Sums(h, f, S))[S]
BY DEF SumFunctionOnSet, FoldFunctionOnSet, MapThenFoldSet, Sums, Chosen

\* A function that sums over the subsets of T and one that sums over those of U
\* agree where both do.
LEMMA SumsAgree ==
  ASSUME NEW f, NEW T, NEW U, NEW h, NEW k, NEW S, IsFiniteSet(S), S \subseteq T, S \subseteq U,
         Sums(h, f, T), Sums(k, f, U)
  PROVE  h[S] = k[S]
<1> DEFINE Bad == { R \in SUBSET S : h[R] # k[R] }
<1> SUFFICES ASSUME Bad # {} PROVE FALSE
  OBVIOUS
<1>1. PICK R \in Bad : \A Q \in SUBSET R : Q # R => Q \notin Bad
  <2>1. Bad \in SUBSET (SUBSET S)
    OBVIOUS
  <2> HIDE DEF Bad
  <2> QED BY <2>1, SetInduction
<1>2. R # {}
  BY DEF Sums
<1>3. Chosen(R) \in R
  BY <1>2 DEF Chosen
<1>4. R \ {Chosen(R)} \in SUBSET R /\ R \ {Chosen(R)} # R
  BY <1>3
<1>5. h[R \ {Chosen(R)}] = k[R \ {Chosen(R)}]
  BY <1>1, <1>4
<1>6. h[R] = f[Chosen(R)] + h[R \ {Chosen(R)}] /\ k[R] = f[Chosen(R)] + k[R \ {Chosen(R)}]
  BY <1>2 DEF Sums
<1> QED BY <1>5, <1>6

Summed(f, S) == (CHOOSE h : Sums(h, f, S))[S]

\* There is such a function for every finite set.
LEMMA SumsExist ==
  ASSUME NEW f, NEW S, IsFiniteSet(S)
  PROVE  \E h : Sums(h, f, S)
<1> DEFINE Bad == { T \in SUBSET S : ~ \E h : Sums(h, f, T) }
<1> SUFFICES ASSUME Bad # {} PROVE FALSE
  OBVIOUS
<1>1. PICK T \in Bad : \A U \in SUBSET T : U # T => U \notin Bad
  <2>1. Bad \in SUBSET (SUBSET S)
    OBVIOUS
  <2> HIDE DEF Bad
  <2> QED BY <2>1, SetInduction
<1> DEFINE h == [U \in SUBSET T |->
                   IF U = {} THEN 0 ELSE f[Chosen(U)] + Summed(f, U \ {Chosen(U)})]
<1>2. ASSUME NEW U \in SUBSET T, U # T
      PROVE  Summed(f, U) = h[U]
  <2> DEFINE k == CHOOSE k : Sums(k, f, U)
             c == Chosen(U)
             V == U \ {c}
             l == CHOOSE l : Sums(l, f, V)
  <2>1. Sums(k, f, U)
    BY <1>1, <1>2
  <2>2. CASE U = {}
    BY <2>1, <2>2 DEF Sums, Summed
  <2>3. CASE U # {}
    <3>1. c \in U
      BY <2>3 DEF Chosen
    <3>2. V \in SUBSET T /\ V # T /\ IsFiniteSet(V)
      BY <3>1, <1>2, FS_Subset
    <3>3. Sums(l, f, V)
      BY <1>1, <3>2
    <3>4. k[V] = l[V]
      <4> HIDE DEF k, l, V
      <4> QED BY <2>1, <3>2, <3>3, SumsAgree DEF V
    <3>5. k[U] = f[c] + k[V]
      BY <2>1, <2>3 DEF Sums
    <3> QED BY <3>4, <3>5, <2>3 DEF Summed
  <2> QED BY <2>2, <2>3
<1>3. Sums(h, f, T)
  <2> SUFFICES ASSUME NEW U \in SUBSET T, U # {}
               PROVE  h[U] = f[Chosen(U)] + h[U \ {Chosen(U)}]
    BY DEF Sums
  <2>1. Chosen(U) \in U
    BY DEF Chosen
  <2>2. U \ {Chosen(U)} \in SUBSET T /\ U \ {Chosen(U)} # T
    BY <2>1
  <2>3. Summed(f, U \ {Chosen(U)}) = h[U \ {Chosen(U)}]
    BY <2>2, <1>2
  <2> QED BY <2>3
<1> QED BY <1>1, <1>3

-----------------------------------------------------------------------------
(* What the other proof modules cite.                                       *)

\* The sum over no elements is zero.
LEMMA SumEmpty ==
  ASSUME NEW f
  PROVE  SumFunctionOnSet(f, {}) = 0
<1>1. PICK h : Sums(h, f, {})
  BY SumsExist, FS_EmptySet
<1>2. Sums(CHOOSE k : Sums(k, f, {}), f, {})
  BY <1>1
<1> QED BY <1>2, SumIsChosen DEF Sums

\* A sum over a set that is not empty takes out the chosen element first.
LEMMA SumStep ==
  ASSUME NEW f, NEW S, IsFiniteSet(S), S # {}
  PROVE  SumFunctionOnSet(f, S) = f[Chosen(S)] + SumFunctionOnSet(f, S \ {Chosen(S)})
<1> DEFINE c == Chosen(S)
           R == S \ {c}
           k == CHOOSE h : Sums(h, f, S)
           l == CHOOSE h : Sums(h, f, R)
<1>1. c \in S /\ R \subseteq S
  BY DEF Chosen
<1>2. IsFiniteSet(R)
  BY <1>1, FS_Subset
<1>3. Sums(k, f, S) /\ Sums(l, f, R)
  <2>1. (\E h : Sums(h, f, S)) /\ (\E h : Sums(h, f, R))
    <3> HIDE DEF R
    <3> QED BY <1>2, SumsExist
  <2> QED BY <2>1
<1>4. k[R] = l[R]
  <2> HIDE DEF k, l, R
  <2> QED BY <1>1, <1>2, <1>3, SumsAgree
<1>5. k[S] = f[c] + k[R]
  BY <1>3 DEF Sums
<1>6. SumFunctionOnSet(f, S) = k[S]
  BY SumIsChosen
<1>7. SumFunctionOnSet(f, R) = l[R]
  <2> HIDE DEF R
  <2> QED BY SumIsChosen
<1> QED BY <1>4, <1>5, <1>6, <1>7

\* What is one element fewer is a smaller finite set, and the chosen element is
\* one of the set's own.
LEMMA OneFewer ==
  ASSUME NEW S, IsFiniteSet(S), S # {}
  PROVE  /\ Chosen(S) \in S
         /\ \A x \in S : S \ {x} \subseteq S /\ S \ {x} # S /\ IsFiniteSet(S \ {x})
BY FS_Subset DEF Chosen

\* A sum of integers is an integer.
LEMMA SumInt ==
  ASSUME NEW f, NEW S, IsFiniteSet(S), \A x \in S : f[x] \in Int
  PROVE  SumFunctionOnSet(f, S) \in Int
<1> DEFINE Bad == { T \in SUBSET S : SumFunctionOnSet(f, T) \notin Int }
<1> SUFFICES ASSUME Bad # {} PROVE FALSE
  OBVIOUS
<1>1. PICK T \in Bad : \A U \in SUBSET T : U # T => U \notin Bad
  <2>1. Bad \in SUBSET (SUBSET S)
    OBVIOUS
  <2> HIDE DEF Bad
  <2> QED BY <2>1, SetInduction
<1>2. T \subseteq S /\ IsFiniteSet(T) /\ T # {}
  <2>1. SumFunctionOnSet(f, {}) \in Int
    BY SumEmpty
  <2> QED BY <2>1, FS_Subset
<1>3. Chosen(T) \in T /\ T \ {Chosen(T)} \subseteq T /\ T \ {Chosen(T)} # T
  BY <1>2, OneFewer
<1>4. SumFunctionOnSet(f, T \ {Chosen(T)}) \in Int
  BY <1>1, <1>2, <1>3
<1>5. SumFunctionOnSet(f, T) = f[Chosen(T)] + SumFunctionOnSet(f, T \ {Chosen(T)})
  BY <1>2, SumStep
<1> QED BY <1>2, <1>3, <1>4, <1>5

\* A sum depends on the values at the elements of its set only.
LEMMA SumSame ==
  ASSUME NEW f, NEW g, NEW S, IsFiniteSet(S), \A x \in S : f[x] = g[x]
  PROVE  SumFunctionOnSet(f, S) = SumFunctionOnSet(g, S)
<1> DEFINE Bad == { T \in SUBSET S : SumFunctionOnSet(f, T) # SumFunctionOnSet(g, T) }
<1> SUFFICES ASSUME Bad # {} PROVE FALSE
  OBVIOUS
<1>1. PICK T \in Bad : \A U \in SUBSET T : U # T => U \notin Bad
  <2>1. Bad \in SUBSET (SUBSET S)
    OBVIOUS
  <2> HIDE DEF Bad
  <2> QED BY <2>1, SetInduction
<1>2. T \subseteq S /\ IsFiniteSet(T) /\ T # {}
  BY FS_Subset, SumEmpty
<1>3. Chosen(T) \in T /\ T \ {Chosen(T)} \subseteq T /\ T \ {Chosen(T)} # T
  BY <1>2, OneFewer
<1>4. SumFunctionOnSet(f, T \ {Chosen(T)}) = SumFunctionOnSet(g, T \ {Chosen(T)})
  BY <1>1, <1>2, <1>3
<1>5. /\ SumFunctionOnSet(f, T) = f[Chosen(T)] + SumFunctionOnSet(f, T \ {Chosen(T)})
      /\ SumFunctionOnSet(g, T) = g[Chosen(T)] + SumFunctionOnSet(g, T \ {Chosen(T)})
  BY <1>2, SumStep
<1> QED BY <1>2, <1>3, <1>4, <1>5

\* Any element may be taken out of a sum first.
LEMMA SumRemove ==
  ASSUME NEW f, NEW S, IsFiniteSet(S), \A x \in S : f[x] \in Int, NEW x \in S
  PROVE  SumFunctionOnSet(f, S) = f[x] + SumFunctionOnSet(f, S \ {x})
<1> DEFINE Takes(T) == \A y \in T :
                         SumFunctionOnSet(f, T) = f[y] + SumFunctionOnSet(f, T \ {y})
           Bad == { T \in SUBSET S : ~ Takes(T) }
<1> SUFFICES ASSUME Bad # {} PROVE FALSE
  OBVIOUS
<1>1. PICK T \in Bad : \A U \in SUBSET T : U # T => U \notin Bad
  <2>1. Bad \in SUBSET (SUBSET S)
    OBVIOUS
  <2> HIDE DEF Bad
  <2> QED BY <2>1, SetInduction
<1>2. T \subseteq S /\ IsFiniteSet(T)
  BY FS_Subset
<1>3. PICK y \in T : SumFunctionOnSet(f, T) # f[y] + SumFunctionOnSet(f, T \ {y})
  OBVIOUS
<1> DEFINE c == Chosen(T)
<1>4. /\ c \in T
      /\ \A z \in T : T \ {z} \subseteq T /\ T \ {z} # T /\ IsFiniteSet(T \ {z})
  BY <1>2, OneFewer
<1>5. SumFunctionOnSet(f, T) = f[c] + SumFunctionOnSet(f, T \ {c})
  BY <1>2, SumStep
<1>6. y # c
  BY <1>3, <1>5
<1>7. SumFunctionOnSet(f, T \ {c}) = f[y] + SumFunctionOnSet(f, (T \ {c}) \ {y})
  <2>1. T \ {c} \notin Bad /\ T \ {c} \in SUBSET S
    BY <1>1, <1>2, <1>4
  <2>2. Takes(T \ {c})
    BY <2>1
  <2> QED BY <2>2, <1>6
<1>8. SumFunctionOnSet(f, T \ {y}) = f[c] + SumFunctionOnSet(f, (T \ {y}) \ {c})
  <2>1. T \ {y} \notin Bad /\ T \ {y} \in SUBSET S
    BY <1>1, <1>2, <1>4
  <2>2. Takes(T \ {y})
    BY <2>1
  <2> QED BY <2>2, <1>4, <1>6
<1>9. (T \ {c}) \ {y} = (T \ {y}) \ {c}
  OBVIOUS
<1> DEFINE rest == SumFunctionOnSet(f, (T \ {c}) \ {y})
<1>10. f[c] \in Int /\ f[y] \in Int /\ rest \in Int
  <2>1. IsFiniteSet((T \ {c}) \ {y})
    BY <1>4, FS_Subset
  <2> QED BY <1>2, <1>4, <2>1, SumInt
<1>11. SumFunctionOnSet(f, T) = f[c] + (f[y] + rest)
  BY <1>5, <1>7
<1>12. SumFunctionOnSet(f, T \ {y}) = f[c] + rest
  BY <1>8, <1>9
<1> HIDE DEF rest
<1> QED BY <1>3, <1>10, <1>11, <1>12

\* An element added to the set adds its value to the sum.
LEMMA SumAdd ==
  ASSUME NEW f, NEW S, IsFiniteSet(S), \A x \in S : f[x] \in Int, NEW x, x \notin S, f[x] \in Int
  PROVE  SumFunctionOnSet(f, S \cup {x}) = SumFunctionOnSet(f, S) + f[x]
<1>1. IsFiniteSet(S \cup {x}) /\ (S \cup {x}) \ {x} = S
  BY FS_AddElement
<1>2. SumFunctionOnSet(f, S \cup {x}) = f[x] + SumFunctionOnSet(f, S)
  BY <1>1, SumRemove
<1> QED BY <1>2, SumInt

\* A sum with one element more, and one element less, which may be what it is.
LEMMA SumWith ==
  ASSUME NEW f, NEW S, IsFiniteSet(S), \A y \in S : f[y] \in Int, NEW x, f[x] \in Int
  PROVE  /\ SumFunctionOnSet(f, S \cup {x}) = SumFunctionOnSet(f, S) + (IF x \in S THEN 0 ELSE f[x])
         /\ SumFunctionOnSet(f, S \ {x}) = SumFunctionOnSet(f, S) - (IF x \in S THEN f[x] ELSE 0)
<1>0. SumFunctionOnSet(f, S) \in Int
  BY SumInt
<1>1. CASE x \in S
  <2>1. S \cup {x} = S
    BY <1>1
  <2>2. SumFunctionOnSet(f, S) = f[x] + SumFunctionOnSet(f, S \ {x})
    BY <1>1, SumRemove
  <2>3. IsFiniteSet(S \ {x}) /\ \A y \in S \ {x} : f[y] \in Int
    BY FS_Subset
  <2>4. SumFunctionOnSet(f, S \ {x}) \in Int
    BY <2>3, SumInt
  <2>5. SumFunctionOnSet(f, S \cup {x}) = SumFunctionOnSet(f, S)
    BY <2>1
  <2> QED BY <1>0, <1>1, <2>2, <2>4, <2>5
<1>2. CASE x \notin S
  <2>1. S \ {x} = S
    BY <1>2
  <2>2. SumFunctionOnSet(f, S \ {x}) = SumFunctionOnSet(f, S)
    BY <2>1
  <2>3. SumFunctionOnSet(f, S \cup {x}) = SumFunctionOnSet(f, S) + f[x]
    BY <1>2, SumAdd
  <2> QED BY <1>0, <1>2, <2>2, <2>3
<1> QED BY <1>1, <1>2

\* Where one value changes, the sum changes by as much.
LEMMA SumChange ==
  ASSUME NEW f, NEW g, NEW S, IsFiniteSet(S), \A y \in S : f[y] \in Int, NEW x \in S, g[x] \in Int,
         \A y \in S \ {x} : f[y] = g[y]
  PROVE  SumFunctionOnSet(g, S) = SumFunctionOnSet(f, S) + g[x] - f[x]
<1>1. IsFiniteSet(S \ {x})
  BY FS_Subset
<1>2. SumFunctionOnSet(f, S) = f[x] + SumFunctionOnSet(f, S \ {x})
  BY SumRemove
<1>3. SumFunctionOnSet(g, S) = g[x] + SumFunctionOnSet(g, S \ {x})
  <2>1. \A y \in S : g[y] \in Int
    OBVIOUS
  <2> QED BY <2>1, SumRemove
<1>4. SumFunctionOnSet(f, S \ {x}) = SumFunctionOnSet(g, S \ {x})
  BY <1>1, SumSame
<1>5. SumFunctionOnSet(f, S \ {x}) \in Int
  BY <1>1, SumInt
<1> QED BY <1>2, <1>3, <1>4, <1>5

\* A sum of numbers that are not negative is not negative.
LEMMA SumNat ==
  ASSUME NEW f, NEW S, IsFiniteSet(S), \A x \in S : f[x] \in Nat
  PROVE  SumFunctionOnSet(f, S) \in Nat
<1> DEFINE Bad == { T \in SUBSET S : SumFunctionOnSet(f, T) \notin Nat }
<1> SUFFICES ASSUME Bad # {} PROVE FALSE
  OBVIOUS
<1>1. PICK T \in Bad : \A U \in SUBSET T : U # T => U \notin Bad
  <2>1. Bad \in SUBSET (SUBSET S)
    OBVIOUS
  <2> HIDE DEF Bad
  <2> QED BY <2>1, SetInduction
<1>2. T \subseteq S /\ IsFiniteSet(T) /\ T # {}
  <2>1. SumFunctionOnSet(f, {}) \in Nat
    BY SumEmpty
  <2> QED BY <2>1, FS_Subset
<1>3. Chosen(T) \in T /\ T \ {Chosen(T)} \subseteq T /\ T \ {Chosen(T)} # T
  BY <1>2, OneFewer
<1>4. SumFunctionOnSet(f, T \ {Chosen(T)}) \in Nat
  BY <1>1, <1>2, <1>3
<1>5. SumFunctionOnSet(f, T) = f[Chosen(T)] + SumFunctionOnSet(f, T \ {Chosen(T)})
  BY <1>2, SumStep
<1> QED BY <1>2, <1>3, <1>4, <1>5

\* A sum over the images of the elements of a set, where no two have the same image.
LEMMA SumImage ==
  ASSUME NEW f, NEW b, NEW S, IsFiniteSet(S),
         \A x \in S : f[b[x]] \in Int,
         \A x, y \in S : b[x] = b[y] => x = y
  PROVE  SumFunctionOnSet(f, { b[x] : x \in S }) = SumFunctionOnSet([x \in S |-> f[b[x]]], S)
<1> DEFINE g == [x \in S |-> f[b[x]]]
           Same(T) == /\ IsFiniteSet({ b[x] : x \in T })
                      /\ SumFunctionOnSet(f, { b[x] : x \in T }) = SumFunctionOnSet(g, T)
           Bad == { T \in SUBSET S : ~ Same(T) }
<1> SUFFICES ASSUME Bad # {} PROVE FALSE
  OBVIOUS
<1>1. PICK T \in Bad : \A U \in SUBSET T : U # T => U \notin Bad
  <2>1. Bad \in SUBSET (SUBSET S)
    OBVIOUS
  <2> HIDE DEF Bad
  <2> QED BY <2>1, SetInduction
<1>2. T \subseteq S /\ IsFiniteSet(T)
  BY FS_Subset
<1>3. T # {}
  <2>1. { b[x] : x \in {} } = {}
    OBVIOUS
  <2>2. Same({})
    BY <2>1, SumEmpty, FS_EmptySet
  <2> QED BY <2>2
<1> DEFINE c == Chosen(T)
           R == T \ {c}
           B == { b[x] : x \in R }
<1>4. c \in T /\ R \subseteq T /\ R # T /\ IsFiniteSet(R)
  BY <1>2, <1>3, OneFewer
<1>5. Same(R)
  BY <1>1, <1>2, <1>4
<1>6. { b[x] : x \in T } = B \cup {b[c]} /\ b[c] \notin B
  BY <1>2, <1>4
<1>7. (\A y \in B : f[y] \in Int) /\ f[b[c]] \in Int /\ g[c] = f[b[c]]
  BY <1>2, <1>4
<1>8. IsFiniteSet({ b[x] : x \in T })
  <2>1. IsFiniteSet(B)
    BY <1>5
  <2> HIDE DEF B
  <2> QED BY <1>6, <2>1, FS_AddElement
<1>9. SumFunctionOnSet(f, B \cup {b[c]}) = SumFunctionOnSet(f, B) + f[b[c]]
  <2> HIDE DEF B
  <2> QED BY <1>5, <1>6, <1>7, SumAdd DEF B
<1>10. SumFunctionOnSet(g, T) = g[c] + SumFunctionOnSet(g, R)
  BY <1>2, <1>3, SumStep
<1>11. SumFunctionOnSet(g, R) \in Int
  <2>1. \A x \in R : g[x] \in Int
    BY <1>2, <1>4
  <2> HIDE DEF R, g
  <2> QED BY <1>4, <2>1, SumInt
<1>12. SumFunctionOnSet(f, B) = SumFunctionOnSet(g, R)
  BY <1>5
<1>13. SumFunctionOnSet(f, { b[x] : x \in T }) = SumFunctionOnSet(g, T)
  <2>1. SumFunctionOnSet(f, { b[x] : x \in T }) = SumFunctionOnSet(f, B \cup {b[c]})
    BY <1>6
  <2> HIDE DEF g, B, R, c
  <2> QED BY <1>7, <1>9, <1>10, <1>11, <1>12, <2>1
<1> QED BY <1>8, <1>13

\* A sum over some elements of a set, as one over all of them.
LEMMA SumFilter ==
  ASSUME NEW f, NEW S, IsFiniteSet(S), \A x \in S : f[x] \in Int, NEW T \in SUBSET S
  PROVE  SumFunctionOnSet(f, T) = SumFunctionOnSet([x \in S |-> IF x \in T THEN f[x] ELSE 0], S)
<1> DEFINE g == [x \in S |-> IF x \in T THEN f[x] ELSE 0]
           Same(U) == SumFunctionOnSet(f, T \cap U) = SumFunctionOnSet(g, U)
           Bad == { U \in SUBSET S : ~ Same(U) }
<1>0. Bad # {} => FALSE
  <2> SUFFICES ASSUME Bad # {} PROVE FALSE
    OBVIOUS
  <2>1. PICK U \in Bad : \A V \in SUBSET U : V # U => V \notin Bad
    <3>1. Bad \in SUBSET (SUBSET S)
      OBVIOUS
    <3> HIDE DEF Bad
    <3> QED BY <3>1, SetInduction
  <2>2. U \subseteq S /\ IsFiniteSet(U)
    BY FS_Subset
  <2>3. U # {}
    <3>1. T \cap {} = {}
      OBVIOUS
    <3>2. Same({})
      BY <3>1, SumEmpty
    <3> QED BY <3>2
  <2> DEFINE c == Chosen(U)
             R == U \ {c}
  <2>4. c \in U /\ R \subseteq U /\ R # U /\ IsFiniteSet(R)
    BY <2>2, <2>3, OneFewer
  <2>5. Same(R)
    BY <2>1, <2>2, <2>4
  <2>6. SumFunctionOnSet(g, U) = g[c] + SumFunctionOnSet(g, R)
    BY <2>2, <2>3, SumStep
  <2>7. IsFiniteSet(T \cap R) /\ T \cap R \subseteq S
    BY <2>2, <2>4, FS_Subset
  <2>8. SumFunctionOnSet(f, T \cap R) \in Int
    <3>1. \A x \in T \cap R : f[x] \in Int
      BY <2>7
    <3> QED BY <2>7, <3>1, SumInt
  <2>9. CASE c \in T
    <3>1. T \cap U = (T \cap R) \cup {c} /\ c \notin T \cap R /\ g[c] = f[c] /\ f[c] \in Int
      BY <2>2, <2>4, <2>9
    <3>2. SumFunctionOnSet(f, (T \cap R) \cup {c}) = SumFunctionOnSet(f, T \cap R) + f[c]
      <4>1. \A x \in T \cap R : f[x] \in Int
        BY <2>7
      <4> QED BY <2>7, <3>1, <4>1, SumAdd
    <3>3. SumFunctionOnSet(f, T \cap R) = SumFunctionOnSet(g, R)
      BY <2>5
    <3>4. SumFunctionOnSet(f, T \cap U) = SumFunctionOnSet(g, U)
      <4>1. SumFunctionOnSet(f, T \cap U) = SumFunctionOnSet(f, (T \cap R) \cup {c})
        BY <3>1
      <4> HIDE DEF g, R, c
      <4> QED BY <2>6, <2>8, <3>1, <3>2, <3>3, <4>1
    <3> QED BY <3>4
  <2>10. CASE c \notin T
    <3>1. T \cap U = T \cap R /\ g[c] = 0
      BY <2>2, <2>4, <2>10
    <3>2. SumFunctionOnSet(f, T \cap R) = SumFunctionOnSet(g, R)
      BY <2>5
    <3>3. SumFunctionOnSet(f, T \cap U) = SumFunctionOnSet(g, U)
      <4>1. SumFunctionOnSet(f, T \cap U) = SumFunctionOnSet(f, T \cap R)
        BY <3>1
      <4> HIDE DEF g, R, c
      <4> QED BY <2>6, <2>8, <3>1, <3>2, <4>1
    <3> QED BY <3>3
  <2> QED BY <2>9, <2>10
<1>1. Same(S)
  BY <1>0
<1>2. T \cap S = T
  OBVIOUS
<1> QED BY <1>1, <1>2

\* A sum of sums.
LEMMA SumPlus ==
  ASSUME NEW f, NEW g, NEW h, NEW S, IsFiniteSet(S),
         \A x \in S : f[x] \in Int /\ g[x] \in Int /\ h[x] = f[x] + g[x]
  PROVE  SumFunctionOnSet(h, S) = SumFunctionOnSet(f, S) + SumFunctionOnSet(g, S)
<1> DEFINE Bad == { T \in SUBSET S : SumFunctionOnSet(h, T) # SumFunctionOnSet(f, T) + SumFunctionOnSet(g, T) }
<1> SUFFICES ASSUME Bad # {} PROVE FALSE
  OBVIOUS
<1>1. PICK T \in Bad : \A U \in SUBSET T : U # T => U \notin Bad
  <2>1. Bad \in SUBSET (SUBSET S)
    OBVIOUS
  <2> HIDE DEF Bad
  <2> QED BY <2>1, SetInduction
<1>2. T \subseteq S /\ IsFiniteSet(T) /\ T # {}
  <2>1. /\ SumFunctionOnSet(f, {}) = 0
        /\ SumFunctionOnSet(g, {}) = 0
        /\ SumFunctionOnSet(h, {}) = 0
    BY SumEmpty
  <2>2. {} \notin Bad
    BY <2>1
  <2> QED BY <2>2, FS_Subset
<1> DEFINE c == Chosen(T)
           R == T \ {c}
<1>3. c \in T /\ R \subseteq T /\ R # T /\ IsFiniteSet(R)
  BY <1>2, OneFewer
<1>4. SumFunctionOnSet(h, R) = SumFunctionOnSet(f, R) + SumFunctionOnSet(g, R)
  BY <1>1, <1>2, <1>3
<1>5. /\ SumFunctionOnSet(f, T) = f[c] + SumFunctionOnSet(f, R)
      /\ SumFunctionOnSet(g, T) = g[c] + SumFunctionOnSet(g, R)
      /\ SumFunctionOnSet(h, T) = h[c] + SumFunctionOnSet(h, R)
  BY <1>2, SumStep
<1>6. SumFunctionOnSet(f, R) \in Int /\ SumFunctionOnSet(g, R) \in Int
  <2>1. \A x \in R : f[x] \in Int /\ g[x] \in Int
    BY <1>2, <1>3
  <2> HIDE DEF R
  <2> QED BY <1>3, <2>1, SumInt
<1> QED BY <1>2, <1>3, <1>4, <1>5, <1>6

\* Adding what is not negative to a set or to the values does not lower the sum.
LEMMA SumMonotone ==
  ASSUME NEW f, NEW g, NEW S, IsFiniteSet(S),
         \A x \in S : f[x] \in Int /\ g[x] \in Int /\ f[x] <= g[x]
  PROVE  SumFunctionOnSet(f, S) <= SumFunctionOnSet(g, S)
<1> DEFINE d == [x \in S |-> g[x] - f[x]]
<1>1. \A x \in S : d[x] \in Nat /\ d[x] \in Int /\ g[x] = f[x] + d[x]
  OBVIOUS
<1> HIDE DEF d
<1>2. SumFunctionOnSet(g, S) = SumFunctionOnSet(f, S) + SumFunctionOnSet(d, S)
  BY <1>1, SumPlus
<1>3. SumFunctionOnSet(d, S) \in Nat
  BY <1>1, SumNat
<1>4. SumFunctionOnSet(f, S) \in Int
  BY SumInt
<1> QED BY <1>2, <1>3, <1>4

\* A part of a set of numbers that are not negative sums up to no more.
LEMMA SumSubset ==
  ASSUME NEW f, NEW S, IsFiniteSet(S), \A x \in S : f[x] \in Nat, NEW T \in SUBSET S
  PROVE  SumFunctionOnSet(f, T) <= SumFunctionOnSet(f, S)
<1> DEFINE g == [x \in S |-> IF x \in T THEN f[x] ELSE 0]
<1>1. \A x \in S : f[x] \in Int /\ g[x] \in Int /\ g[x] <= f[x]
  OBVIOUS
<1>2. SumFunctionOnSet(f, T) = SumFunctionOnSet(g, S)
  BY <1>1, SumFilter
<1> HIDE DEF g
<1>3. SumFunctionOnSet(g, S) <= SumFunctionOnSet(f, S)
  BY <1>1, SumMonotone
<1> QED BY <1>2, <1>3
===============================================================================
