---------------------------- MODULE TotalsProofs ----------------------------
(***************************************************************************)
(* What MapThenSumSet adds up to, for every finite set: the balances of    *)
(* the ledgers are such sums.                                              *)
(*                                                                         *)
(* There is no induction over sets here but by the least counterexample:   *)
(* if some subset of a finite set breaks a fact, one of them has no proper *)
(* subset that does.                                                       *)
(***************************************************************************)
EXTENDS Integers, FiniteSets, FiniteSetsExt, FiniteSetTheorems, WellFoundedInduction,
        TLAPS

Total(f, T) == MapThenSumSet(LAMBDA x : f[x], T)

(* The element the sum takes next, and the function it is defined by. *)
Pick(s) == CHOOSE x \in s : TRUE

AddsUp(g, f, T) ==
    g = [s \in SUBSET T |-> IF s = {} THEN 0 ELSE f[Pick(s)] + g[s \ {Pick(s)}]]

(* A set of subsets of a finite set has a least one. *)
LEMMA LeastSubset ==
    ASSUME NEW T, IsFiniteSet(T), NEW Bad \in SUBSET (SUBSET T), Bad # {}
    PROVE  \E s \in Bad : \A r \in SUBSET s : r # s => r \notin Bad
<1>1. IsWellFoundedOn(StrictSubsetOrdering(T), SUBSET T)
  BY FS_StrictSubsetOrderingWellFounded, FS_FiniteSubsetsOfFinite
<1>2. PICK s \in Bad : \A r \in Bad : <<r, s>> \notin StrictSubsetOrdering(T)
  BY <1>1, WFMin
<1>3. ASSUME NEW r \in SUBSET s, r # s, r \in Bad PROVE FALSE
  <2>1. <<r, s>> \in StrictSubsetOrdering(T)
    BY <1>3 DEF StrictSubsetOrdering
  <2> QED BY <1>2, <1>3, <2>1
<1> QED BY <1>3

(* Of a finite set, some element has the largest value. *)
LEMMA LargestElement ==
    ASSUME NEW T, IsFiniteSet(T), T # {}, NEW f, \A x \in T : f[x] \in Int
    PROVE  \E x \in T : \A y \in T : f[y] <= f[x]
<1> DEFINE Above(x) == {y \in T : f[y] > f[x]}
           Bad == {Above(x) : x \in T}
<1>1. PICK s \in Bad : \A r \in SUBSET s : r # s => r \notin Bad
  <2>1. Bad \in SUBSET (SUBSET T) /\ Bad # {}
    OBVIOUS
  <2> HIDE DEF Bad
  <2> QED BY <2>1, LeastSubset
<1>2. PICK x \in T : s = Above(x)
  BY <1>1
<1>3. ASSUME NEW y \in T, f[y] > f[x] PROVE FALSE
  <2>1. Above(y) \in SUBSET s
    BY <1>2, <1>3
  <2>2. y \in s /\ y \notin Above(y)
    BY <1>2, <1>3
  <2>3. Above(y) \in Bad
    OBVIOUS
  <2> HIDE DEF Above, Bad
  <2> QED BY <1>1, <2>1, <2>2, <2>3
<1> QED BY <1>3

LEMMA PickIn ==
    ASSUME NEW s, s # {}
    PROVE  Pick(s) \in s
BY DEF Pick

LEMMA AddsUpStep ==
    ASSUME NEW g, NEW f, NEW T, AddsUp(g, f, T)
    PROVE  /\ g[{}] = 0
           /\ \A s \in SUBSET T : s # {} => g[s] = f[Pick(s)] + g[s \ {Pick(s)}]
<1>1. \A s \in SUBSET T :
         g[s] = IF s = {} THEN 0 ELSE f[Pick(s)] + g[s \ {Pick(s)}]
  BY DEF AddsUp
<1> QED BY <1>1

(* Two such functions agree wherever both are defined. *)
LEMMA AddsUpUnique ==
    ASSUME NEW f, NEW g, NEW T, AddsUp(g, f, T), NEW h, NEW U, AddsUp(h, f, U),
           NEW S, S \subseteq T, S \subseteq U, IsFiniteSet(S)
    PROVE  g[S] = h[S]
<1> DEFINE Bad == {s \in SUBSET S : g[s] # h[s]}
<1>1. SUFFICES ASSUME Bad # {} PROVE FALSE
  OBVIOUS
<1>2. PICK s \in Bad : \A r \in SUBSET s : r # s => r \notin Bad
  <2>1. Bad \in SUBSET (SUBSET S)
    OBVIOUS
  <2> HIDE DEF Bad
  <2> QED BY <1>1, <2>1, LeastSubset
<1>3. s # {}
  BY <1>2, AddsUpStep
<1>4. g[s \ {Pick(s)}] = h[s \ {Pick(s)}]
  BY <1>2, <1>3, PickIn
<1>5. g[s] = f[Pick(s)] + g[s \ {Pick(s)}]
  <2>1. s \in SUBSET T
    BY <1>2
  <2> QED BY <1>3, <2>1, AddsUpStep
<1>6. h[s] = f[Pick(s)] + h[s \ {Pick(s)}]
  <2>1. s \in SUBSET U
    BY <1>2
  <2> QED BY <1>3, <2>1, AddsUpStep
<1> QED BY <1>2, <1>4, <1>5, <1>6

LEMMA AddsUpExists ==
    ASSUME NEW f, NEW T, IsFiniteSet(T)
    PROVE  \E g : AddsUp(g, f, T)
<1> DEFINE Bad == {s \in SUBSET T : ~ \E g : AddsUp(g, f, s)}
<1>1. SUFFICES ASSUME Bad # {} PROVE FALSE
  OBVIOUS
<1>2. PICK S \in Bad : \A r \in SUBSET S : r # S => r \notin Bad
  <2>1. Bad \in SUBSET (SUBSET T)
    OBVIOUS
  <2> HIDE DEF Bad
  <2> QED BY <1>1, <2>1, LeastSubset
<1>3. S \subseteq T /\ IsFiniteSet(S)
  BY <1>2, FS_Subset
<1> DEFINE G(t) == CHOOSE h : AddsUp(h, f, t)
           g == [s \in SUBSET S |->
                   IF s = {} THEN 0
                   ELSE f[Pick(s)] + G(s \ {Pick(s)})[s \ {Pick(s)}]]
<1>4. ASSUME NEW t \in SUBSET S, t # S PROVE AddsUp(G(t), f, t)
  <2>1. \E h : AddsUp(h, f, t)
    BY <1>2, <1>3, <1>4
  <2> QED BY <2>1
<1>5. ASSUME NEW t \in SUBSET S, t # S PROVE g[t] = G(t)[t]
  <2>1. AddsUp(G(t), f, t)
    BY <1>4, <1>5
  <2> HIDE DEF G
  <2>2. CASE t = {}
    BY <2>1, <2>2, AddsUpStep
  <2>3. CASE t # {}
    <3> DEFINE r == t \ {Pick(t)}
    <3>1. r \in SUBSET S /\ r # S /\ r \subseteq t
      BY <1>5, <2>3, PickIn
    <3>2. IsFiniteSet(r) /\ AddsUp(G(r), f, r)
      BY <1>3, <1>4, <3>1, FS_Subset
    <3>3. G(t)[r] = G(r)[r]
      BY <2>1, <3>1, <3>2, AddsUpUnique
    <3>4. G(t)[t] = f[Pick(t)] + G(t)[r]
      BY <2>1, <2>3, AddsUpStep
    <3> QED BY <2>3, <3>3, <3>4
  <2> QED BY <2>2, <2>3
<1>6. g = [s \in SUBSET S |-> IF s = {} THEN 0 ELSE f[Pick(s)] + g[s \ {Pick(s)}]]
  <2>1. ASSUME NEW s \in SUBSET S, s # {}
        PROVE  g[s \ {Pick(s)}] = G(s \ {Pick(s)})[s \ {Pick(s)}]
    <3>1. s \ {Pick(s)} \in SUBSET S /\ s \ {Pick(s)} # S
      BY <2>1, PickIn
    <3> HIDE DEF g, G
    <3> QED BY <1>5, <3>1
  <2> DEFINE L == [s \in SUBSET S |->
                     IF s = {} THEN 0 ELSE f[Pick(s)] + g[s \ {Pick(s)}]]
  <2>2. ASSUME NEW s \in SUBSET S PROVE g[s] = L[s]
    <3>1. g[s] = IF s = {} THEN 0 ELSE f[Pick(s)] + G(s \ {Pick(s)})[s \ {Pick(s)}]
      OBVIOUS
    <3> HIDE DEF g, G
    <3>2. L[s] = IF s = {} THEN 0 ELSE f[Pick(s)] + g[s \ {Pick(s)}]
      OBVIOUS
    <3> QED BY <2>1, <3>1, <3>2
  <2>3. g = [s \in SUBSET S |-> g[s]]
    OBVIOUS
  <2> HIDE DEF g
  <2> QED BY <2>2, <2>3
<1>7. AddsUp(g, f, S)
  BY <1>6 DEF AddsUp
<1> QED BY <1>2, <1>7

LEMMA TotalOf ==
    ASSUME NEW f, NEW T, IsFiniteSet(T)
    PROVE  \E g : AddsUp(g, f, T) /\ Total(f, T) = g[T]
<1> DEFINE g == CHOOSE h : AddsUp(h, f, T)
<1>1. AddsUp(g, f, T)
  BY AddsUpExists
<1>2. Total(f, T) = g[T]
  BY DEF Total, MapThenSumSet, MapThenFoldSet, AddsUp, Pick
<1> QED BY <1>1, <1>2

LEMMA TotalStep ==
    ASSUME NEW f, NEW T, IsFiniteSet(T)
    PROVE  /\ Total(f, {}) = 0
           /\ T # {} => Total(f, T) = f[Pick(T)] + Total(f, T \ {Pick(T)})
<1>2. PICK g : AddsUp(g, f, T) /\ Total(f, T) = g[T]
  BY TotalOf
<1>3. Total(f, {}) = 0
  <2>1. IsFiniteSet({})
    BY FS_EmptySet
  <2>2. PICK h : AddsUp(h, f, {}) /\ Total(f, {}) = h[{}]
    BY <2>1, TotalOf
  <2> QED BY <2>2, AddsUpStep
<1>4. ASSUME T # {} PROVE Total(f, T) = f[Pick(T)] + Total(f, T \ {Pick(T)})
  <2> DEFINE R == T \ {Pick(T)}
  <2>1. IsFiniteSet(R) /\ R \subseteq T
    BY FS_Subset
  <2>2. PICK h : AddsUp(h, f, R) /\ Total(f, R) = h[R]
    BY <2>1, TotalOf
  <2>3. g[R] = h[R]
    BY <1>2, <2>1, <2>2, AddsUpUnique
  <2>4. T \in SUBSET T
    OBVIOUS
  <2>5. g[T] = f[Pick(T)] + g[R]
    BY <1>2, <1>4, <2>4, AddsUpStep
  <2> QED BY <1>2, <2>2, <2>3, <2>5
<1> QED BY <1>3, <1>4

LEMMA TotalEmpty ==
    ASSUME NEW f
    PROVE  Total(f, {}) = 0
BY TotalStep, FS_EmptySet

-------------------------------------------------------------------------------
IntOn(f, T) == \A x \in T : f[x] \in Int

LEMMA TotalInt ==
    ASSUME NEW f, NEW T, IsFiniteSet(T), IntOn(f, T)
    PROVE  Total(f, T) \in Int
<1> DEFINE Bad == {s \in SUBSET T : Total(f, s) \notin Int}
<1>1. SUFFICES ASSUME Bad # {} PROVE FALSE
  OBVIOUS
<1>2. PICK s \in Bad : \A r \in SUBSET s : r # s => r \notin Bad
  <2>1. Bad \in SUBSET (SUBSET T)
    OBVIOUS
  <2> HIDE DEF Bad
  <2> QED BY <1>1, <2>1, LeastSubset
<1>3. IsFiniteSet(s) /\ s \subseteq T
  BY <1>2, FS_Subset
<1>4. s # {}
  <2>1. s = {} => Total(f, s) = 0
    BY TotalEmpty
  <2> QED BY <1>2, <2>1
<1>5. Pick(s) \in s /\ f[Pick(s)] \in Int
  BY <1>3, <1>4, PickIn DEF IntOn
<1>6. Total(f, s \ {Pick(s)}) \in Int
  BY <1>2, <1>5
<1>7. Total(f, s) = f[Pick(s)] + Total(f, s \ {Pick(s)})
  BY <1>3, <1>4, TotalStep
<1> QED BY <1>2, <1>5, <1>6, <1>7

(* The order does not matter: any element can be the next. *)
LEMMA TotalPick ==
    ASSUME NEW f, NEW T, IsFiniteSet(T), IntOn(f, T), NEW x \in T
    PROVE  Total(f, T) = f[x] + Total(f, T \ {x})
<1> DEFINE Off(s) == \E y \in s : Total(f, s) # f[y] + Total(f, s \ {y})
           Bad == {s \in SUBSET T : Off(s)}
<1>1. SUFFICES ASSUME Bad # {} PROVE FALSE
  OBVIOUS
<1>2. PICK s \in Bad : \A r \in SUBSET s : r # s => r \notin Bad
  <2>1. Bad \in SUBSET (SUBSET T)
    OBVIOUS
  <2> HIDE DEF Bad
  <2> QED BY <1>1, <2>1, LeastSubset
<1>3. PICK y \in s : Total(f, s) # f[y] + Total(f, s \ {y})
  BY <1>2
<1> DEFINE p == Pick(s)
<1>4. s \subseteq T /\ p \in s
  BY <1>2, <1>3, PickIn
<1>5. /\ IsFiniteSet(s) /\ IsFiniteSet(s \ {p}) /\ IsFiniteSet(s \ {y})
      /\ IsFiniteSet((s \ {p}) \ {y})
  BY <1>4, FS_Subset
<1>6. /\ f[p] \in Int /\ f[y] \in Int
      /\ Total(f, (s \ {p}) \ {y}) \in Int
  <2>1. IntOn(f, (s \ {p}) \ {y})
    BY <1>4 DEF IntOn
  <2> QED BY <1>3, <1>4, <1>5, <2>1, TotalInt DEF IntOn
<1>7. Total(f, s) = f[p] + Total(f, s \ {p})
  BY <1>3, <1>5, TotalStep
<1>8. p # y
  BY <1>3, <1>7
<1>9. Total(f, s \ {p}) = f[y] + Total(f, (s \ {p}) \ {y})
  <2>1. s \ {p} \in SUBSET s /\ s \ {p} # s /\ s \ {p} \in SUBSET T
    BY <1>4
  <2>2. ~ Off(s \ {p})
    BY <1>2, <2>1
  <2>3. y \in s \ {p}
    BY <1>3, <1>8
  <2> QED BY <2>2, <2>3
<1>10. Total(f, s \ {y}) = f[p] + Total(f, (s \ {y}) \ {p})
  <2>1. s \ {y} \in SUBSET s /\ s \ {y} # s /\ s \ {y} \in SUBSET T
    BY <1>3, <1>4
  <2>2. ~ Off(s \ {y})
    BY <1>2, <2>1
  <2>3. p \in s \ {y}
    BY <1>4, <1>8
  <2> QED BY <2>2, <2>3
<1>11. (s \ {y}) \ {p} = (s \ {p}) \ {y}
  OBVIOUS
<1> HIDE DEF p, Bad, Off
<1>12. Total(f, s \ {y}) = f[p] + Total(f, (s \ {p}) \ {y})
  BY <1>10, <1>11
<1>13. Total(f, s) = f[y] + Total(f, s \ {y})
  BY <1>6, <1>7, <1>9, <1>12
<1> QED BY <1>3, <1>13

LEMMA TotalAdd ==
    ASSUME NEW f, NEW T, IsFiniteSet(T), IntOn(f, T), NEW x, x \notin T, f[x] \in Int
    PROVE  Total(f, T \cup {x}) = f[x] + Total(f, T)
<1>1. IsFiniteSet(T \cup {x}) /\ IntOn(f, T \cup {x})
  BY FS_AddElement DEF IntOn
<1>2. (T \cup {x}) \ {x} = T
  OBVIOUS
<1> QED BY <1>1, <1>2, TotalPick

(***************************************************************************)
(* A sum is at most another when it is element by element, what is not     *)
(* summed counting as 0.                                                   *)
(***************************************************************************)
Part(f, A, x) == IF x \in A THEN f[x] ELSE 0

LEMMA TotalPart ==
    ASSUME NEW f, NEW A, IsFiniteSet(A), IntOn(f, A)
    PROVE  \A s : \A x \in s :
              /\ Total(f, A \cap s) = Part(f, A, x) + Total(f, A \cap (s \ {x}))
              /\ Total(f, A \cap s) \in Int
              /\ Total(f, A \cap (s \ {x})) \in Int
              /\ Part(f, A, x) \in Int
<1> SUFFICES ASSUME NEW s, NEW x \in s
             PROVE  /\ Total(f, A \cap s) = Part(f, A, x) + Total(f, A \cap (s \ {x}))
                    /\ Total(f, A \cap s) \in Int
                    /\ Total(f, A \cap (s \ {x})) \in Int
                    /\ Part(f, A, x) \in Int
  OBVIOUS
<1>1. /\ IsFiniteSet(A \cap s) /\ IntOn(f, A \cap s)
      /\ IsFiniteSet(A \cap (s \ {x})) /\ IntOn(f, A \cap (s \ {x}))
  BY FS_Subset DEF IntOn
<1>2. Total(f, A \cap s) \in Int /\ Total(f, A \cap (s \ {x})) \in Int
  BY <1>1, TotalInt
<1>3. CASE x \in A
  <2>1. (A \cap s) \ {x} = A \cap (s \ {x}) /\ x \in A \cap s
    BY <1>3
  <2> QED BY <1>1, <1>2, <1>3, <2>1, TotalPick DEF Part, IntOn
<1>4. CASE x \notin A
  <2>1. A \cap (s \ {x}) = A \cap s
    BY <1>4
  <2> QED BY <1>2, <1>4, <2>1 DEF Part
<1> QED BY <1>3, <1>4

LEMMA TotalLeq ==
    ASSUME NEW A, IsFiniteSet(A), NEW f, IntOn(f, A),
           NEW B, IsFiniteSet(B), NEW g, IntOn(g, B),
           \A x \in A \cup B : Part(f, A, x) <= Part(g, B, x)
    PROVE  Total(f, A) <= Total(g, B)
<1>a. \A s : \A x \in s :
         /\ Total(f, A \cap s) = Part(f, A, x) + Total(f, A \cap (s \ {x}))
         /\ Total(f, A \cap s) \in Int
         /\ Total(f, A \cap (s \ {x})) \in Int
         /\ Part(f, A, x) \in Int
  BY TotalPart, Zenon
<1>b. \A s : \A x \in s :
         /\ Total(g, B \cap s) = Part(g, B, x) + Total(g, B \cap (s \ {x}))
         /\ Total(g, B \cap s) \in Int
         /\ Total(g, B \cap (s \ {x})) \in Int
         /\ Part(g, B, x) \in Int
  BY TotalPart, Zenon
<1> DEFINE D == A \cup B
           Bad == {s \in SUBSET D : ~ (Total(f, A \cap s) <= Total(g, B \cap s))}
<1>1. IsFiniteSet(D)
  BY FS_Union
<1>2. A \cap D = A /\ B \cap D = B
  OBVIOUS
<1>3. Bad = {} => Total(f, A) <= Total(g, B)
  <2>1. D \in SUBSET D
    OBVIOUS
  <2> QED BY <1>2, <2>1
<1>4. SUFFICES ASSUME Bad # {} PROVE FALSE
  BY <1>3
<1>5. PICK s \in Bad : \A r \in SUBSET s : r # s => r \notin Bad
  <2>1. Bad \in SUBSET (SUBSET D)
    OBVIOUS
  <2> HIDE DEF Bad, D
  <2> QED BY <1>1, <1>4, <2>1, LeastSubset
<1>6. s \subseteq D /\ ~ (Total(f, A \cap s) <= Total(g, B \cap s))
  BY <1>5
<1>7. s # {}
  <2>1. ASSUME s = {} PROVE FALSE
    <3>1. A \cap s = {} /\ B \cap s = {}
      BY <2>1
    <3>2. Total(f, {}) = 0 /\ Total(g, {}) = 0
      BY TotalEmpty
    <3> QED BY <1>6, <3>1, <3>2
  <2> QED BY <2>1
<1>8. PICK x \in s : TRUE
  BY <1>7
<1> HIDE DEF Bad
<1>9. Total(f, A \cap (s \ {x})) <= Total(g, B \cap (s \ {x}))
  <2>1. s \ {x} \in SUBSET s /\ s \ {x} # s /\ s \ {x} \in SUBSET D
    BY <1>6, <1>8
  <2> QED BY <1>5, <2>1 DEF Bad
<1>10. /\ Total(f, A \cap s) = Part(f, A, x) + Total(f, A \cap (s \ {x}))
       /\ Total(f, A \cap s) \in Int /\ Part(f, A, x) \in Int
       /\ Total(f, A \cap (s \ {x})) \in Int
  BY <1>a, <1>8
<1>11. /\ Total(g, B \cap s) = Part(g, B, x) + Total(g, B \cap (s \ {x}))
       /\ Total(g, B \cap s) \in Int /\ Part(g, B, x) \in Int
       /\ Total(g, B \cap (s \ {x})) \in Int
  BY <1>b, <1>8
<1>12. Part(f, A, x) <= Part(g, B, x)
  BY <1>6, <1>8
<1> QED BY <1>6, <1>9, <1>10, <1>11, <1>12

LEMMA TotalEq ==
    ASSUME NEW A, IsFiniteSet(A), NEW f, IntOn(f, A),
           NEW B, IsFiniteSet(B), NEW g, IntOn(g, B),
           \A x \in A \cup B : Part(f, A, x) = Part(g, B, x)
    PROVE  Total(f, A) = Total(g, B)
<1>1. \A x \in A \cup B : Part(f, A, x) \in Int /\ Part(g, B, x) \in Int
  BY DEF Part, IntOn
<1>2. \A x \in A \cup B :
         Part(f, A, x) <= Part(g, B, x) /\ Part(g, B, x) <= Part(f, A, x)
  BY <1>1
<1>3. Total(f, A) <= Total(g, B)
  BY <1>2, TotalLeq
<1>4. Total(g, B) <= Total(f, A)
  BY <1>2, TotalLeq
<1> QED BY <1>3, <1>4, TotalInt

(* One value changes. *)
LEMMA TotalUpdate ==
    ASSUME NEW T, IsFiniteSet(T), NEW x \in T,
           NEW f, IntOn(f, T), NEW g, IntOn(g, T),
           \A y \in T : y # x => g[y] = f[y]
    PROVE  Total(g, T) = Total(f, T) + g[x] - f[x]
<1>1. /\ IsFiniteSet(T \ {x}) /\ IntOn(f, T \ {x}) /\ IntOn(g, T \ {x})
      /\ f[x] \in Int /\ g[x] \in Int
  BY FS_Subset DEF IntOn
<1>2. \A y \in T \ {x} : Part(f, T \ {x}, y) = Part(g, T \ {x}, y)
  BY DEF Part
<1>3. Total(f, T \ {x}) = Total(g, T \ {x})
  BY <1>1, <1>2, TotalEq
<1>4. /\ Total(f, T) = f[x] + Total(f, T \ {x})
      /\ Total(g, T) = g[x] + Total(g, T \ {x})
  BY TotalPick
<1>5. Total(f, T \ {x}) \in Int /\ Total(f, T) \in Int /\ Total(g, T) \in Int
  BY <1>1, TotalInt
<1> QED BY <1>1, <1>3, <1>4, <1>5

LEMMA TotalNonNegative ==
    ASSUME NEW T, IsFiniteSet(T), NEW f, IntOn(f, T), \A x \in T : f[x] >= 0
    PROVE  Total(f, T) >= 0
<1>1. IsFiniteSet({}) /\ IntOn(f, {}) /\ Total(f, {}) = 0
  BY FS_EmptySet, TotalEmpty DEF IntOn
<1>2. \A x \in {} \cup T : Part(f, {}, x) <= Part(f, T, x)
  BY DEF Part, IntOn
<1>3. Total(f, {}) <= Total(f, T)
  BY <1>1, <1>2, TotalLeq
<1> QED BY <1>1, <1>3, TotalInt

LEMMA TotalBound ==
    ASSUME NEW T, IsFiniteSet(T), NEW f, IntOn(f, T), NEW M \in Nat,
           \A x \in T : f[x] <= M
    PROVE  Total(f, T) <= Cardinality(T) * M
<1> DEFINE Bad == {s \in SUBSET T : ~ (Total(f, s) <= Cardinality(s) * M)}
<1>1. SUFFICES ASSUME Bad # {} PROVE FALSE
  OBVIOUS
<1>2. PICK s \in Bad : \A r \in SUBSET s : r # s => r \notin Bad
  <2>1. Bad \in SUBSET (SUBSET T)
    OBVIOUS
  <2> HIDE DEF Bad
  <2> QED BY <1>1, <2>1, LeastSubset
<1>3. /\ IsFiniteSet(s) /\ s \subseteq T /\ IntOn(f, s)
      /\ ~ (Total(f, s) <= Cardinality(s) * M)
  BY <1>2, FS_Subset DEF IntOn
<1>4. s # {}
  <2>1. ASSUME s = {} PROVE FALSE
    <3>1. Total(f, s) = 0 /\ Cardinality(s) = 0
      BY <2>1, TotalEmpty, FS_EmptySet
    <3>2. 0 * M = 0
      OBVIOUS
    <3> HIDE DEF Bad
    <3> QED BY <1>3, <3>1, <3>2
  <2> QED BY <2>1
<1>5. PICK x \in s : TRUE
  BY <1>4
<1> DEFINE r == s \ {x}
<1>6. Total(f, r) <= Cardinality(r) * M
  <2>1. r \in SUBSET s /\ r # s /\ r \in SUBSET T
    BY <1>3, <1>5
  <2> QED BY <1>2, <2>1
<1>7. /\ IsFiniteSet(r) /\ IntOn(f, r) /\ Total(f, r) \in Int
      /\ Cardinality(r) \in Nat /\ Cardinality(s) = Cardinality(r) + 1
  <2>1. IsFiniteSet(r) /\ IntOn(f, r)
    BY <1>3, FS_Subset DEF IntOn
  <2>2. Cardinality(r) = Cardinality(s) - 1 /\ Cardinality(s) \in Nat
    BY <1>3, <1>5, FS_RemoveElement, FS_CardinalityType
  <2>3. Cardinality(r) \in Nat
    BY <2>1, FS_CardinalityType
  <2> HIDE DEF r
  <2> QED BY <2>1, <2>2, <2>3, TotalInt
<1>8. Total(f, s) = f[x] + Total(f, r) /\ f[x] \in Int /\ f[x] <= M
  BY <1>3, <1>5, TotalPick DEF IntOn
<1>9. \A n \in Nat : (n + 1) * M = n * M + M /\ n * M \in Int
  OBVIOUS
<1> HIDE DEF r, Bad
<1> QED BY <1>3, <1>6, <1>7, <1>8, <1>9
===============================================================================
