------------------------ MODULE CommunityServerProofs ------------------------
(***************************************************************************)
(* Proofs about CommunityServer, for any sets of batches, tokens, tags,    *)
(* experiences and categories: the tables keep their types, every row of   *)
(* contributions counts exactly the live batches of its scope and every    *)
(* row of counts sums what they brought in, nothing below the threshold is *)
(* published, stored rows never change, and only the owner of a batch      *)
(* lowers an aggregate.                                                    *)
(***************************************************************************)
EXTENDS CommunityServer, FiniteSetTheorems, TLAPS

-----------------------------------------------------------------------------
(* Sums over finite sets, for any function and any set of indices.         *)

(* Every set of natural numbers that is not empty has a least one.         *)
LEMMA Least ==
    ASSUME NEW A \in SUBSET Nat, A # {}
    PROVE  \E n \in A : \A m \in A : n <= m
<1>1. IsWellFoundedOn(OpToRel(<, Nat), Nat)
  BY NatLessThanWellFounded DEF OpToRel
<1>2. PICK n \in A : \A m \in A : <<m, n>> \notin OpToRel(<, Nat)
  <2>1. PICK x : x \in A
    OBVIOUS
  <2> QED
    BY <1>1, <2>1, WFMin, Zenon
<1>3. \A m \in A : ~(m < n)
  BY <1>2 DEF OpToRel
<1> QED
  BY <1>3

(* What SumFunctionOnSet computes: h maps every set of indices to its sum. *)
First(U) == CHOOSE x \in U : TRUE

AddsUp(f, h, U) ==
    h[U] = IF U = {} THEN 0 ELSE f[First(U)] + h[U \ {First(U)}]

AllAddUp(f, h, S) == \A U \in SUBSET S : AddsUp(f, h, U)

Summing(f, S, h) ==
    h = [U \in SUBSET S |-> IF U = {} THEN 0 ELSE f[First(U)] + h[U \ {First(U)}]]

(* The library's sum is a fold over the chosen order.                      *)
LEMMA SumUnfolds ==
    ASSUME NEW f, NEW S
    PROVE  SumFunctionOnSet(f, S) = (CHOOSE h : Summing(f, S, h))[S]
  BY DEF SumFunctionOnSet, FoldFunctionOnSet, MapThenFoldSet, Summing, First

(* A set that is not empty has a first element.                            *)
LEMMA FirstOf == ASSUME NEW U, U # {} PROVE First(U) \in U
  BY DEF First

(* The subsets of a finite set, and their sizes.                           *)
LEMMA SubsetSizes ==
    ASSUME NEW S, IsFiniteSet(S), NEW U \in SUBSET S
    PROVE  /\ IsFiniteSet(U) /\ Cardinality(U) \in Nat
           /\ Cardinality(U) = 0 <=> U = {}
           /\ \A x \in U : /\ IsFiniteSet(U \ {x})
                           /\ Cardinality(U \ {x}) = Cardinality(U) - 1
<1>1. IsFiniteSet(U) /\ Cardinality(U) \in Nat
  BY FS_Subset, FS_CardinalityType
<1> QED
  BY <1>1, FS_EmptySet, FS_RemoveElement

(* A function with the equation exists: by induction on the size of the    *)
(* sets on which it is met.                                                *)
LEMMA SumExists ==
    ASSUME NEW S, IsFiniteSet(S), NEW f, \A x \in S : f[x] \in Int
    PROVE  \E h \in [SUBSET S -> Int] : Summing(f, S, h)
<1> DEFINE UpTo(n) == \E h \in [SUBSET S -> Int] :
                         \A U \in SUBSET S : Cardinality(U) <= n => AddsUp(f, h, U)
           Bad == {n \in Nat : ~UpTo(n)}
<1>1. UpTo(0)
  <2> DEFINE h == [U \in SUBSET S |-> 0]
  <2>1. \A U \in SUBSET S : Cardinality(U) <= 0 => U = {}
    BY SubsetSizes
  <2>2. h \in [SUBSET S -> Int]
    OBVIOUS
  <2>3. \A U \in SUBSET S : Cardinality(U) <= 0 => AddsUp(f, h, U)
    BY <2>1 DEF AddsUp
  <2> QED
    BY <2>2, <2>3
<1>2. ASSUME NEW n \in Nat, UpTo(n) PROVE UpTo(n + 1)
  <2>1. PICK g \in [SUBSET S -> Int] :
            \A U \in SUBSET S : Cardinality(U) <= n => AddsUp(f, g, U)
    BY <1>2
  <2> DEFINE h == [U \in SUBSET S |->
                      IF U = {} THEN 0 ELSE f[First(U)] + g[U \ {First(U)}]]
  <2>2. h \in [SUBSET S -> Int]
    BY FirstOf
  <2>3. \A U \in SUBSET S : Cardinality(U) <= n => h[U] = g[U]
    BY <2>1 DEF AddsUp
  <2>4. ASSUME NEW U \in SUBSET S, Cardinality(U) <= n + 1
        PROVE  AddsUp(f, h, U)
    <3>1. CASE U = {}
      BY <3>1 DEF AddsUp
    <3>2. CASE U # {}
      <4> DEFINE V == U \ {First(U)}
      <4>1. First(U) \in U /\ V \in SUBSET S
        BY <3>2, FirstOf
      <4>2. Cardinality(V) <= n
        BY <2>4, <4>1, SubsetSizes
      <4>3. h[V] = g[V]
        BY <4>1, <4>2, <2>3
      <4>4. h[U] = f[First(U)] + g[V]
        BY <3>2
      <4> QED
        BY <4>3, <4>4, <3>2 DEF AddsUp
    <3> QED
      BY <3>1, <3>2
  <2> QED
    BY <2>2, <2>4
<1> HIDE DEF UpTo
<1>3. Bad = {}
  <2> SUFFICES ASSUME Bad # {} PROVE FALSE
    OBVIOUS
  <2>1. PICK n \in Bad : \A m \in Bad : n <= m
    BY Least
  <2>2. n # 0
    BY <1>1
  <2>3. n - 1 \in Nat /\ UpTo(n - 1)
    BY <2>1, <2>2
  <2>4. UpTo(n)
    BY <1>2, <2>3
  <2> QED
    BY <2>4
<1>4. UpTo(Cardinality(S))
  BY <1>3, FS_CardinalityType
<1>5. PICK h \in [SUBSET S -> Int] :
          \A U \in SUBSET S : Cardinality(U) <= Cardinality(S) => AddsUp(f, h, U)
  BY <1>4 DEF UpTo
<1>6. \A U \in SUBSET S : AddsUp(f, h, U)
  BY <1>5, FS_Subset
<1>7. Summing(f, S, h)
  BY <1>5, <1>6 DEF Summing, AddsUp
<1> QED
  BY <1>7

(* Two functions that satisfy the equation agree.                          *)
LEMMA SumUnique ==
    ASSUME NEW S, IsFiniteSet(S), NEW f, NEW h, NEW k,
           AllAddUp(f, h, S), AllAddUp(f, k, S)
    PROVE  \A U \in SUBSET S : h[U] = k[U]
<1> DEFINE Sizes == {n \in Nat : \E U \in SUBSET S : Cardinality(U) = n /\ h[U] # k[U]}
<1> SUFFICES ASSUME Sizes # {} PROVE FALSE
  BY SubsetSizes
<1>1. PICK n \in Sizes : \A m \in Sizes : n <= m
  BY Least
<1>2. PICK U \in SUBSET S : Cardinality(U) = n /\ h[U] # k[U]
  BY <1>1
<1>3. U # {} /\ AddsUp(f, h, U) /\ AddsUp(f, k, U)
  BY <1>2 DEF AllAddUp, AddsUp
<1> DEFINE V == U \ {First(U)}
<1>4. First(U) \in U /\ V \in SUBSET S
  BY <1>3, FirstOf
<1>5. Cardinality(V) = n - 1 /\ n - 1 \in Nat
  BY <1>2, <1>4, SubsetSizes
<1>6. h[V] = k[V]
  BY <1>1, <1>4, <1>5
<1>7. h[U] = f[First(U)] + h[V] /\ k[U] = f[First(U)] + k[V]
  BY <1>3 DEF AddsUp
<1> QED
  BY <1>2, <1>4, <1>6, <1>7

(* So SumFunctionOnSet satisfies the equation on every subset.             *)
LEMMA SumAddsUp ==
    ASSUME NEW S, IsFiniteSet(S), NEW f, \A x \in S : f[x] \in Int
    PROVE  \E h \in [SUBSET S -> Int] :
              \A U \in SUBSET S : h[U] = SumFunctionOnSet(f, U) /\ AddsUp(f, h, U)
<1>1. ASSUME NEW T \in SUBSET S
      PROVE  \E h \in [SUBSET T -> Int] :
                /\ SumFunctionOnSet(f, T) = h[T]
                /\ AllAddUp(f, h, T)
  <2> DEFINE h == CHOOSE k : Summing(f, T, k)
  <2>1. \E k \in [SUBSET T -> Int] : Summing(f, T, k)
    BY SubsetSizes, SumExists
  <2>2. Summing(f, T, h)
    BY <2>1
  <2>3. PICK k \in [SUBSET T -> Int] : Summing(f, T, k)
    BY <2>1
  <2> HIDE DEF h
  <2>4. AllAddUp(f, h, T) /\ AllAddUp(f, k, T)
    BY <2>2, <2>3 DEF Summing, AddsUp, AllAddUp
  <2>5. \A U \in SUBSET T : h[U] = k[U]
    <3>1. IsFiniteSet(T)
      BY SubsetSizes
    <3> QED
      BY <3>1, <2>4, SumUnique
  <2>6. h \in [SUBSET T -> Int]
    BY <2>2, <2>5 DEF Summing
  <2>7. SumFunctionOnSet(f, T) = h[T]
    BY SumUnfolds DEF h
  <2> QED
    BY <2>4, <2>6, <2>7
<1>2. PICK h \in [SUBSET S -> Int] : AllAddUp(f, h, S)
  BY <1>1
<1>3. ASSUME NEW T \in SUBSET S PROVE h[T] = SumFunctionOnSet(f, T)
  <2>1. PICK k \in [SUBSET T -> Int] :
            SumFunctionOnSet(f, T) = k[T] /\ AllAddUp(f, k, T)
    BY <1>1
  <2>2. \A U \in SUBSET T : h[U] = k[U]
    <3>1. IsFiniteSet(T)
      BY SubsetSizes
    <3>2. AllAddUp(f, h, T) /\ AllAddUp(f, k, T)
      BY <1>2, <2>1 DEF AllAddUp
    <3> QED
      BY <3>1, <3>2, SumUnique
  <2> QED
    BY <2>1, <2>2
<1> QED
  BY <1>2, <1>3 DEF AllAddUp

(* The sum of no numbers, and the type of a sum.                           *)
LEMMA SumEmpty == ASSUME NEW f PROVE SumFunctionOnSet(f, {}) = 0
<1>1. IsFiniteSet({}) /\ \A x \in {} : f[x] \in Int
  BY FS_EmptySet
<1>2. PICK h \in [SUBSET {} -> Int] :
          \A U \in SUBSET {} : h[U] = SumFunctionOnSet(f, U) /\ AddsUp(f, h, U)
  BY <1>1, SumAddsUp
<1>3. {} \in SUBSET {} /\ AddsUp(f, h, {}) /\ h[{}] = SumFunctionOnSet(f, {})
  BY <1>2
<1> QED
  BY <1>3 DEF AddsUp

(* Any index can be taken out of a sum first, not only the one the library *)
(* chooses: by induction on the size of the set.                           *)
LEMMA SumRemove ==
    ASSUME NEW S, IsFiniteSet(S), NEW f, \A x \in S : f[x] \in Int, NEW x \in S
    PROVE  /\ SumFunctionOnSet(f, S) \in Int
           /\ SumFunctionOnSet(f, S \ {x}) \in Int
           /\ SumFunctionOnSet(f, S) = f[x] + SumFunctionOnSet(f, S \ {x})
<1>1. PICK h \in [SUBSET S -> Int] :
          \A U \in SUBSET S : h[U] = SumFunctionOnSet(f, U) /\ AddsUp(f, h, U)
  BY SumAddsUp
<1> DEFINE Good(U) == \A y \in U : h[U] = f[y] + h[U \ {y}]
           Sizes == {n \in Nat : \E U \in SUBSET S : Cardinality(U) = n /\ ~Good(U)}
<1>2. Sizes = {}
  <2> SUFFICES ASSUME Sizes # {} PROVE FALSE
    OBVIOUS
  <2>1. PICK n \in Sizes : \A m \in Sizes : n <= m
    BY Least
  <2>2. PICK U \in SUBSET S : Cardinality(U) = n /\ ~Good(U)
    BY <2>1
  <2>3. PICK y \in U : h[U] # f[y] + h[U \ {y}]
    BY <2>2
  <2> DEFINE z == First(U)
  <2>4. z \in U /\ h[U] = f[z] + h[U \ {z}]
    BY <1>1, <2>3, FirstOf DEF AddsUp
  <2>5. y # z
    BY <2>3, <2>4
  <2> HIDE DEF z
  <2>6. /\ U \ {z} \in SUBSET S /\ U \ {y} \in SUBSET S
        /\ (U \ {y}) \ {z} \in SUBSET S
        /\ y \in U \ {z} /\ z \in U \ {y}
    BY <2>4, <2>5
  <2>11. (U \ {z}) \ {y} = (U \ {y}) \ {z}
    <3>1. \A w : w \in (U \ {z}) \ {y} <=> w \in (U \ {y}) \ {z}
      OBVIOUS
    <3> QED
      BY <3>1, Zenon
  <2>7. Cardinality(U \ {z}) = n - 1 /\ Cardinality(U \ {y}) = n - 1 /\ n - 1 \in Nat
    <3>1. Cardinality(U) \in Nat /\ Cardinality(U) # 0
      BY <2>3, SubsetSizes
    <3>2. /\ Cardinality(U \ {z}) = Cardinality(U) - 1
          /\ Cardinality(U \ {y}) = Cardinality(U) - 1
      BY <2>4, SubsetSizes
    <3> QED
      BY <2>2, <3>1, <3>2
  <2>8. Good(U \ {z}) /\ Good(U \ {y})
    <3>1. \A V \in SUBSET S : Cardinality(V) = n - 1 => Good(V)
      <4> HIDE DEF Good
      <4> QED
        BY <2>1, <2>7
    <3> HIDE DEF Good
    <3> QED
      BY <2>6, <2>7, <3>1
  <2>9. /\ h[U \ {z}] = f[y] + h[(U \ {y}) \ {z}]
        /\ h[U \ {y}] = f[z] + h[(U \ {y}) \ {z}]
    BY <2>6, <2>8, <2>11
  <2>10. f[y] \in Int /\ f[z] \in Int /\ h[(U \ {y}) \ {z}] \in Int
    BY <2>4, <2>6
  <2> QED
    BY <2>3, <2>4, <2>9, <2>10
<1>3. Good(S)
  BY <1>2, FS_CardinalityType
<1>4. h[S] = f[x] + h[S \ {x}]
  BY <1>3
<1> QED
  BY <1>1, <1>4

(* A sum of integers is an integer.                                        *)
LEMMA SumType ==
    ASSUME NEW S, IsFiniteSet(S), NEW f, \A x \in S : f[x] \in Int
    PROVE  SumFunctionOnSet(f, S) \in Int
<1>1. PICK h \in [SUBSET S -> Int] :
          \A U \in SUBSET S : h[U] = SumFunctionOnSet(f, U) /\ AddsUp(f, h, U)
  BY SumAddsUp
<1>2. S \in SUBSET S
  OBVIOUS
<1> QED
  BY <1>1, <1>2

(* A sum depends only on the values at its indices.                        *)
LEMMA SumAgree ==
    ASSUME NEW S, IsFiniteSet(S), NEW f, NEW g,
           \A x \in S : f[x] \in Int /\ f[x] = g[x]
    PROVE  SumFunctionOnSet(f, S) = SumFunctionOnSet(g, S)
<1>1. PICK h \in [SUBSET S -> Int] :
          \A U \in SUBSET S : h[U] = SumFunctionOnSet(f, U) /\ AddsUp(f, h, U)
  BY SumAddsUp
<1>2. PICK k \in [SUBSET S -> Int] :
          \A U \in SUBSET S : k[U] = SumFunctionOnSet(g, U) /\ AddsUp(g, k, U)
  <2>1. \A x \in S : g[x] \in Int
    OBVIOUS
  <2> QED
    BY <2>1, SumAddsUp
<1>3. ASSUME NEW U \in SUBSET S PROVE AddsUp(f, k, U)
  <2>1. AddsUp(g, k, U)
    BY <1>2
  <2>2. U # {} => f[First(U)] = g[First(U)]
    BY FirstOf
  <2> QED
    BY <2>1, <2>2 DEF AddsUp
<1>4. AllAddUp(f, h, S) /\ AllAddUp(f, k, S)
  BY <1>1, <1>3 DEF AllAddUp
<1> QED
  BY <1>1, <1>2, <1>4, SumUnique

(* A sum of natural numbers is one, and at least each of its terms.        *)
LEMMA SumOfNaturals ==
    ASSUME NEW S, IsFiniteSet(S), NEW f, \A x \in S : f[x] \in Nat
    PROVE  /\ SumFunctionOnSet(f, S) \in Nat
           /\ \A x \in S : f[x] <= SumFunctionOnSet(f, S)
<1>1. PICK h \in [SUBSET S -> Int] :
          \A U \in SUBSET S : h[U] = SumFunctionOnSet(f, U) /\ AddsUp(f, h, U)
  <2>1. \A x \in S : f[x] \in Int
    OBVIOUS
  <2> QED
    BY <2>1, SumAddsUp
<1> DEFINE Sizes == {n \in Nat : \E U \in SUBSET S : Cardinality(U) = n /\ h[U] \notin Nat}
<1>2. Sizes = {}
  <2> SUFFICES ASSUME Sizes # {} PROVE FALSE
    OBVIOUS
  <2>1. PICK n \in Sizes : \A m \in Sizes : n <= m
    BY Least
  <2>2. PICK U \in SUBSET S : Cardinality(U) = n /\ h[U] \notin Nat
    BY <2>1
  <2>3. U # {}
    <3>1. AddsUp(f, h, U) /\ 0 \in Nat
      BY <1>1
    <3> QED
      BY <2>2, <3>1 DEF AddsUp
  <2> DEFINE z == First(U)
  <2>4. z \in U /\ h[U] = f[z] + h[U \ {z}]
    BY <1>1, <2>3, FirstOf DEF AddsUp
  <2>5. U \ {z} \in SUBSET S /\ Cardinality(U \ {z}) = n - 1 /\ n - 1 \in Nat
    BY <2>2, <2>4, SubsetSizes
  <2>6. h[U \ {z}] \in Nat
    BY <2>1, <2>5
  <2> QED
    BY <2>2, <2>4, <2>6
<1>3. \A U \in SUBSET S : h[U] \in Nat
  BY <1>2, SubsetSizes
<1>4. ASSUME NEW x \in S PROVE f[x] <= SumFunctionOnSet(f, S)
  <2>1. SumFunctionOnSet(f, S) = f[x] + SumFunctionOnSet(f, S \ {x})
    BY SumRemove
  <2>2. SumFunctionOnSet(f, S \ {x}) \in Nat
    BY <1>1, <1>3
  <2> QED
    BY <2>1, <2>2
<1> QED
  BY <1>1, <1>3, <1>4

(* Counting disjoint sets one by one counts their union.                   *)
LEMMA SumOfDisjoint ==
    ASSUME NEW S, IsFiniteSet(S), NEW B, IsFiniteSet(B), NEW F \in [S -> SUBSET B],
           \A x, y \in S : x # y => F[x] \cap F[y] = {}
    PROVE  SumFunctionOnSet([x \in S |-> Cardinality(F[x])], S)
              = Cardinality(UNION {F[x] : x \in S})
<1> DEFINE f == [x \in S |-> Cardinality(F[x])]
           All(U) == UNION {F[x] : x \in U}
<1>1. \A x \in S : IsFiniteSet(F[x]) /\ f[x] \in Int
  BY SubsetSizes
<1>2. PICK h \in [SUBSET S -> Int] :
          \A U \in SUBSET S : h[U] = SumFunctionOnSet(f, U) /\ AddsUp(f, h, U)
  <2> HIDE DEF f
  <2> QED
    BY <1>1, SumAddsUp
<1> DEFINE Sizes == {n \in Nat : \E U \in SUBSET S :
                                    Cardinality(U) = n /\ h[U] # Cardinality(All(U))}
<1>3. Sizes = {}
  <2> SUFFICES ASSUME Sizes # {} PROVE FALSE
    OBVIOUS
  <2>1. PICK n \in Sizes : \A m \in Sizes : n <= m
    BY Least
  <2>2. PICK U \in SUBSET S : Cardinality(U) = n /\ h[U] # Cardinality(All(U))
    BY <2>1
  <2>3. U # {}
    <3>1. U = {} => All(U) = {}
      OBVIOUS
    <3> QED
      BY <1>2, <2>2, <3>1, FS_EmptySet DEF AddsUp
  <2> DEFINE z == First(U)
             V == U \ {z}
  <2>4. z \in U /\ h[U] = f[z] + h[V]
    BY <1>2, <2>3, FirstOf DEF AddsUp
  <2>5. V \in SUBSET S /\ Cardinality(V) = n - 1 /\ n - 1 \in Nat
    <3> HIDE DEF z
    <3>1. V \in SUBSET S
      OBVIOUS
    <3>2. Cardinality(V) = n - 1 /\ n - 1 \in Nat
      <4>1. Cardinality(U) \in Nat /\ Cardinality(U) # 0
        BY <2>3, SubsetSizes
      <4>2. Cardinality(U \ {z}) = Cardinality(U) - 1
        BY <2>4, SubsetSizes
      <4> QED
        BY <2>2, <4>1, <4>2
    <3> QED
      BY <3>1, <3>2
  <2>6. h[V] = Cardinality(All(V))
    <3> HIDE DEF V, All
    <3> QED
      BY <2>1, <2>5
  <2>7. All(U) = F[z] \cup All(V) /\ F[z] \cap All(V) = {}
    BY <2>4
  <2>8. F[z] \in SUBSET B /\ All(V) \in SUBSET B
    BY <2>4
  <2>9. Cardinality(F[z] \cup All(V)) = Cardinality(F[z]) + Cardinality(All(V))
    <3>1. IsFiniteSet(F[z]) /\ IsFiniteSet(All(V))
      BY <2>8, FS_Subset
    <3> HIDE DEF All, V, z
    <3>2. Cardinality(F[z] \cap All(V)) = 0
      BY <2>7, FS_EmptySet
    <3>3. Cardinality(F[z]) \in Nat /\ Cardinality(All(V)) \in Nat
      BY <3>1, FS_CardinalityType
    <3> QED
      <4>1. Cardinality(F[z] \cup All(V))
               = Cardinality(F[z]) + Cardinality(All(V)) - Cardinality(F[z] \cap All(V))
        BY <3>1, FS_Union
      <4> HIDE DEF All, V, z
      <4> QED
        BY <3>2, <3>3, <4>1
  <2>10. f[z] = Cardinality(F[z])
    BY <2>4
  <2> HIDE DEF All, f, V, z
  <2> QED
    BY <2>2, <2>4, <2>6, <2>7, <2>9, <2>10
<1>4. h[S] = Cardinality(All(S))
  BY <1>3, FS_CardinalityType
<1> QED
  BY <1>2, <1>4

-----------------------------------------------------------------------------
(* What a valid body contains, and the scopes its batch is counted in.     *)

(* Every item of a body names a known category with a positive count.      *)
LEMMA PayloadItems ==
    ASSUME NEW p \in Payloads
    PROVE  /\ p.items \in ItemMaps
           /\ DOMAIN p.items \subseteq Shortcuts
           /\ \A s \in DOMAIN p.items : p.items[s] \in Nat \ {0}
<1>1. p.items \in ItemMaps
  BY DEF Payloads
<1>2. PICK S \in (SUBSET Shortcuts) \ {{}} : p.items \in [S -> Counts]
  BY <1>1 DEF ItemMaps
<1>3. \A s \in S : p.items[s] \in Counts
  BY <1>2
<1> QED
  BY <1>1, <1>2, <1>3, CountsAssumption

(* A stored row is a record with these fields.                             *)
LEMMA RowFields ==
    ASSUME NEW r \in Rows
    PROVE  /\ r # NoRow
           /\ r.token \in Tokens
           /\ r.payload \in Payloads
           /\ r.day \in Days
           /\ r.withdrawn \in BOOLEAN
  BY DEF Rows, NoRow

(* The withdrawal reads back the items it stored: while a batch is live,   *)
(* its rows of batch_items are the items of its body.                      *)
LEMMA LiveItems ==
    ASSUME TypeOK, NEW b \in Batches, Live(b)
    PROVE  /\ batches[b] \in Rows
           /\ Taken(b) = batches[b].payload
<1>1. batches[b] \in Rows
  BY DEF TypeOK, Live, Exists
<1>2. batches[b].payload \in Payloads
  BY <1>1, RowFields
<1>3. batch_items[b] = batches[b].payload.items
  BY DEF TypeOK
<1> QED
  BY <1>1, <1>2, <1>3 DEF Taken, Payloads

-----------------------------------------------------------------------------
(* How the two effects change one aggregate row.                           *)

(* What a submission adds to each row.                                     *)
LEMMA AddBatchRows ==
    ASSUME TypeOK, NEW p \in Payloads, NEW day \in Days, AddBatch(p, day)
    PROVE  /\ count' \in [Scopes -> [Shortcuts -> Nat]]
           /\ contributions' \in [Scopes -> [Shortcuts -> Nat]]
           /\ \A sc \in Scopes, s \in Shortcuts :
                 /\ count'[sc][s] >= count[sc][s]
                 /\ contributions'[sc][s] =
                       IF Touched(sc, s, p, day)
                       THEN contributions[sc][s] + 1 ELSE contributions[sc][s]
<1>1. \A sc \in Scopes, s \in Shortcuts :
          /\ count[sc][s] \in Nat
          /\ contributions[sc][s] \in Nat
          /\ Touched(sc, s, p, day) => p.items[s] \in Nat
  BY PayloadItems DEF TypeOK, Touched
<1>2. \A sc \in Scopes, s \in Shortcuts :
          /\ count'[sc][s] = IF Touched(sc, s, p, day)
                             THEN count[sc][s] + p.items[s] ELSE count[sc][s]
          /\ contributions'[sc][s] = IF Touched(sc, s, p, day)
                             THEN contributions[sc][s] + 1 ELSE contributions[sc][s]
  BY DEF AddBatch
<1>3. /\ count' \in [Scopes -> [Shortcuts -> Nat]]
      /\ contributions' \in [Scopes -> [Shortcuts -> Nat]]
  BY <1>1 DEF AddBatch
<1> QED
  BY <1>1, <1>2, <1>3

(* What a withdrawal takes from each row.                                  *)
LEMMA RemoveBatchRows ==
    ASSUME TypeOK, NEW p \in Payloads, NEW day \in Days,
           AggregatesCover(p, day), RemoveBatch(p, day)
    PROVE  /\ count' \in [Scopes -> [Shortcuts -> Nat]]
           /\ contributions' \in [Scopes -> [Shortcuts -> Nat]]
           /\ \A sc \in Scopes, s \in Shortcuts :
                 contributions'[sc][s] =
                       IF Touched(sc, s, p, day)
                       THEN contributions[sc][s] - 1 ELSE contributions[sc][s]
<1>1. \A sc \in Scopes, s \in Shortcuts :
          /\ count[sc][s] \in Nat
          /\ contributions[sc][s] \in Nat
          /\ Touched(sc, s, p, day) => /\ p.items[s] \in Nat
                                       /\ count[sc][s] >= p.items[s]
                                       /\ contributions[sc][s] > 0
  BY PayloadItems DEF TypeOK, Touched, AggregatesCover, RowCovers
<1>2. \A sc \in Scopes, s \in Shortcuts :
          /\ Touched(sc, s, p, day) => /\ count[sc][s] - p.items[s] \in Nat
                                       /\ contributions[sc][s] - 1 \in Nat
  BY <1>1
<1>3. /\ count' \in [Scopes -> [Shortcuts -> Nat]]
      /\ contributions' \in [Scopes -> [Shortcuts -> Nat]]
  BY <1>1, <1>2 DEF RemoveBatch
<1>4. \A sc \in Scopes, s \in Shortcuts :
          contributions'[sc][s] = IF Touched(sc, s, p, day)
                             THEN contributions[sc][s] - 1 ELSE contributions[sc][s]
  BY DEF RemoveBatch
<1> QED
  BY <1>3, <1>4

-----------------------------------------------------------------------------
(* Type correctness.                                                       *)

(* The empty tables have their types.                                      *)
LEMMA InitType == Init => TypeOK
  BY MaxDayAssumption DEF Init, TypeOK, Days, Live, Exists

(* A submission keeps the types.                                           *)
LEMMA SubmitNewType ==
    ASSUME TypeOK, NEW b \in Batches, NEW tok \in Tokens, NEW p \in Payloads,
           NEW day \in Days, SubmitNew(b, tok, p, day)
    PROVE  TypeOK'
<1>1. count' \in [Scopes -> [Shortcuts -> Nat]] /\ contributions' \in [Scopes -> [Shortcuts -> Nat]]
  BY AddBatchRows DEF SubmitNew
<1>2. /\ batches' \in [Batches -> Rows \cup {NoRow}]
      /\ batches'[b] = [state |-> "stored", token |-> tok, payload |-> p,
                        day |-> day, withdrawn |-> FALSE]
      /\ \A x \in Batches \ {b} : batches'[x] = batches[x]
  BY DEF SubmitNew, TypeOK, Rows
<1>3. /\ batch_items' \in [Batches -> ItemMaps \cup {NoItems}]
      /\ batch_items'[b] = p.items
      /\ \A x \in Batches \ {b} : batch_items'[x] = batch_items[x]
  BY PayloadItems DEF SubmitNew, TypeOK
<1>4. ASSUME NEW x \in Batches
      PROVE  batch_items'[x] = IF Live(x)' THEN batches'[x].payload.items ELSE NoItems
  <2>1. CASE x = b
    BY <1>2, <1>3, <2>1 DEF Live, Exists, NoRow
  <2>2. CASE x # b
    BY <1>2, <1>3, <2>2 DEF Live, Exists, TypeOK
  <2> QED
    BY <2>1, <2>2
<1> QED
  BY <1>1, <1>2, <1>3, <1>4 DEF SubmitNew, TypeOK

(* A withdrawal keeps the types: no row drops below zero.                  *)
LEMMA WithdrawLiveType ==
    ASSUME TypeOK, NEW b \in Batches, NEW tok \in Tokens, WithdrawLive(b, tok)
    PROVE  TypeOK'
<1> DEFINE row == batches[b]
<1>1. /\ Live(b)
      /\ row \in Rows
      /\ Taken(b) = row.payload
      /\ row.payload \in Payloads
      /\ row.day \in Days
  BY LiveItems, RowFields DEF WithdrawLive, WithdrawApplies
<1>2. AggregatesCover(row.payload, row.day) /\ RemoveBatch(row.payload, row.day)
  BY <1>1 DEF WithdrawLive
<1>3. count' \in [Scopes -> [Shortcuts -> Nat]] /\ contributions' \in [Scopes -> [Shortcuts -> Nat]]
  BY <1>1, <1>2, RemoveBatchRows
<1>4. /\ batches' \in [Batches -> Rows \cup {NoRow}]
      /\ batches'[b].withdrawn = TRUE
      /\ \A x \in Batches \ {b} : batches'[x] = batches[x]
  BY <1>1 DEF WithdrawLive, TypeOK, Rows
<1>5. /\ batch_items' \in [Batches -> ItemMaps \cup {NoItems}]
      /\ batch_items'[b] = NoItems
      /\ \A x \in Batches \ {b} : batch_items'[x] = batch_items[x]
  BY DEF WithdrawLive, TypeOK
<1>6. ASSUME NEW x \in Batches
      PROVE  batch_items'[x] = IF Live(x)' THEN batches'[x].payload.items ELSE NoItems
  <2>1. CASE x = b
    BY <1>4, <1>5, <2>1 DEF Live
  <2>2. CASE x # b
    BY <1>4, <1>5, <2>2 DEF Live, Exists, TypeOK
  <2> QED
    BY <2>1, <2>2
<1> QED
  BY <1>3, <1>4, <1>5, <1>6 DEF WithdrawLive, TypeOK

(* Every other step leaves the tables alone.                               *)
LEMMA NextCases ==
    ASSUME [Next]_vars
    PROVE  \/ \E b \in Batches, tok \in Tokens, p \in Payloads, day \in Days :
                 SubmitNew(b, tok, p, day)
           \/ \E b \in Batches, tok \in Tokens : WithdrawLive(b, tok)
           \/ server' = server /\ (today' = today \/ NextDay)
  BY DEF Next, vars, server, Post, Delete, SubmitSeen, WithdrawRefused,
         ServerError, NextDay

(* Every step keeps the types.                                             *)
LEMMA NextType == TypeOK /\ [Next]_vars => TypeOK'
<1> SUFFICES ASSUME TypeOK, [Next]_vars PROVE TypeOK'
  OBVIOUS
<1>1. CASE \E b \in Batches, tok \in Tokens, p \in Payloads, day \in Days :
              SubmitNew(b, tok, p, day)
  BY <1>1, SubmitNewType
<1>2. CASE \E b \in Batches, tok \in Tokens : WithdrawLive(b, tok)
  BY <1>2, WithdrawLiveType
<1>3. CASE server' = server /\ (today' = today \/ NextDay)
  <2>1. today' \in Days
    BY <1>3, MaxDayAssumption DEF TypeOK, NextDay, Days
  <2> QED
    BY <1>3, <2>1 DEF TypeOK, server, Live, Exists
<1> QED
  BY <1>1, <1>2, <1>3, NextCases

(* The tables hold values of their types in every reachable state, the     *)
(* items of a batch are those of its body while it is live and gone after, *)
(* and no count ever drops below zero.                                     *)
THEOREM TypeCorrect == Spec => []TypeOK
<1>1. Init => TypeOK
  BY InitType
<1>2. TypeOK /\ [Next]_vars => TypeOK'
  BY NextType
<1> QED
  BY <1>1, <1>2, PTL DEF Spec

-----------------------------------------------------------------------------
(* Aggregates and batches.                                                 *)

ContributionsInv == TypeOK /\ ContributionsMatchBatches

(* The contributors of a row can be counted.                               *)
LEMMA ContributorsFinite ==
    ASSUME NEW sc, NEW s
    PROVE  IsFiniteSet(Contributors(sc, s)) /\ Cardinality(Contributors(sc, s)) \in Nat
<1>1. Contributors(sc, s) \in SUBSET Batches
  BY DEF Contributors
<1> QED
  BY <1>1, BatchesAssumption, FS_Subset, FS_CardinalityType

(* In the empty tables nothing is counted.                                 *)
LEMMA InitContributions == Init => ContributionsMatchBatches
<1> SUFFICES ASSUME Init, NEW sc \in Scopes, NEW s \in Shortcuts
             PROVE  contributions[sc][s] = Cardinality(Contributors(sc, s))
  BY DEF ContributionsMatchBatches
<1>1. Contributors(sc, s) = {}
  BY DEF Init, Contributors, Live, Exists
<1> QED
  BY <1>1, FS_EmptySet DEF Init

(* A new batch joins exactly the contributors of the rows it is added to.  *)
LEMMA SubmitNewContributions ==
    ASSUME ContributionsInv, NEW b \in Batches, NEW tok \in Tokens,
           NEW p \in Payloads, NEW day \in Days, SubmitNew(b, tok, p, day)
    PROVE  ContributionsMatchBatches'
<1> SUFFICES ASSUME NEW sc \in Scopes, NEW s \in Shortcuts
             PROVE  contributions'[sc][s] = Cardinality(Contributors(sc, s)')
  BY DEF ContributionsMatchBatches
<1> DEFINE old == Contributors(sc, s)
<1>1. /\ batches'[b] = [state |-> "stored", token |-> tok, payload |-> p,
                        day |-> day, withdrawn |-> FALSE]
      /\ \A x \in Batches \ {b} : batches'[x] = batches[x]
  BY DEF SubmitNew, ContributionsInv, TypeOK
<1>2. b \notin old
  BY DEF SubmitNew, Contributors, Live
<1>3. \A x \in Batches \ {b} : x \in Contributors(sc, s)' <=> x \in old
  BY <1>1 DEF Contributors, Live, Exists, Touched
<1>4. b \in Contributors(sc, s)' <=> Touched(sc, s, p, day)
  BY <1>1 DEF Contributors, Live, Exists, NoRow, Touched
<1>5. contributions[sc][s] = Cardinality(old)
  BY DEF ContributionsInv, ContributionsMatchBatches
<1>6. contributions'[sc][s] = IF Touched(sc, s, p, day)
                              THEN contributions[sc][s] + 1 ELSE contributions[sc][s]
  BY AddBatchRows DEF SubmitNew, ContributionsInv
<1>7. old \subseteq Batches /\ Contributors(sc, s)' \subseteq Batches
  BY DEF Contributors
<1>8. CASE Touched(sc, s, p, day)
  <2>1. Contributors(sc, s)' = old \cup {b}
    BY <1>3, <1>4, <1>7, <1>8
  <2>2. Cardinality(old \cup {b}) = Cardinality(old) + 1
    BY <1>2, ContributorsFinite, FS_AddElement
  <2> QED
    BY <2>1, <2>2, <1>5, <1>6, <1>8
<1>9. CASE ~Touched(sc, s, p, day)
  <2>1. Contributors(sc, s)' = old
    BY <1>2, <1>3, <1>4, <1>7, <1>9
  <2> QED
    BY <2>1, <1>5, <1>6, <1>9
<1> QED
  BY <1>8, <1>9

(* A withdrawn batch leaves exactly the rows it had been added to.         *)
LEMMA WithdrawLiveContributions ==
    ASSUME ContributionsInv, NEW b \in Batches, NEW tok \in Tokens,
           WithdrawLive(b, tok)
    PROVE  ContributionsMatchBatches'
<1> SUFFICES ASSUME NEW sc \in Scopes, NEW s \in Shortcuts
             PROVE  contributions'[sc][s] = Cardinality(Contributors(sc, s)')
  BY DEF ContributionsMatchBatches
<1> DEFINE old == Contributors(sc, s)
           row == batches[b]
<1>1. /\ Live(b)
      /\ row \in Rows
      /\ Taken(b) = row.payload
      /\ row.payload \in Payloads
      /\ row.day \in Days
  BY LiveItems, RowFields DEF WithdrawLive, WithdrawApplies, ContributionsInv
<1>2. /\ batches'[b].withdrawn = TRUE
      /\ \A x \in Batches \ {b} : batches'[x] = batches[x]
  BY <1>1 DEF WithdrawLive, ContributionsInv, TypeOK, Rows
<1>3. \A x \in Batches \ {b} : x \in Contributors(sc, s)' <=> x \in old
  BY <1>2 DEF Contributors, Live, Exists, Touched
<1>4. b \notin Contributors(sc, s)'
  BY <1>2 DEF Contributors, Live
<1>5. b \in old <=> Touched(sc, s, row.payload, row.day)
  BY <1>1 DEF Contributors
<1>6. contributions[sc][s] = Cardinality(old)
  BY DEF ContributionsInv, ContributionsMatchBatches
<1>7. contributions'[sc][s] = IF Touched(sc, s, row.payload, row.day)
                              THEN contributions[sc][s] - 1 ELSE contributions[sc][s]
  BY <1>1, RemoveBatchRows DEF WithdrawLive, ContributionsInv
<1>8. Contributors(sc, s)' = old \ {b}
  BY <1>3, <1>4 DEF Contributors
<1>9. Cardinality(old \ {b}) = IF b \in old THEN Cardinality(old) - 1 ELSE Cardinality(old)
  BY ContributorsFinite, FS_RemoveElement
<1> QED
  BY <1>5, <1>6, <1>7, <1>8, <1>9

(* Every step keeps contributions right.                                   *)
LEMMA NextContributions == ContributionsInv /\ [Next]_vars => ContributionsInv'
<1> SUFFICES ASSUME ContributionsInv, [Next]_vars PROVE ContributionsInv'
  OBVIOUS
<1>1. TypeOK'
  BY NextType DEF ContributionsInv
<1>2. CASE \E b \in Batches, tok \in Tokens, p \in Payloads, day \in Days :
              SubmitNew(b, tok, p, day)
  BY <1>1, <1>2, SubmitNewContributions DEF ContributionsInv
<1>3. CASE \E b \in Batches, tok \in Tokens : WithdrawLive(b, tok)
  BY <1>1, <1>3, WithdrawLiveContributions DEF ContributionsInv
<1>4. CASE server' = server /\ (today' = today \/ NextDay)
  <2>1. \A sc \in Scopes, s \in Shortcuts : Contributors(sc, s)' = Contributors(sc, s)
    BY <1>4 DEF server, Contributors, Live, Exists
  <2> QED
    BY <1>1, <1>4, <2>1 DEF ContributionsInv, ContributionsMatchBatches, server
<1> QED
  BY <1>2, <1>3, <1>4, NextCases

(* Types and contributions, in every behaviour.                            *)
LEMMA ContributionsInvariant == Spec => []ContributionsInv
<1>1. Init => ContributionsInv
  BY InitType, InitContributions DEF ContributionsInv
<1> QED
  BY <1>1, NextContributions, PTL DEF Spec

(* In every reachable state contributions of every row of all eight tables *)
(* is the number of stored, not withdrawn batches with that category in    *)
(* the row's scope.                                                        *)
THEOREM ContributionsCorrect == Spec => []ContributionsMatchBatches
<1>1. ContributionsInv => ContributionsMatchBatches
  BY DEF ContributionsInv
<1> QED
  BY <1>1, ContributionsInvariant, PTL

-----------------------------------------------------------------------------
(* The counts of the aggregates.                                           *)

CountsInv == ContributionsInv /\ CountsMatchBatches

(* What each contributor brings into one row.                              *)
Amounts(sc, s) == [b \in Contributors(sc, s) |-> batches[b].payload.items[s]]

(* What a stored batch adds to a row is positive.                          *)
LEMMA RowAmount ==
    ASSUME NEW r \in Rows, NEW s \in DOMAIN r.payload.items
    PROVE  r.payload.items[s] \in Nat \ {0}
  BY RowFields, PayloadItems

(* A row is the sum over its contributors of what they added.              *)
LEMMA CountIsSum ==
    ASSUME CountsInv, NEW sc \in Scopes, NEW s \in Shortcuts
    PROVE  /\ count[sc][s] = SumFunctionOnSet(Amounts(sc, s), Contributors(sc, s))
           /\ IsFiniteSet(Contributors(sc, s))
           /\ \A b \in Contributors(sc, s) : /\ Amounts(sc, s)[b] = batches[b].payload.items[s]
                                             /\ Amounts(sc, s)[b] \in Nat \ {0}
<1>1. \A b \in Contributors(sc, s) : batches[b] \in Rows /\ s \in DOMAIN batches[b].payload.items
  BY DEF CountsInv, ContributionsInv, TypeOK, Contributors, Live, Exists, Touched
<1>2. count[sc][s] = SumFunction(Amounts(sc, s))
  BY DEF CountsInv, CountsMatchBatches, Amounts
<1>3. DOMAIN Amounts(sc, s) = Contributors(sc, s)
  BY DEF Amounts
<1> QED
  BY <1>1, <1>2, <1>3, RowAmount, ContributorsFinite DEF Amounts, SumFunction

(* In the empty tables nothing is summed.                                  *)
LEMMA InitCounts == Init => CountsMatchBatches
<1> SUFFICES ASSUME Init, NEW sc \in Scopes, NEW s \in Shortcuts
             PROVE  count[sc][s] = SumFunction(Amounts(sc, s))
  BY DEF CountsMatchBatches, Amounts
<1>1. Contributors(sc, s) = {}
  BY DEF Init, Contributors, Live, Exists
<1>2. DOMAIN Amounts(sc, s) = {}
  BY <1>1 DEF Amounts
<1> QED
  BY <1>2, SumEmpty DEF Init, SumFunction

(* A new batch adds to each row of its scopes what it will be counted for. *)
LEMMA SubmitNewCounts ==
    ASSUME CountsInv, NEW b \in Batches, NEW tok \in Tokens,
           NEW p \in Payloads, NEW day \in Days, SubmitNew(b, tok, p, day)
    PROVE  CountsMatchBatches'
<1> SUFFICES ASSUME NEW sc \in Scopes, NEW s \in Shortcuts
             PROVE  count'[sc][s] = SumFunction(Amounts(sc, s)')
  BY DEF CountsMatchBatches, Amounts
<1> DEFINE old == Contributors(sc, s)
           new == Contributors(sc, s)'
           f == Amounts(sc, s)
           g == Amounts(sc, s)'
<1>1. /\ count[sc][s] = SumFunctionOnSet(f, old)
      /\ IsFiniteSet(old)
      /\ \A x \in old : f[x] = batches[x].payload.items[s] /\ f[x] \in Nat \ {0}
  BY CountIsSum
<1>2. /\ batches'[b] = [state |-> "stored", token |-> tok, payload |-> p,
                        day |-> day, withdrawn |-> FALSE]
      /\ \A x \in Batches \ {b} : batches'[x] = batches[x]
  BY DEF SubmitNew, CountsInv, ContributionsInv, TypeOK
<1>3. b \notin old /\ old \subseteq Batches /\ new \subseteq Batches
  BY DEF SubmitNew, Contributors, Live
<1>4. \A x \in Batches \ {b} : x \in new <=> x \in old
  BY <1>2 DEF Contributors, Live, Exists, Touched
<1>5. b \in new <=> Touched(sc, s, p, day)
  BY <1>2 DEF Contributors, Live, Exists, NoRow, Touched
<1>6. DOMAIN g = new /\ \A x \in new : g[x] = batches'[x].payload.items[s]
  BY DEF Amounts
<1>7. SumFunction(g) = SumFunctionOnSet(g, new)
  BY <1>6 DEF SumFunction
<1>8. count'[sc][s] = IF Touched(sc, s, p, day)
                      THEN count[sc][s] + p.items[s] ELSE count[sc][s]
  BY DEF SubmitNew, AddBatch
<1> HIDE DEF old, new, f, g
<1>9. \A x \in old : g[x] = f[x] /\ f[x] \in Int
  BY <1>1, <1>2, <1>3, <1>4, <1>6
<1>10. SumFunctionOnSet(f, old) = SumFunctionOnSet(g, old)
  BY <1>1, <1>9, SumAgree
<1>11. CASE Touched(sc, s, p, day)
  <2>1. b \in new /\ new = old \cup {b} /\ new \ {b} = old
    BY <1>3, <1>4, <1>5, <1>11
  <2>2. g[b] = p.items[s] /\ g[b] \in Int
    BY <1>2, <1>6, <1>11, <2>1, PayloadItems DEF Touched
  <2>3. IsFiniteSet(new)
    BY <1>1, <2>1, FS_AddElement
  <2>4. \A x \in new : g[x] \in Int
    BY <1>9, <2>1, <2>2
  <2>5. /\ SumFunctionOnSet(g, old) \in Int
        /\ SumFunctionOnSet(g, new) = g[b] + SumFunctionOnSet(g, old)
    BY <2>1, <2>3, <2>4, SumRemove
  <2> QED
    BY <1>1, <1>7, <1>8, <1>10, <1>11, <2>2, <2>5 DEF g
<1>12. CASE ~Touched(sc, s, p, day)
  <2>1. new = old
    BY <1>3, <1>4, <1>5, <1>12
  <2> QED
    BY <1>1, <1>7, <1>8, <1>10, <1>12, <2>1 DEF g
<1> QED
  BY <1>11, <1>12

(* A withdrawal takes out of each row what the batch was counted for.      *)
LEMMA WithdrawLiveCounts ==
    ASSUME CountsInv, NEW b \in Batches, NEW tok \in Tokens, WithdrawLive(b, tok)
    PROVE  CountsMatchBatches'
<1> SUFFICES ASSUME NEW sc \in Scopes, NEW s \in Shortcuts
             PROVE  count'[sc][s] = SumFunction(Amounts(sc, s)')
  BY DEF CountsMatchBatches, Amounts
<1> DEFINE old == Contributors(sc, s)
           new == Contributors(sc, s)'
           f == Amounts(sc, s)
           g == Amounts(sc, s)'
           row == batches[b]
<1>1. /\ count[sc][s] = SumFunctionOnSet(f, old)
      /\ IsFiniteSet(old)
      /\ \A x \in old : f[x] = batches[x].payload.items[s] /\ f[x] \in Nat \ {0}
  BY CountIsSum
<1>2. /\ Live(b)
      /\ row \in Rows
      /\ Taken(b) = row.payload
  BY LiveItems DEF WithdrawLive, WithdrawApplies, CountsInv, ContributionsInv
<1>3. /\ batches'[b].withdrawn = TRUE
      /\ \A x \in Batches \ {b} : batches'[x] = batches[x]
  BY <1>2 DEF WithdrawLive, CountsInv, ContributionsInv, TypeOK, Rows
<1>4. \A x \in Batches \ {b} : x \in new <=> x \in old
  BY <1>3 DEF Contributors, Live, Exists, Touched
<1>5. /\ b \notin new /\ new \subseteq Batches /\ old \subseteq Batches
      /\ b \in old <=> Touched(sc, s, row.payload, row.day)
  BY <1>2, <1>3 DEF Contributors, Live
<1>6. DOMAIN g = new /\ \A x \in new : g[x] = batches'[x].payload.items[s]
  BY DEF Amounts
<1>7. SumFunction(g) = SumFunctionOnSet(g, new)
  BY <1>6 DEF SumFunction
<1>8. count'[sc][s] = IF Touched(sc, s, row.payload, row.day)
                      THEN count[sc][s] - row.payload.items[s] ELSE count[sc][s]
  BY <1>2 DEF WithdrawLive, RemoveBatch
<1> HIDE DEF old, new, f, g, row
<1>9. new = old \ {b}
  BY <1>4, <1>5
<1>10. IsFiniteSet(new)
  BY <1>1, <1>9, FS_RemoveElement
<1>11. \A x \in new : f[x] = g[x] /\ f[x] \in Int
  BY <1>1, <1>3, <1>4, <1>5, <1>6, <1>9
<1>12. SumFunctionOnSet(f, new) = SumFunctionOnSet(g, new)
  BY <1>10, <1>11, SumAgree
<1>13. CASE b \in old
  <2>1. f[b] = row.payload.items[s] /\ f[b] \in Int /\ \A x \in old : f[x] \in Int
    BY <1>1, <1>13 DEF row
  <2>2. /\ SumFunctionOnSet(f, new) \in Int
        /\ SumFunctionOnSet(f, old) = f[b] + SumFunctionOnSet(f, new)
    BY <1>1, <1>9, <1>13, <2>1, SumRemove
  <2> QED
    BY <1>1, <1>5, <1>7, <1>8, <1>12, <1>13, <2>1, <2>2 DEF g
<1>14. CASE b \notin old
  <2>1. new = old
    BY <1>9, <1>14
  <2> QED
    BY <1>1, <1>5, <1>7, <1>8, <1>12, <1>14, <2>1 DEF g
<1> QED
  BY <1>13, <1>14

(* Every step keeps the sums right.                                        *)
LEMMA NextCounts == CountsInv /\ [Next]_vars => CountsInv'
<1> SUFFICES ASSUME CountsInv, [Next]_vars PROVE CountsInv'
  OBVIOUS
<1>1. ContributionsInv'
  BY NextContributions DEF CountsInv
<1>2. CASE \E b \in Batches, tok \in Tokens, p \in Payloads, day \in Days :
              SubmitNew(b, tok, p, day)
  BY <1>1, <1>2, SubmitNewCounts DEF CountsInv
<1>3. CASE \E b \in Batches, tok \in Tokens : WithdrawLive(b, tok)
  BY <1>1, <1>3, WithdrawLiveCounts DEF CountsInv
<1>4. CASE server' = server /\ (today' = today \/ NextDay)
  <2>1. \A sc \in Scopes, s \in Shortcuts : Contributors(sc, s)' = Contributors(sc, s)
    BY <1>4 DEF server, Contributors, Live, Exists
  <2>2. \A sc \in Scopes, s \in Shortcuts : Amounts(sc, s)' = Amounts(sc, s)
    BY <1>4, <2>1 DEF server, Amounts
  <2>3. \A sc \in Scopes, s \in Shortcuts : count'[sc][s] = SumFunction(Amounts(sc, s)')
    BY <1>4, <2>2 DEF CountsInv, CountsMatchBatches, Amounts, server
  <2> QED
    BY <1>1, <2>3 DEF CountsInv, CountsMatchBatches, Amounts
<1> QED
  BY <1>2, <1>3, <1>4, NextCases

(* Types, contributions and sums, in every behaviour.                      *)
LEMMA CountsInvariant == Spec => []CountsInv
<1>1. Init => CountsInv
  BY InitType, InitContributions, InitCounts DEF CountsInv, ContributionsInv
<1> QED
  BY <1>1, NextCounts, PTL DEF Spec

(* In every reachable state count of every row of all eight tables is the  *)
(* sum, over the live batches with that category in the row's scope, of    *)
(* the counts they were stored with: a withdrawal takes back exactly what  *)
(* the submission brought in.                                              *)
THEOREM CountsCorrect == Spec => []CountsMatchBatches
<1>1. CountsInv => CountsMatchBatches
  BY DEF CountsInv
<1> QED
  BY <1>1, CountsInvariant, PTL

(* The conditions of the withdrawal's updates: no row of a live batch is   *)
(* smaller than what the batch was counted for, so that the function never *)
(* raises and the owner can always withdraw.                               *)
LEMMA LiveIsCovered ==
    ASSUME CountsInv, NEW b \in Batches, Live(b),
           NEW sc \in Scopes, NEW s \in Shortcuts,
           Touched(sc, s, batches[b].payload, batches[b].day)
    PROVE  RowCovers(sc, s, batches[b].payload.items[s])
<1>1. /\ count[sc][s] = SumFunctionOnSet(Amounts(sc, s), Contributors(sc, s))
      /\ IsFiniteSet(Contributors(sc, s))
      /\ \A x \in Contributors(sc, s) : /\ Amounts(sc, s)[x] = batches[x].payload.items[s]
                                        /\ Amounts(sc, s)[x] \in Nat \ {0}
  BY CountIsSum
<1>2. b \in Contributors(sc, s)
  BY DEF Contributors
<1>3. Amounts(sc, s)[b] <= SumFunctionOnSet(Amounts(sc, s), Contributors(sc, s))
  <2>1. \A x \in Contributors(sc, s) : Amounts(sc, s)[x] \in Nat
    BY <1>1
  <2> QED
    BY <1>1, <1>2, <2>1, SumOfNaturals
<1>4. contributions[sc][s] = Cardinality(Contributors(sc, s))
  BY DEF CountsInv, ContributionsInv, ContributionsMatchBatches
<1>5. Cardinality(Contributors(sc, s)) \in Nat /\ Cardinality(Contributors(sc, s)) # 0
  BY <1>1, <1>2, FS_EmptySet, FS_CardinalityType
<1>6. count[sc][s] \in Nat
  BY DEF CountsInv, ContributionsInv, TypeOK
<1> QED
  BY <1>1, <1>2, <1>3, <1>4, <1>5, <1>6 DEF RowCovers

(* WithdrawLive's own check holds whenever a live batch is withdrawn: the  *)
(* owner's withdrawal of a live batch is never turned down by the tables.  *)
WithdrawalNeverRaises ==
    \A b \in Batches : Live(b) => AggregatesCover(Taken(b), batches[b].day)

(* The tables never fall behind their batches: whoever withdraws whatever  *)
(* live batch, every row is large enough (withdraw_community_batch).       *)
THEOREM WithdrawalAlwaysCovered == Spec => []WithdrawalNeverRaises
<1>1. CountsInv => WithdrawalNeverRaises
  <2> SUFFICES ASSUME CountsInv, NEW b \in Batches, Live(b)
               PROVE  AggregatesCover(Taken(b), batches[b].day)
    BY DEF WithdrawalNeverRaises
  <2>1. batches[b] \in Rows /\ Taken(b) = batches[b].payload
    BY LiveItems DEF CountsInv, ContributionsInv
  <2>2. batches[b].payload \in Payloads /\ batches[b].day \in Days
    BY <2>1, RowFields
  <2>3. ScopesOf(batches[b].payload, batches[b].day) \subseteq Scopes
    BY <2>2 DEF ScopesOf, Scopes, Payloads
  <2>4. DOMAIN batches[b].payload.items \subseteq Shortcuts
    BY <2>2, PayloadItems
  <2>5. \A sc \in ScopesOf(batches[b].payload, batches[b].day),
           s \in DOMAIN batches[b].payload.items :
              RowCovers(sc, s, batches[b].payload.items[s])
    BY <2>3, <2>4, LiveIsCovered DEF Touched
  <2> QED
    BY <2>1, <2>5 DEF AggregatesCover
<1> QED
  BY <1>1, CountsInvariant, PTL

-----------------------------------------------------------------------------
(* The publication threshold.                                              *)

(* The days that a ranking query reads, and the batches behind its answer. *)
DaysRead(view) ==
    IF view.window = Null THEN {Null} ELSE {d \in Days : d >= CutoffDay(view)}

Backers(view, s) ==
    {b \in Batches : /\ Live(b)
                     /\ s \in DOMAIN batches[b].payload.items
                     /\ InView(b, view)}

(* A query reads finitely many rows, one for each day of its period.       *)
LEMMA ScopesReadFinite ==
    ASSUME NEW view \in Views, today \in Days
    PROVE  /\ ScopesRead(view) = [tag : {view.tag}, experience : {view.experience},
                                  day : DaysRead(view)]
           /\ IsFiniteSet(ScopesRead(view))
           /\ ScopesRead(view) \subseteq Scopes
<1>1. ScopesRead(view) = [tag : {view.tag}, experience : {view.experience},
                          day : DaysRead(view)]
  BY DEF ScopesRead, DaysRead
<1>2. DaysRead(view) \subseteq Days \cup {Null}
  BY DEF DaysRead
<1>3. IsFiniteSet(DaysRead(view))
  <2>1. IsFiniteSet(Days)
    BY MaxDayAssumption, FS_Interval DEF Days
  <2>2. IsFiniteSet(Days \cup {Null})
    BY <2>1, FS_AddElement
  <2> QED
    BY <1>2, <2>2, FS_Subset
<1> DEFINE f == [d \in DaysRead(view) |->
                    [tag |-> view.tag, experience |-> view.experience, day |-> d]]
<1>4. f \in Surjection(DaysRead(view), ScopesRead(view))
  BY <1>1 DEF Surjection
<1>5. IsFiniteSet(ScopesRead(view))
  <2> HIDE DEF f
  <2> QED
    BY <1>3, <1>4, FS_Surjection
<1>6. ScopesRead(view) \subseteq Scopes
  BY <1>1, <1>2 DEF Views, Scopes
<1> QED
  BY <1>1, <1>5, <1>6

(* What a query sums over the rows it reads is the number of different     *)
(* batches in them: no batch is in the rows of two days.                   *)
LEMMA RankedIsBacked ==
    ASSUME ContributionsInv, NEW view \in Views, NEW s \in Shortcuts
    PROVE  /\ RankedContributions(view, s) \in Nat
           /\ RankedContributions(view, s) <= Cardinality(Backers(view, s))
<1> DEFINE R == ScopesRead(view)
           F == [sc \in R |-> Contributors(sc, s)]
           f == [sc \in R |-> Cardinality(F[sc])]
           all == UNION {F[sc] : sc \in R}
<1>1. today \in Days
  BY DEF ContributionsInv, TypeOK
<1>2. /\ IsFiniteSet(R) /\ R \subseteq Scopes
      /\ R = [tag : {view.tag}, experience : {view.experience}, day : DaysRead(view)]
  BY <1>1, ScopesReadFinite
<1>3. RankedContributions(view, s) = SumFunctionOnSet(f, R)
  <2>1. \A sc \in R : contributions[sc][s] = Cardinality(F[sc])
    BY <1>2 DEF ContributionsInv, ContributionsMatchBatches
  <2>2. [sc \in R |-> contributions[sc][s]] = f
    BY <2>1
  <2>3. DOMAIN f = R
    OBVIOUS
  <2> HIDE DEF f
  <2> QED
    BY <2>2, <2>3 DEF RankedContributions, SumFunction
<1>4. F \in [R -> SUBSET Batches]
  BY DEF Contributors
<1>5. ASSUME NEW x \in R, NEW y \in R, x # y PROVE F[x] \cap F[y] = {}
  <2>1. x.tag = y.tag /\ x.experience = y.experience
    BY <1>2
  <2>2. x.day # y.day /\ x.day \in DaysRead(view) /\ y.day \in DaysRead(view)
    BY <1>2, <1>5
  <2>3. x.day # Null /\ y.day # Null
    BY <2>2, NullAssumption DEF DaysRead, Days
  <2>4. \A b \in F[x] : batches[b].day = x.day
    BY <2>3 DEF Contributors, Touched, ScopesOf
  <2>5. \A b \in F[y] : batches[b].day = y.day
    BY <2>3 DEF Contributors, Touched, ScopesOf
  <2> QED
    BY <2>2, <2>4, <2>5
<1>6. SumFunctionOnSet(f, R) = Cardinality(all)
  <2>1. IsFiniteSet(R) /\ IsFiniteSet(Batches)
    BY <1>2, BatchesAssumption
  <2> HIDE DEF R, F
  <2>2. \A x, y \in R : x # y => F[x] \cap F[y] = {}
    BY <1>5
  <2> QED
    BY <2>1, <2>2, <1>4, SumOfDisjoint
<1>7. ASSUME NEW sc \in R, NEW b \in F[sc] PROVE b \in Backers(view, s)
  <2>1. /\ b \in Batches /\ Live(b)
        /\ Touched(sc, s, batches[b].payload, batches[b].day)
    BY DEF Contributors
  <2>2. sc.tag = view.tag /\ sc.experience = view.experience /\ sc.day \in DaysRead(view)
    BY <1>2
  <2>3. /\ view.tag \in {Null, batches[b].payload.tag}
        /\ view.experience \in {Null, batches[b].payload.experience}
        /\ sc.day \in {Null, batches[b].day}
    BY <2>1, <2>2 DEF Touched, ScopesOf
  <2>4. ASSUME view.window # Null PROVE batches[b].day > today - view.window
    <3>1. view.window \in Nat /\ today \in Int
      <4>1. view.window \in Windows
        BY <2>4 DEF Views
      <4>2. view.window \in Nat
        BY <4>1, WindowsAssumption
      <4>3. today \in Int
        BY <1>1, MaxDayAssumption DEF Days
      <4> QED
        BY <4>2, <4>3
    <3>2. sc.day \in Days /\ sc.day >= today - (view.window - 1)
      BY <2>2, <2>4 DEF DaysRead, CutoffDay
    <3>3. batches[b].day = sc.day
      BY <2>3, <3>2, NullAssumption DEF Days
    <3>4. sc.day \in Int
      BY <3>2 DEF Days
    <3> QED
      BY <3>1, <3>2, <3>3, <3>4
  <2> QED
    BY <2>1, <2>3, <2>4 DEF Backers, InView, Touched
<1>8. all \in SUBSET Backers(view, s)
  BY <1>7
<1>9. IsFiniteSet(Backers(view, s))
  <2>1. Backers(view, s) \in SUBSET Batches
    BY DEF Backers
  <2> QED
    BY <2>1, BatchesAssumption, FS_Subset
<1>10. Cardinality(all) \in Nat /\ Cardinality(all) <= Cardinality(Backers(view, s))
  <2> HIDE DEF all
  <2> QED
    BY <1>8, <1>9, FS_Subset, FS_CardinalityType
<1> QED
  BY <1>3, <1>6, <1>10

(* The privacy threshold, for every ranking query: a category is published *)
(* only while at least Threshold different live batches with the asked tag *)
(* and experience, received in the asked period, contain it.               *)
THEOREM PublishedBacked == Spec => []PublishedIsBacked
<1>1. ContributionsInv => PublishedIsBacked
  <2> SUFFICES ASSUME ContributionsInv, NEW view \in Views, NEW row \in Ranking(view)
               PROVE  Cardinality(Backers(view, row.shortcut_id)) >= Threshold
    BY DEF PublishedIsBacked, Backers
  <2>1. PICK s \in Shortcuts : /\ RankedContributions(view, s) >= Threshold
                               /\ row.shortcut_id = s
    BY DEF Ranking
  <2>2. /\ RankedContributions(view, s) \in Nat
        /\ RankedContributions(view, s) <= Cardinality(Backers(view, s))
    BY RankedIsBacked
  <2>3. Backers(view, s) \in SUBSET Batches
    BY DEF Backers
  <2>4. Cardinality(Backers(view, s)) \in Nat
    BY <2>3, BatchesAssumption, FS_Subset, FS_CardinalityType
  <2> QED
    BY <2>1, <2>2, <2>4, ThresholdAssumption
<1> QED
  BY <1>1, ContributionsInvariant, PTL

-----------------------------------------------------------------------------
(* Action properties.                                                      *)

(* What a step may not change of the rows.                                 *)
RowsKept ==
    \A b \in Batches : Exists(b) =>
        /\ batches'[b] # NoRow
        /\ batches'[b].token = batches[b].token
        /\ batches'[b].payload = batches[b].payload
        /\ batches'[b].day = batches[b].day
        /\ batches[b].withdrawn => batches'[b].withdrawn

(* Every step keeps what a stored row says.                                *)
LEMMA NextKeepsRows == ASSUME TypeOK, [Next]_vars PROVE RowsKept
<1> USE DEF RowsKept
<1>1. CASE \E b \in Batches, tok \in Tokens, p \in Payloads, day \in Days :
              SubmitNew(b, tok, p, day)
  BY <1>1 DEF SubmitNew, Exists, TypeOK
<1>2. CASE \E b \in Batches, tok \in Tokens : WithdrawLive(b, tok)
  <2>1. PICK b \in Batches, tok \in Tokens : WithdrawLive(b, tok)
    BY <1>2
  <2>2. batches[b] \in Rows
    BY <2>1, LiveItems DEF WithdrawLive, WithdrawApplies
  <2>3. /\ batches'[b] = [state |-> batches[b].state, token |-> batches[b].token,
                          payload |-> batches[b].payload, day |-> batches[b].day,
                          withdrawn |-> TRUE]
        /\ \A x \in Batches \ {b} : batches'[x] = batches[x]
    BY <2>1, <2>2 DEF WithdrawLive, TypeOK, Rows
  <2> QED
    BY <2>3 DEF Exists, NoRow
<1>3. CASE server' = server /\ (today' = today \/ NextDay)
  BY <1>3 DEF server, Exists
<1> QED
  BY <1>1, <1>2, <1>3, NextCases

(* Whatever is submitted or withdrawn later, a stored row keeps its token, *)
(* contents and day, and a tombstone stays a tombstone.                    *)
THEOREM RowsImmutable == Spec => RowsAreImmutable
<1>1. TypeOK /\ [Next]_vars => [RowsKept]_vars
  BY NextKeepsRows
<1> QED
  BY <1>1, TypeCorrect, PTL DEF Spec, RowsAreImmutable, RowsKept

(* No aggregate goes down except by a withdrawal that names a live batch   *)
(* and carries the token it was stored with.                               *)
THEOREM OwnerOnly == Spec => OnlyOwnerRemoves
<1> DEFINE Lowered == \E sc \in Scopes, s \in Shortcuts :
                          \/ count'[sc][s] < count[sc][s]
                          \/ contributions'[sc][s] < contributions[sc][s]
           ByOwner == /\ reply'.op = "withdraw" /\ reply'.status = "withdrawn"
                      /\ Live(reply'.batch)
                      /\ batches[reply'.batch].token = reply'.token
<1>1. TypeOK /\ [Next]_vars => (Lowered => ByOwner)
  <2> SUFFICES ASSUME TypeOK, [Next]_vars, Lowered PROVE ByOwner
    OBVIOUS
  <2>1. \A sc \in Scopes, s \in Shortcuts :
            count[sc][s] \in Nat /\ contributions[sc][s] \in Nat
    BY DEF TypeOK
  <2>2. CASE \E b \in Batches, tok \in Tokens, p \in Payloads, day \in Days :
                SubmitNew(b, tok, p, day)
    <3>1. \A sc \in Scopes, s \in Shortcuts :
              /\ count'[sc][s] \in Nat /\ count'[sc][s] >= count[sc][s]
              /\ contributions'[sc][s] \in Nat /\ contributions'[sc][s] >= contributions[sc][s]
      BY <2>1, <2>2, AddBatchRows DEF SubmitNew
    <3> QED
      BY <2>1, <3>1
  <2>3. CASE \E b \in Batches, tok \in Tokens : WithdrawLive(b, tok)
    BY <2>3 DEF WithdrawLive, WithdrawApplies, Answer
  <2>4. CASE server' = server /\ (today' = today \/ NextDay)
    BY <2>1, <2>4 DEF server
  <2> QED
    BY <2>2, <2>3, <2>4, NextCases
<1>2. TypeOK /\ [Next]_vars => [Lowered => ByOwner]_vars
  BY <1>1
<1> QED
  BY <1>2, TypeCorrect, PTL DEF Spec, OnlyOwnerRemoves
=============================================================================
