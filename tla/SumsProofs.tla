----------------------------- MODULE SumsProofs -----------------------------
(***************************************************************************)
(* Facts about the sum of a function over a finite set, which the totals   *)
(* of the other modules are: a day's payouts, a day's mints, what an       *)
(* account was credited, what an address holds.  MapThenSumSet folds the   *)
(* set in an order nobody knows, by a recursive function; the lemmas say   *)
(* that the function exists, that the order does not matter, and what      *)
(* follows.                                                                *)
(*                                                                         *)
(* They are stated of a function f rather than of an operator, so that     *)
(* they can be instantiated, and proved by a smallest counterexample.      *)
(***************************************************************************)
EXTENDS Sums, FiniteSetTheorems, WellFoundedInduction, TLAPS

\* The element of S the fold takes first.
FirstOf(S) == CHOOSE x \in S : TRUE

-----------------------------------------------------------------------------
(* The recursion behind a sum.                                             *)

\* Subsets of a finite set have a smallest: the form of induction the proofs use.
\* A lemma that fails for some subset fails for one all of whose subsets it holds of.
LEMMA MinimalSubset ==
  ASSUME NEW S, IsFiniteSet(S), NEW T, T \subseteq SUBSET S, T # {}
  PROVE  \E x \in T : \A y \in T : y \subseteq x => y = x
<1>1. IsWellFoundedOn(StrictSubsetOrdering(S), SUBSET S)
  BY FS_FiniteSubsetsOfFinite, FS_StrictSubsetOrderingWellFounded
<1>2. \E x \in T : \A y \in T : ~(<<y, x>> \in StrictSubsetOrdering(S))
  BY <1>1, WFMin
<1>3. PICK x \in T : \A y \in T : ~(<<y, x>> \in StrictSubsetOrdering(S))
  BY <1>2
<1>4. ASSUME NEW y \in T, y \subseteq x PROVE y = x
  <2>1. <<y, x>> \in (SUBSET S) \X (SUBSET S)
    OBVIOUS
  <2>2. (y # x) => <<y, x>> \in StrictSubsetOrdering(S)
    BY <1>4, <2>1, Zenon DEF StrictSubsetOrdering
  <2> QED BY <1>3, <2>2
<1> QED BY <1>4

\* The recursion by which the fold sums f: g holds the sum over each subset of S.
IsSumTable(g, f, S) ==
  g = [s \in SUBSET S |-> IF s = {} THEN 0 ELSE f[FirstOf(s)] + g[s \ {FirstOf(s)}]]

\* The table the fold computes.
SumTable(f, S) == CHOOSE g : IsSumTable(g, f, S)

\* The sum over S is what the table says of S itself.
LEMMA SumIsTable ==
  ASSUME NEW f, NEW S
  PROVE  SumOver(f, S) = SumTable(f, S)[S]
BY DEF SumOver, MapThenSumSet, MapThenFoldSet, SumTable, IsSumTable, FirstOf

\* The element the fold takes first is an element.
LEMMA FirstOfIsIn ==
  ASSUME NEW S, S # {}
  PROVE  FirstOf(S) \in S
BY Zenon DEF FirstOf

\* Two tables agree on the subsets both know.
LEMMA TablesAgree ==
  ASSUME NEW f, NEW S, IsFiniteSet(S), NEW S2, NEW g, NEW g2,
         IsSumTable(g, f, S), IsSumTable(g2, f, S2)
  PROVE  \A s \in SUBSET S : s \in SUBSET S2 => g[s] = g2[s]
<1> DEFINE Bad == {s \in SUBSET S : s \in SUBSET S2 /\ g[s] # g2[s]}
<1>1. SUFFICES ASSUME Bad # {} PROVE FALSE
  OBVIOUS
<1>2. PICK s \in Bad : \A r \in Bad : r \subseteq s => r = s
  <2>1. Bad \subseteq SUBSET S
    OBVIOUS
  <2> HIDE DEF Bad
  <2> QED BY <1>1, <2>1, MinimalSubset
<1>3. s # {}
  BY DEF IsSumTable
<1> DEFINE r == s \ {FirstOf(s)}
<1>4. FirstOf(s) \in s
  BY <1>3, FirstOfIsIn
<1>5. r \in SUBSET S /\ r \in SUBSET S2 /\ r # s /\ r \subseteq s
  BY <1>4
<1>6. g[r] = g2[r]
  BY <1>2, <1>5
<1>7. g[s] = f[FirstOf(s)] + g[r] /\ g2[s] = f[FirstOf(s)] + g2[r]
  BY <1>3 DEF IsSumTable
<1> QED BY <1>6, <1>7

\* Every finite set has its table.
LEMMA TableExists ==
  ASSUME NEW f, NEW S, IsFiniteSet(S)
  PROVE  \E g : IsSumTable(g, f, S)
<1> DEFINE Bad == {s \in SUBSET S : ~ \E g : IsSumTable(g, f, s)}
<1>1. SUFFICES ASSUME Bad # {} PROVE FALSE
  OBVIOUS
<1>2. PICK s \in Bad : \A r \in Bad : r \subseteq s => r = s
  <2>1. Bad \subseteq SUBSET S
    OBVIOUS
  <2> HIDE DEF Bad
  <2> QED BY <1>1, <2>1, MinimalSubset
<1> DEFINE G(u) == SumTable(f, u)[u]
           h == [u \in SUBSET s |-> IF u = {} THEN 0 ELSE f[FirstOf(u)] + G(u \ {FirstOf(u)})]
<1>3. ASSUME NEW u \in SUBSET s, u # s
      PROVE  IsSumTable(SumTable(f, u), f, u)
  <2>1. \E g : IsSumTable(g, f, u)
    BY <1>2, <1>3
  <2> QED BY <2>1 DEF SumTable
<1>4. ASSUME NEW u \in SUBSET s, u # s
      PROVE  h[u] = G(u)
  <2>1. CASE u = {}
    <3>1. G(u) = 0
      BY <1>3, <1>4, <2>1 DEF IsSumTable
    <3> QED BY <2>1, <3>1
  <2>2. CASE u # {}
    <3> DEFINE v == u \ {FirstOf(u)}
    <3>1. FirstOf(u) \in u
      BY <2>2, FirstOfIsIn
    <3>2. v \in SUBSET s /\ v \in SUBSET u /\ v # s
      BY <3>1
    <3>3. IsSumTable(SumTable(f, u), f, u)
      BY <1>3, <1>4
    <3>4. IsSumTable(SumTable(f, v), f, v)
      BY <1>3, <3>2
    <3>5. IsFiniteSet(v)
      BY <3>2, FS_Subset
    <3>6. SumTable(f, u)[v] = G(v)
      <4> HIDE DEF v
      <4>1. v \in SUBSET v /\ v \in SUBSET u
        BY <3>2
      <4>2. SumTable(f, v)[v] = SumTable(f, u)[v]
        BY <3>3, <3>4, <3>5, <4>1, TablesAgree
      <4> QED BY <4>2
    <3>7. G(u) = f[FirstOf(u)] + SumTable(f, u)[v]
      BY <2>2, <3>3 DEF IsSumTable
    <3>8. h[u] = f[FirstOf(u)] + G(v)
      BY <2>2
    <3> QED BY <3>6, <3>7, <3>8
  <2> QED BY <2>1, <2>2
<1>5. ASSUME NEW u \in SUBSET s, u # {}
      PROVE  h[u] = f[FirstOf(u)] + h[u \ {FirstOf(u)}]
  <2>1. FirstOf(u) \in u
    BY <1>5, FirstOfIsIn
  <2>2. u \ {FirstOf(u)} \in SUBSET s /\ u \ {FirstOf(u)} # s
    BY <2>1
  <2>3. h[u \ {FirstOf(u)}] = G(u \ {FirstOf(u)})
    BY <1>4, <2>2
  <2>4. h[u] = f[FirstOf(u)] + G(u \ {FirstOf(u)})
    BY <1>5
  <2> QED BY <2>3, <2>4
<1>6. IsSumTable(h, f, s)
  <2>1. h[{}] = 0
    OBVIOUS
  <2>2. DOMAIN h = SUBSET s /\ h = [u \in SUBSET s |-> h[u]]
    OBVIOUS
  <2> HIDE DEF h
  <2>3. \A u \in SUBSET s : h[u] = IF u = {} THEN 0 ELSE f[FirstOf(u)] + h[u \ {FirstOf(u)}]
    BY <1>5, <2>1
  <2> QED BY <2>2, <2>3 DEF IsSumTable
<1>7. s \notin Bad
  BY <1>6
<1> QED BY <1>7

-----------------------------------------------------------------------------
(* Sums.                                                                   *)

\* Nothing sums to nothing.
LEMMA SumEmpty ==
  ASSUME NEW f
  PROVE  SumOver(f, {}) = 0
<1>1. IsSumTable(SumTable(f, {}), f, {})
  BY TableExists, FS_EmptySet DEF SumTable
<1> QED BY <1>1, SumIsTable DEF IsSumTable

\* The sum, by the element the fold takes first.
LEMMA SumFirst ==
  ASSUME NEW f, NEW S, IsFiniteSet(S), S # {}
  PROVE  SumOver(f, S) = f[FirstOf(S)] + SumOver(f, S \ {FirstOf(S)})
<1> DEFINE R == S \ {FirstOf(S)}
<1>1. IsSumTable(SumTable(f, S), f, S)
  BY TableExists DEF SumTable
<1>2. R \in SUBSET R /\ R \in SUBSET S /\ IsFiniteSet(R)
  BY FS_Subset
<1>3. IsSumTable(SumTable(f, R), f, R)
  BY <1>2, TableExists DEF SumTable
<1>4. SumTable(f, S)[S] = f[FirstOf(S)] + SumTable(f, S)[R]
  BY <1>1 DEF IsSumTable
<1>5. SumTable(f, R)[R] = SumTable(f, S)[R]
  <2> HIDE DEF R
  <2> QED BY <1>1, <1>2, <1>3, TablesAgree
<1> QED BY <1>4, <1>5, SumIsTable

\* A sum of integers is an integer.
LEMMA SumIsInt ==
  ASSUME NEW f, NEW S, IsFiniteSet(S), \A x \in S : f[x] \in Int
  PROVE  SumOver(f, S) \in Int
<1> DEFINE Bad == {s \in SUBSET S : SumOver(f, s) \notin Int}
<1>1. SUFFICES ASSUME Bad # {} PROVE FALSE
  OBVIOUS
<1>2. PICK s \in Bad : \A r \in Bad : r \subseteq s => r = s
  <2>1. Bad \subseteq SUBSET S
    OBVIOUS
  <2> HIDE DEF Bad
  <2> QED BY <1>1, <2>1, MinimalSubset
<1>3. s # {}
  BY SumEmpty
<1>4. FirstOf(s) \in s /\ IsFiniteSet(s)
  BY <1>3, FirstOfIsIn, FS_Subset
<1>5. SumOver(f, s \ {FirstOf(s)}) \in Int
  BY <1>2, <1>4
<1>6. SumOver(f, s) = f[FirstOf(s)] + SumOver(f, s \ {FirstOf(s)})
  BY <1>3, <1>4, SumFirst
<1>7. SumOver(f, s) \in Int
  BY <1>4, <1>5, <1>6
<1> QED BY <1>7

\* Any element can be taken out first: the order of the fold does not matter.
LEMMA SumRemove ==
  ASSUME NEW f, NEW S, IsFiniteSet(S), \A x \in S : f[x] \in Int, NEW x \in S
  PROVE  SumOver(f, S) = f[x] + SumOver(f, S \ {x})
<1> DEFINE Splits(s, y) == SumOver(f, s) = f[y] + SumOver(f, s \ {y})
           Bad == {s \in SUBSET S : \E y \in s : ~ Splits(s, y)}
<1>1. SUFFICES ASSUME Bad # {} PROVE FALSE
  OBVIOUS
<1>2. PICK s \in Bad : \A r \in Bad : r \subseteq s => r = s
  <2>1. Bad \subseteq SUBSET S
    OBVIOUS
  <2> HIDE DEF Bad
  <2> QED BY <1>1, <2>1, MinimalSubset
<1>3. PICK y \in s : ~ Splits(s, y)
  BY <1>2
<1> DEFINE c == FirstOf(s)
<1>4. c \in s /\ IsFiniteSet(s) /\ s \subseteq S
  BY <1>3, FirstOfIsIn, FS_Subset
<1>5. Splits(s, c)
  BY <1>4, SumFirst
<1>6. c # y
  BY <1>3, <1>5
<1> HIDE DEF c
<1>7. Splits(s \ {c}, y)
  <2>1. s \ {c} \in SUBSET S /\ s \ {c} # s /\ s \ {c} \subseteq s /\ y \in s \ {c}
    BY <1>4, <1>6
  <2> HIDE DEF Splits
  <2> QED BY <1>2, <2>1
<1>8. Splits(s \ {y}, c)
  <2>1. s \ {y} \in SUBSET S /\ s \ {y} # s /\ s \ {y} \subseteq s /\ c \in s \ {y}
    BY <1>4, <1>6
  <2> HIDE DEF Splits
  <2> QED BY <1>2, <2>1
<1>9. (s \ {c}) \ {y} = (s \ {y}) \ {c}
  OBVIOUS
<1>10. f[c] \in Int /\ f[y] \in Int /\ SumOver(f, (s \ {c}) \ {y}) \in Int
  <2>1. IsFiniteSet((s \ {c}) \ {y})
    BY <1>4, FS_Subset
  <2>2. \A z \in (s \ {c}) \ {y} : f[z] \in Int
    BY <1>4
  <2>3. SumOver(f, (s \ {c}) \ {y}) \in Int
    BY <2>1, <2>2, SumIsInt
  <2> QED BY <1>4, <2>3
<1>11. Splits(s, y)
  <2>1. SumOver(f, (s \ {c}) \ {y}) = SumOver(f, (s \ {y}) \ {c})
    BY <1>9
  <2>2. SumOver(f, s) = f[c] + (f[y] + SumOver(f, (s \ {c}) \ {y}))
    BY <1>5, <1>7
  <2>3. SumOver(f, s \ {y}) = f[c] + SumOver(f, (s \ {c}) \ {y})
    BY <1>8, <2>1
  <2> DEFINE rest == SumOver(f, (s \ {c}) \ {y})
  <2> HIDE DEF rest
  <2>4. f[c] + (f[y] + rest) = f[y] + (f[c] + rest)
    BY <1>10 DEF rest
  <2> QED BY <2>2, <2>3, <2>4 DEF rest
<1> QED BY <1>3, <1>11

\* A new element adds its value.
LEMMA SumAdd ==
  ASSUME NEW f, NEW S, IsFiniteSet(S), NEW x, x \notin S,
         f[x] \in Int, \A y \in S : f[y] \in Int
  PROVE  SumOver(f, S \cup {x}) = f[x] + SumOver(f, S)
<1>1. IsFiniteSet(S \cup {x})
  BY FS_AddElement
<1>2. (S \cup {x}) \ {x} = S
  OBVIOUS
<1>3. \A y \in S \cup {x} : f[y] \in Int
  OBVIOUS
<1>4. x \in S \cup {x}
  OBVIOUS
<1> HIDE DEF SumOver
<1>5. SumOver(f, S \cup {x}) = f[x] + SumOver(f, (S \cup {x}) \ {x})
  BY <1>1, <1>3, <1>4, SumRemove
<1> QED BY <1>2, <1>5

\* Larger values, larger sum.
LEMMA SumMonotone ==
  ASSUME NEW f, NEW g, NEW S, IsFiniteSet(S),
         \A x \in S : f[x] \in Int /\ g[x] \in Int /\ f[x] =< g[x]
  PROVE  SumOver(f, S) =< SumOver(g, S)
<1> DEFINE Bad == {s \in SUBSET S : ~(SumOver(f, s) =< SumOver(g, s))}
<1>1. SUFFICES ASSUME Bad # {} PROVE FALSE
  OBVIOUS
<1>2. PICK s \in Bad : \A r \in Bad : r \subseteq s => r = s
  <2>1. Bad \subseteq SUBSET S
    OBVIOUS
  <2> HIDE DEF Bad
  <2> QED BY <1>1, <2>1, MinimalSubset
<1>3. s # {}
  BY SumEmpty
<1> DEFINE c == FirstOf(s)
           r == s \ {c}
<1>4. c \in s /\ IsFiniteSet(s) /\ s \subseteq S /\ IsFiniteSet(r)
  BY <1>3, FirstOfIsIn, FS_Subset
<1>5. SumOver(f, r) =< SumOver(g, r)
  BY <1>2, <1>4
<1>6. SumOver(f, s) = f[c] + SumOver(f, r) /\ SumOver(g, s) = g[c] + SumOver(g, r)
  BY <1>3, <1>4, SumFirst
<1>7. SumOver(f, r) \in Int /\ SumOver(g, r) \in Int
  BY <1>4, SumIsInt
<1>8. f[c] \in Int /\ g[c] \in Int /\ f[c] =< g[c]
  BY <1>4
<1>9. SumOver(f, s) =< SumOver(g, s)
  <2> HIDE DEF c, r
  <2> QED BY <1>5, <1>6, <1>7, <1>8
<1> QED BY <1>9

\* Where every value is zero, so is the sum.
LEMMA SumZero ==
  ASSUME NEW f, NEW S, IsFiniteSet(S), \A x \in S : f[x] = 0
  PROVE  SumOver(f, S) = 0
<1> DEFINE Bad == {s \in SUBSET S : SumOver(f, s) # 0}
<1>1. SUFFICES ASSUME Bad # {} PROVE FALSE
  OBVIOUS
<1>2. PICK s \in Bad : \A r \in Bad : r \subseteq s => r = s
  <2>1. Bad \subseteq SUBSET S
    OBVIOUS
  <2> HIDE DEF Bad
  <2> QED BY <1>1, <2>1, MinimalSubset
<1>3. s # {}
  BY SumEmpty
<1> DEFINE c == FirstOf(s)
           r == s \ {c}
<1>4. c \in s /\ IsFiniteSet(s) /\ s \subseteq S /\ IsFiniteSet(r)
  BY <1>3, FirstOfIsIn, FS_Subset
<1>5. SumOver(f, r) = 0
  BY <1>2, <1>4
<1>6. SumOver(f, s) = f[c] + SumOver(f, r)
  BY <1>3, <1>4, SumFirst
<1>7. f[c] = 0
  BY <1>4
<1>8. SumOver(f, s) = 0
  <2> HIDE DEF c, r
  <2> QED BY <1>5, <1>6, <1>7
<1> QED BY <1>8

\* Equal values, equal sums.
LEMMA SumSame ==
  ASSUME NEW f, NEW g, NEW S, IsFiniteSet(S),
         \A x \in S : f[x] \in Int /\ g[x] = f[x]
  PROVE  SumOver(f, S) = SumOver(g, S)
<1>1. SumOver(f, S) =< SumOver(g, S) /\ SumOver(g, S) =< SumOver(f, S)
  BY SumMonotone
<1>2. SumOver(f, S) \in Int /\ SumOver(g, S) \in Int
  BY SumIsInt
<1> QED BY <1>1, <1>2

\* Disjoint sets sum apart.
LEMMA SumUnion ==
  ASSUME NEW f, NEW S, IsFiniteSet(S), \A x \in S : f[x] \in Int,
         NEW T, IsFiniteSet(T), \A x \in T : f[x] \in Int, S \cap T = {}
  PROVE  SumOver(f, S \cup T) = SumOver(f, S) + SumOver(f, T)
<1> DEFINE Bad == {s \in SUBSET T : SumOver(f, S \cup s) # SumOver(f, S) + SumOver(f, s)}
<1>1. SUFFICES ASSUME Bad # {} PROVE FALSE
  OBVIOUS
<1>2. PICK s \in Bad : \A r \in Bad : r \subseteq s => r = s
  <2>1. Bad \subseteq SUBSET T
    OBVIOUS
  <2> HIDE DEF Bad
  <2> QED BY <1>1, <2>1, MinimalSubset
<1>3. SumOver(f, S) \in Int
  BY SumIsInt
<1>4. s # {}
  <2>1. SumOver(f, S \cup {}) = SumOver(f, S) + SumOver(f, {})
    BY <1>3, SumEmpty
  <2> QED BY <2>1
<1> DEFINE c == FirstOf(s)
           r == s \ {c}
<1>5. c \in s /\ IsFiniteSet(s) /\ s \subseteq T /\ IsFiniteSet(r) /\ r \subseteq T
  BY <1>4, FirstOfIsIn, FS_Subset
<1>6. SumOver(f, S \cup r) = SumOver(f, S) + SumOver(f, r)
  BY <1>2, <1>5
<1>7. SumOver(f, s) = f[c] + SumOver(f, r)
  BY <1>4, <1>5, SumFirst
<1> HIDE DEF c
<1>8. c \in S \cup s /\ (S \cup s) \ {c} = S \cup r
  BY <1>5
<1>9. IsFiniteSet(S \cup s)
  BY <1>5, FS_Union
<1>10. \A x \in S \cup s : f[x] \in Int
  BY <1>5
<1>11. SumOver(f, S \cup s) = f[c] + SumOver(f, (S \cup s) \ {c})
  BY <1>8, <1>9, <1>10, SumRemove
<1>12. SumOver(f, r) \in Int /\ f[c] \in Int
  BY <1>5, SumIsInt
<1>13. SumOver(f, S \cup s) = SumOver(f, S) + SumOver(f, s)
  <2> HIDE DEF r
  <2>1. SumOver(f, S \cup s) = f[c] + SumOver(f, S \cup r)
    BY <1>8, <1>11
  <2> QED BY <1>3, <1>6, <1>7, <1>12, <2>1
<1> QED BY <1>13

\* A sum of amounts is an amount.
LEMMA SumIsNat ==
  ASSUME NEW f, NEW S, IsFiniteSet(S), \A x \in S : f[x] \in Nat
  PROVE  SumOver(f, S) \in Nat
<1> DEFINE Bad == {s \in SUBSET S : SumOver(f, s) \notin Nat}
<1>1. SUFFICES ASSUME Bad # {} PROVE FALSE
  OBVIOUS
<1>2. PICK s \in Bad : \A r \in Bad : r \subseteq s => r = s
  <2>1. Bad \subseteq SUBSET S
    OBVIOUS
  <2> HIDE DEF Bad
  <2> QED BY <1>1, <2>1, MinimalSubset
<1>3. s # {}
  BY SumEmpty
<1>4. FirstOf(s) \in s /\ IsFiniteSet(s)
  BY <1>3, FirstOfIsIn, FS_Subset
<1>5. SumOver(f, s \ {FirstOf(s)}) \in Nat
  BY <1>2, <1>4
<1>6. SumOver(f, s) = f[FirstOf(s)] + SumOver(f, s \ {FirstOf(s)})
  BY <1>3, <1>4, SumFirst
<1>7. SumOver(f, s) \in Nat
  BY <1>4, <1>5, <1>6
<1> QED BY <1>7

\* Fewer amounts, smaller sum.
LEMMA SumSubset ==
  ASSUME NEW f, NEW S, IsFiniteSet(S), \A x \in S : f[x] \in Nat, NEW T \in SUBSET S
  PROVE  SumOver(f, T) =< SumOver(f, S)
<1> DEFINE R == S \ T
<1>1. IsFiniteSet(T) /\ IsFiniteSet(R)
  BY FS_Subset
<1>2. SumOver(f, T) \in Nat /\ SumOver(f, R) \in Nat
  BY <1>1, SumIsNat
<1>3. SumOver(f, T \cup R) = SumOver(f, T) + SumOver(f, R)
  BY <1>1, SumUnion
<1>4. SumOver(f, T \cup R) = SumOver(f, S)
  <2>1. T \cup R = S
    OBVIOUS
  <2> HIDE DEF R
  <2> QED BY <2>1
<1> HIDE DEF R
<1> QED BY <1>2, <1>3, <1>4

\* Each of one kind is covered by one of its own of the other kind: so are the sums.
LEMMA SumInjected ==
  ASSUME NEW D, IsFiniteSet(D), NEW T, IsFiniteSet(T), NEW f, NEW g, NEW c \in [D -> T],
         \A d, e \in D : c[d] = c[e] => d = e,
         \A t \in T : g[t] \in Nat,
         \A d \in D : f[d] \in Nat /\ f[d] =< g[c[d]]
  PROVE  SumOver(f, D) =< SumOver(g, T)
<1> DEFINE Im(s) == {c[d] : d \in s}
           Bad == {s \in SUBSET D : ~(SumOver(f, s) =< SumOver(g, Im(s)))}
<1>1. Bad = {}
  <2>1. SUFFICES ASSUME Bad # {} PROVE FALSE
    OBVIOUS
  <2>2. PICK s \in Bad : \A r \in Bad : r \subseteq s => r = s
    <3>1. Bad \subseteq SUBSET D
      OBVIOUS
    <3> HIDE DEF Bad
    <3> QED BY <2>1, <3>1, MinimalSubset
  <2>3. s # {}
    <3>1. Im({}) = {}
      OBVIOUS
    <3>2. SumOver(f, {}) =< SumOver(g, Im({}))
      BY <3>1, SumEmpty
    <3> QED BY <3>2
  <2> DEFINE x == FirstOf(s)
             r == s \ {x}
  <2>4. x \in s /\ IsFiniteSet(s) /\ s \subseteq D /\ IsFiniteSet(r) /\ r \subseteq D /\ r # s /\ r \subseteq s
    BY <2>3, FirstOfIsIn, FS_Subset
  <2>5. SumOver(f, r) =< SumOver(g, Im(r))
    BY <2>2, <2>4
  <2>6. SumOver(f, s) = f[x] + SumOver(f, r)
    BY <2>3, <2>4, SumFirst
  <2> HIDE DEF x
  <2>7. Im(s) \subseteq T /\ Im(r) \subseteq T /\ c[x] \in Im(s) /\ Im(s) \ {c[x]} = Im(r)
    BY <2>4
  <2>8. IsFiniteSet(Im(s)) /\ IsFiniteSet(Im(r))
    BY <2>7, FS_Subset
  <2> HIDE DEF Im
  <2>9. SumOver(g, Im(s)) = g[c[x]] + SumOver(g, Im(s) \ {c[x]})
    BY <2>7, <2>8, SumRemove
  <2>10. SumOver(g, Im(r)) \in Nat /\ SumOver(f, r) \in Nat
    BY <2>4, <2>7, <2>8, SumIsNat
  <2>11. f[x] \in Nat /\ g[c[x]] \in Nat /\ f[x] =< g[c[x]]
    BY <2>4
  <2>12. SumOver(f, s) =< SumOver(g, Im(s))
    <3> HIDE DEF r
    <3> QED BY <2>5, <2>6, <2>7, <2>9, <2>10, <2>11
  <2> QED BY <2>2, <2>12
<1>2. SumOver(f, D) =< SumOver(g, Im(D))
  BY <1>1
<1>3. Im(D) \in SUBSET T
  OBVIOUS
<1>4. IsFiniteSet(Im(D))
  BY <1>3, FS_Subset
<1> HIDE DEF Im
<1>5. SumOver(g, Im(D)) =< SumOver(g, T)
  BY <1>3, SumSubset
<1>6. SumOver(f, D) \in Nat /\ SumOver(g, T) \in Nat /\ SumOver(g, Im(D)) \in Nat
  BY <1>3, <1>4, SumIsNat
<1> QED BY <1>2, <1>5, <1>6

=============================================================================
