----------------------------- MODULE SumTheorems -----------------------------
(***************************************************************************)
(* The sum of a function's values (SumFunction of Functions) for any       *)
(* finite domain.  The induction is an argument about a smallest           *)
(* counterexample, as a subset of the domain.                              *)
(***************************************************************************)
EXTENDS Integers, Functions, FiniteSetTheorems, TLAPS

Element(s) == CHOOSE x \in s : TRUE

\* g sums f over each subset of S, taking the elements in the order of the fold.
Sums(g, f, S) ==
  g = [s \in SUBSET S |-> IF s = {} THEN 0 ELSE f[Element(s)] + g[s \ {Element(s)}]]

LEMMA SumFunctionIs ==
  ASSUME NEW f
  PROVE  SumFunction(f) = (CHOOSE g : Sums(g, f, DOMAIN f))[DOMAIN f]
BY Zenon DEF SumFunction, SumFunctionOnSet, FoldFunctionOnSet, MapThenFoldSet, Sums, Element

\* Of a family of subsets of a finite set, some are minimal.
LEMMA MinimalSubset ==
  ASSUME NEW S, IsFiniteSet(S), NEW F \in SUBSET SUBSET S, F # {}
  PROVE  \E X \in F : \A Y \in F : Y \subseteq X => Y = X
<1>1. F \subseteq FiniteSubsetsOf(S)
  BY FS_Subset DEF FiniteSubsetsOf
<1>2. \E X \in F : \A Y \in F : <<Y, X>> \notin StrictSubsetOrdering(S)
  BY <1>1, FS_StrictSubsetOrderingWellFounded, WFMin
<1> QED
  BY <1>2 DEF StrictSubsetOrdering

LEMMA ElementIn == ASSUME NEW s, s # {} PROVE Element(s) \in s
BY DEF Element

\* What Sums says of one subset.
LEMMA SumsStep ==
  ASSUME NEW S, NEW f, NEW g, Sums(g, f, S), NEW s \in SUBSET S
  PROVE  /\ s = {} => g[s] = 0
         /\ s # {} => /\ g[s] = f[Element(s)] + g[s \ {Element(s)}]
                      /\ Element(s) \in s /\ s \ {Element(s)} \in SUBSET S
BY ElementIn DEF Sums

\* Two functions that sum f agree on the subsets they share.
LEMMA SumsAgree ==
  ASSUME NEW S, IsFiniteSet(S), NEW f,
         NEW R \in SUBSET S, NEW T \in SUBSET S, NEW g, NEW h, Sums(g, f, R), Sums(h, f, T),
         NEW s \in SUBSET (R \cap T)
  PROVE  g[s] = h[s]
<1> DEFINE Wrong == {r \in SUBSET (R \cap T) : g[r] # h[r]}
<1>1. SUFFICES ASSUME Wrong # {} PROVE FALSE
  OBVIOUS
<1>2. PICK r \in Wrong : \A y \in Wrong : y \subseteq r => y = r
  <2>1. Wrong \in SUBSET SUBSET S
    OBVIOUS
  <2> HIDE DEF Wrong
  <2> QED BY <1>1, <2>1, MinimalSubset
<1>3. r \in SUBSET R /\ r \in SUBSET T
  OBVIOUS
<1>4. r # {}
  BY <1>3, SumsStep
<1>5. Element(r) \in r
  BY <1>4, ElementIn
<1>6. g[r \ {Element(r)}] = h[r \ {Element(r)}]
  BY <1>2, <1>5
<1>7. g[r] = h[r]
  <2>1. g[r] = f[Element(r)] + g[r \ {Element(r)}]
    BY <1>3, <1>4, SumsStep
  <2>2. h[r] = f[Element(r)] + h[r \ {Element(r)}]
    BY <1>3, <1>4, SumsStep
  <2> QED BY <1>6, <2>1, <2>2
<1> QED BY <1>7

\* There is a function that sums f over the subsets of a finite set.
LEMMA SumsExist ==
  ASSUME NEW S, IsFiniteSet(S), NEW f
  PROVE  \E g : Sums(g, f, S)
<1> DEFINE Wrong == {s \in SUBSET S : ~ \E g : Sums(g, f, s)}
<1>1. SUFFICES ASSUME Wrong # {} PROVE FALSE
  OBVIOUS
<1>2. PICK s \in Wrong : \A y \in Wrong : y \subseteq s => y = s
  <2>1. Wrong \in SUBSET SUBSET S
    OBVIOUS
  <2> HIDE DEF Wrong
  <2> QED BY <1>1, <2>1, MinimalSubset
<1>3. s \in SUBSET S /\ \A t \in SUBSET s : t # s => \E g : Sums(g, f, t)
  BY <1>2
<1> DEFINE G(t) == CHOOSE g : Sums(g, f, t)
           Value(t) == IF t = {} THEN 0 ELSE f[Element(t)] + G(t \ {Element(t)})[t \ {Element(t)}]
           h == [t \in SUBSET s |-> Value(t)]
<1>4. \A t \in SUBSET s : t # s => Sums(G(t), f, t)
  BY <1>3
<1>5. ASSUME NEW t \in SUBSET s, t # s PROVE h[t] = G(t)[t]
  <2>1. Sums(G(t), f, t)
    BY <1>4, <1>5
  <2>2. CASE t = {}
    <3>1. G(t)[t] = 0
      <4> HIDE DEF G
      <4> QED BY <2>1, <2>2, SumsStep
    <3> QED BY <2>2, <3>1
  <2>3. CASE t # {}
    <3> DEFINE r == t \ {Element(t)}
    <3>1. r \in SUBSET t /\ r # t /\ Element(t) \in t
      BY <2>3, ElementIn
    <3>2. Sums(G(r), f, r)
      BY <1>4, <3>1
    <3>3. G(t)[r] = G(r)[r]
      <4>1. t \in SUBSET S /\ r \in SUBSET S /\ r \in SUBSET (t \cap r)
        BY <1>3, <3>1
      <4> HIDE DEF G, r
      <4> QED BY <2>1, <3>2, <4>1, SumsAgree
    <3>4. G(t)[t] = f[Element(t)] + G(t)[r]
      <4> HIDE DEF G
      <4> QED BY <2>1, <2>3, SumsStep
    <3>5. h[t] = f[Element(t)] + G(r)[r]
      BY <2>3
    <3> QED BY <3>3, <3>4, <3>5
  <2> QED BY <2>2, <2>3
<1>6. ASSUME NEW t \in SUBSET s, t # {} PROVE h[t] = f[Element(t)] + h[t \ {Element(t)}]
  <2> DEFINE r == t \ {Element(t)}
  <2>1. r \in SUBSET s /\ r # s
    BY <1>6, ElementIn
  <2>2. h[r] = G(r)[r]
    BY <1>5, <2>1
  <2>3. h[t] = f[Element(t)] + G(r)[r]
    BY <1>6
  <2> QED BY <2>2, <2>3
<1>7. Sums(h, f, s)
  <2>1. h = [t \in SUBSET s |-> h[t]] /\ (\A t \in SUBSET s : t = {} => h[t] = 0)
    OBVIOUS
  <2> HIDE DEF h
  <2> QED BY <1>6, <2>1 DEF Sums
<1> QED BY <1>2, <1>7

\* f and g differ at u only.
AlikeBut(f, g, S, u) == \A x \in S \ {u} : g[x] = f[x]

\* Where two functions differ in one summand, so do their sums over a subset.
LEMMA SumsChange ==
  ASSUME NEW S, IsFiniteSet(S), NEW f \in [S -> Int], NEW g \in [S -> Int], NEW u \in S,
         AlikeBut(f, g, S, u),
         NEW F, NEW G, Sums(F, f, S), Sums(G, g, S)
  PROVE  \A s \in SUBSET S :
           F[s] \in Int /\ G[s] = F[s] + (IF u \in s THEN g[u] - f[u] ELSE 0)
<1> DEFINE d == g[u] - f[u]
           Right(s) == F[s] \in Int /\ G[s] = F[s] + (IF u \in s THEN d ELSE 0)
           Wrong == {s \in SUBSET S : ~Right(s)}
<1>1. d \in Int
  OBVIOUS
<1>2. SUFFICES ASSUME Wrong # {} PROVE FALSE
  OBVIOUS
<1>3. PICK s \in Wrong : \A y \in Wrong : y \subseteq s => y = s
  <2>1. Wrong \in SUBSET SUBSET S
    OBVIOUS
  <2> HIDE DEF Wrong
  <2> QED BY <1>2, <2>1, MinimalSubset
<1>4. s \in SUBSET S
  OBVIOUS
<1>5. ~Right(s)
  OBVIOUS
<1>6. ASSUME NEW r \in SUBSET S, r \subseteq s, r # s PROVE Right(r)
  BY <1>3, <1>6
<1> HIDE DEF Wrong, d
<1>7. CASE s = {}
  <2>1. F[s] = 0 /\ G[s] = 0
    BY <1>4, <1>7, SumsStep
  <2> QED BY <1>5, <1>7, <2>1
<1>8. CASE s # {}
  <2> DEFINE x == Element(s)
  <2>1. F[s] = f[x] + F[s \ {x}]
    BY <1>4, <1>8, SumsStep
  <2>2. G[s] = g[x] + G[s \ {x}]
    BY <1>4, <1>8, SumsStep
  <2>3. x \in s /\ s \ {x} \in SUBSET S
    BY <1>4, <1>8, SumsStep
  <2> HIDE DEF x
  <2>4. F[s \ {x}] \in Int /\ G[s \ {x}] = F[s \ {x}] + (IF u \in s \ {x} THEN d ELSE 0)
    BY <1>6, <2>3
  <2>5. x \in S /\ f[x] \in Int /\ g[x] \in Int
    BY <1>4, <2>3
  <2>6. CASE x = u
    <3>1. g[x] = f[x] + d
      BY <2>5, <2>6 DEF d
    <3> QED BY <1>1, <1>4, <1>5, <2>1, <2>2, <2>3, <2>4, <2>5, <2>6, <3>1
  <2>7. CASE x # u
    <3>1. g[x] = f[x]
      BY <2>5, <2>7 DEF AlikeBut
    <3> QED BY <1>1, <1>4, <1>5, <2>1, <2>2, <2>3, <2>4, <2>5, <2>7, <3>1
  <2> QED BY <2>6, <2>7
<1> QED BY <1>7, <1>8

\* The sum of integers is an integer, and changes by what one summand changes.
LEMMA SumChanges ==
  ASSUME NEW S, IsFiniteSet(S), NEW f \in [S -> Int], NEW u \in S, NEW m \in Int
  PROVE  /\ SumFunction(f) \in Int
         /\ SumFunction([f EXCEPT ![u] = m]) = SumFunction(f) + (m - f[u])
<1> DEFINE g == [f EXCEPT ![u] = m]
           F == CHOOSE h : Sums(h, f, S)
           G == CHOOSE h : Sums(h, g, S)
<1>1. Sums(F, f, S) /\ Sums(G, g, S)
  BY SumsExist
<1>2. g \in [S -> Int] /\ g[u] = m /\ DOMAIN g = S
  OBVIOUS
<1>3. AlikeBut(f, g, S, u)
  BY DEF AlikeBut
<1>4. SumFunction(f) = F[S] /\ SumFunction(g) = G[S]
  <2> HIDE DEF g
  <2> QED BY <1>2, SumFunctionIs
<1> HIDE DEF F, G, g
<1>5. F[S] \in Int /\ G[S] = F[S] + (IF u \in S THEN g[u] - f[u] ELSE 0)
  <2>1. g \in [S -> Int]
    BY <1>2
  <2>2. \A s \in SUBSET S : F[s] \in Int /\ G[s] = F[s] + (IF u \in s THEN g[u] - f[u] ELSE 0)
    BY <1>1, <1>3, <2>1, SumsChange
  <2> QED BY <2>2
<1>6. SumFunction(f) \in Int /\ SumFunction(g) = SumFunction(f) + (m - f[u])
  BY <1>2, <1>4, <1>5
<1> QED BY <1>6 DEF g

LEMMA SumIsInt ==
  ASSUME NEW S, IsFiniteSet(S), NEW f \in [S -> Int]
  PROVE  SumFunction(f) \in Int
<1>1. CASE S = {}
  <2> DEFINE F == CHOOSE h : Sums(h, f, S)
  <2>1. Sums(F, f, S)
    BY SumsExist
  <2>2. SumFunction(f) = F[S]
    BY SumFunctionIs
  <2> HIDE DEF F
  <2>3. F[S] = 0
    BY <1>1, <2>1, SumsStep
  <2> QED BY <2>2, <2>3
<1>2. CASE S # {}
  <2>1. PICK u \in S : TRUE
    BY <1>2
  <2> QED BY <2>1, SumChanges
<1> QED BY <1>1, <1>2
==============================================================================
