------------------------ MODULE DecisionEngineProofs ------------------------
(***************************************************************************)
(* The decision engine, for every set of pairs, timeframes, weights and    *)
(* risk parameters, and any number of triggers, replays and faults; and    *)
(* the agents whose votes it fuses, for every reading of the indicators    *)
(* and any events and stories.                                             *)
(***************************************************************************)
EXTENDS DecisionEngine, FiniteSetTheorems, WellFoundedInduction, TLAPS

CONSTANTS
  NULL, Diffs, DeadZones, Bands, PreviousDays, Rsis, Stochs, Adxs,  \* TechnicalAgent
  Base, Quote, Events, Stories, MaxInputs                           \* ContentAgents

VARIABLES
  reading,       \* TechnicalAgent's reading
  loaded, news   \* what ContentAgents has loaded

Technical == INSTANCE TechnicalAgent WITH x <- reading, Days <- PreviousDays
Readers == INSTANCE ContentAgents WITH events <- loaded

\* A set of natural numbers has a least element.
LEMMA LeastExists ==
  ASSUME NEW S \in SUBSET Nat, S # {} PROVE \E n \in S : \A m \in S : n <= m
<1>1. PICK n \in S : \A m \in S : ~ (<<m, n>> \in OpToRel(<, Nat))
  BY WFMin, NatLessThanWellFounded
<1>2. \A m \in S : ~ (m < n)
  BY <1>1 DEF OpToRel
<1> QED BY <1>2

\* A bounded one has a greatest.
LEMMA GreatestExists ==
  ASSUME NEW S \in SUBSET Nat, S # {}, NEW n \in Nat, \A t \in S : t <= n
  PROVE  \E x \in S : \A y \in S : y <= x
<1> DEFINE T == {n - t : t \in S}
<1>0. \A t \in S : n - t \in Nat
  OBVIOUS
<1>1. T \in SUBSET Nat /\ T # {}
  BY <1>0
<1>2. PICK y \in T : \A z \in T : y <= z
  BY <1>1, LeastExists
<1>3. PICK x \in S : y = n - x
  BY <1>2
<1>4. ASSUME NEW z \in S PROVE z <= x
  <2>1. n - x <= n - z
    BY <1>2, <1>3
  <2> QED BY <2>1
<1> QED BY <1>4

----------------------------------------------------------------------------
(* Sums over finite sets.                                                  *)

\* Induction over the subsets of a finite set.
LEMMA SubsetInduction ==
  ASSUME NEW T, IsFiniteSet(T), NEW Q,
         \A S \in SUBSET T : (\A R \in SUBSET S : R # S => R \in Q) => S \in Q
  PROVE  SUBSET T \subseteq Q
<1> DEFINE Bad == {n \in Nat : \E S \in SUBSET T : S \notin Q /\ Cardinality(S) = n}
<1>1. SUFFICES ASSUME NEW X \in SUBSET T, X \notin Q PROVE FALSE
  OBVIOUS
<1>2. \A S \in SUBSET T : IsFiniteSet(S) /\ Cardinality(S) \in Nat
  BY FS_Subset, FS_CardinalityType
<1>3. Bad \in SUBSET Nat /\ Bad # {}
  BY <1>1, <1>2
<1>4. PICK n \in Bad : \A m \in Bad : n <= m
  BY <1>3, LeastExists
<1>5. PICK S \in SUBSET T : S \notin Q /\ Cardinality(S) = n
  BY <1>4
<1>6. PICK R \in SUBSET S : R # S /\ R \notin Q
  BY <1>5
<1>7. Cardinality(R) <= Cardinality(S) /\ Cardinality(R) # Cardinality(S)
  BY <1>2, <1>6, FS_Subset
<1>8. Cardinality(R) \in Bad
  BY <1>2, <1>6
<1> QED BY <1>2, <1>4, <1>5, <1>7, <1>8

\* f folds the subsets of S: it takes the element pick[R] from R last.
Folds(f, S, base, step, pick) ==
  f = [R \in SUBSET S |-> IF R = {} THEN base ELSE step[<<pick[R], f[R \ {pick[R]}]>>]]

Picks(pick, T) == \A R \in SUBSET T : R # {} => pick[R] \in R

LEMMA FoldsAgree ==
  ASSUME NEW T, IsFiniteSet(T), NEW base, NEW step, NEW pick, Picks(pick, T),
         NEW S1 \in SUBSET T, NEW S2 \in SUBSET T, NEW f1, NEW f2,
         Folds(f1, S1, base, step, pick), Folds(f2, S2, base, step, pick)
  PROVE  \A R \in SUBSET (S1 \cap S2) : f1[R] = f2[R]
<1> DEFINE U == S1 \cap S2
           Q == {R \in SUBSET U : f1[R] = f2[R]}
<1>1. IsFiniteSet(U)
  BY FS_Subset
<1>2. ASSUME NEW R \in SUBSET U, \A P \in SUBSET R : P # R => P \in Q
      PROVE  R \in Q
  <2>1. CASE R = {}
    BY <2>1 DEF Folds
  <2>2. CASE R # {}
    <3>1. pick[R] \in R
      BY <2>2 DEF Picks
    <3>2. f1[R \ {pick[R]}] = f2[R \ {pick[R]}]
      BY <1>2, <3>1
    <3>3. f1[R] = step[<<pick[R], f1[R \ {pick[R]}]>>]
      BY <2>2 DEF Folds
    <3>4. f2[R] = step[<<pick[R], f2[R \ {pick[R]}]>>]
      BY <2>2 DEF Folds
    <3> QED BY <3>2, <3>3, <3>4
  <2> QED BY <2>1, <2>2
<1> HIDE DEF Q, U
<1>3. SUBSET U \subseteq Q
  BY <1>1, <1>2, SubsetInduction
<1> QED BY <1>3 DEF Q, U

\* A fold exists, and its values are of the type of its steps.
LEMMA FoldExists ==
  ASSUME NEW T, IsFiniteSet(T), NEW B, NEW base \in B, NEW step \in [T \X B -> B],
         NEW pick, Picks(pick, T)
  PROVE  \E f \in [SUBSET T -> B] : Folds(f, T, base, step, pick)
<1> DEFINE Q == {S \in SUBSET T : \E f \in [SUBSET S -> B] : Folds(f, S, base, step, pick)}
<1>1. ASSUME NEW S \in SUBSET T, \A R \in SUBSET S : R # S => R \in Q
      PROVE  S \in Q
  <2> DEFINE F(R) == CHOOSE f \in [SUBSET R -> B] : Folds(f, R, base, step, pick)
             G == [R \in SUBSET S |-> IF R # S THEN F(R)[R]
                                      ELSE IF S = {} THEN base
                                      ELSE step[<<pick[S], F(S \ {pick[S]})[S \ {pick[S]}]>>]]
  <2>1. \A R \in SUBSET S : R # S => F(R) \in [SUBSET R -> B] /\ Folds(F(R), R, base, step, pick)
    BY <1>1
  <2> HIDE DEF F
  <2>2. ASSUME NEW R \in SUBSET S
        PROVE  G[R] = IF R = {} THEN base ELSE step[<<pick[R], G[R \ {pick[R]}]>>]
    <3>1. CASE R = {}
      <4>1. CASE S = {}
        BY <3>1, <4>1
      <4>2. CASE S # {}
        BY <3>1, <4>2, <2>1 DEF Folds
      <4> QED BY <4>1, <4>2
    <3>2. CASE R # {} /\ R # S
      <4> DEFINE P == R \ {pick[R]}
      <4>1. pick[R] \in R
        BY <3>2 DEF Picks
      <4>2. P \in SUBSET S /\ P # S /\ P \in SUBSET R
        BY <4>1
      <4>3. G[R] = F(R)[R] /\ G[P] = F(P)[P]
        BY <3>2, <4>2
      <4>4. F(R)[R] = step[<<pick[R], F(R)[P]>>]
        BY <2>1, <3>2 DEF Folds
      <4>5. Folds(F(P), P, base, step, pick) /\ Folds(F(R), R, base, step, pick)
        BY <2>1, <3>2, <4>2
      <4>6. F(R)[P] = F(P)[P]
        <5>1. P \in SUBSET (R \cap P) /\ P \in SUBSET T /\ R \in SUBSET T
          BY <4>2
        <5> HIDE DEF P
        <5> QED BY <4>5, <5>1, FoldsAgree
      <4> QED BY <3>2, <4>3, <4>4, <4>6
    <3>3. CASE R # {} /\ R = S
      <4>1. pick[S] \in S
        BY <3>3 DEF Picks
      <4> QED BY <3>3, <4>1
    <3> QED BY <3>1, <3>2, <3>3
  <2>3. G \in [SUBSET S -> B]
    <3>1. ASSUME NEW R \in SUBSET S PROVE G[R] \in B
      <4>1. CASE R # S
        BY <2>1, <4>1
      <4>2. CASE R = S /\ S # {}
        <5>1. pick[S] \in S
          BY <4>2 DEF Picks
        <5> DEFINE P == S \ {pick[S]}
        <5>2. P \in SUBSET S /\ P # S
          BY <5>1
        <5>3. F(P)[P] \in B
          <6> HIDE DEF P
          <6> QED BY <2>1, <5>2
        <5>4. <<pick[S], F(P)[P]>> \in T \X B
          BY <5>1, <5>3
        <5>5. step[<<pick[S], F(P)[P]>>] \in B
          BY <5>4
        <5> QED BY <4>2, <5>5
      <4>3. CASE R = S /\ S = {}
        BY <4>3
      <4> QED BY <4>1, <4>2, <4>3
    <3> HIDE DEF G
    <3>2. G = [R \in SUBSET S |-> G[R]]
      BY DEF G
    <3> QED BY <3>1, <3>2
  <2>4. Folds(G, S, base, step, pick)
    <3>1. G = [R \in SUBSET S |-> G[R]]
      OBVIOUS
    <3> HIDE DEF G
    <3> QED BY <2>2, <3>1 DEF Folds
  <2> HIDE DEF G
  <2> QED BY <2>3, <2>4
<1> HIDE DEF Q
<1>2. SUBSET T \subseteq Q
  BY <1>1, SubsetInduction
<1> QED BY <1>2 DEF Q

\* The sum of the values of g on S.
Sum(g, S) == MapThenSumSet(LAMBDA a : g[a], S)

\* Folds with these two are sums.
AnyOf(T) == [R \in SUBSET T |-> CHOOSE x \in R : TRUE]
Plus(g, T) == [z \in T \X Int |-> g[z[1]] + z[2]]

LEMMA SumFolds ==
  ASSUME NEW T, IsFiniteSet(T), NEW g \in [T -> Int]
  PROVE  \E f \in [SUBSET T -> Int] :
           /\ Folds(f, T, 0, Plus(g, T), AnyOf(T))
           /\ \A S \in SUBSET T : f[S] = Sum(g, S)
<1>1. Picks(AnyOf(T), T)
  BY DEF Picks, AnyOf
<1>2. Plus(g, T) \in [T \X Int -> Int]
  <2>1. \A z \in T \X Int : z[1] \in T /\ z[2] \in Int
    OBVIOUS
  <2>2. \A z \in T \X Int : g[z[1]] + z[2] \in Int
    BY <2>1
  <2> QED BY <2>2 DEF Plus
<1>3. PICK f \in [SUBSET T -> Int] : Folds(f, T, 0, Plus(g, T), AnyOf(T))
  <2> DEFINE B == Int
             base == 0
             step == Plus(g, T)
             pick == AnyOf(T)
  <2>1. base \in B /\ step \in [T \X B -> B] /\ Picks(pick, T)
    BY <1>1, <1>2
  <2> HIDE DEF B, base, step, pick
  <2>2. \E f \in [SUBSET T -> B] : Folds(f, T, base, step, pick)
    BY <2>1, FoldExists
  <2> QED BY <2>2 DEF B, base, step, pick
<1>4. ASSUME NEW R \in SUBSET T
      PROVE  f[R] = IF R = {} THEN 0 ELSE LET x == CHOOSE y \in R : TRUE IN g[x] + f[R \ {x}]
  <2>1. CASE R = {}
    BY <1>3, <2>1 DEF Folds
  <2>2. CASE R # {}
    <3> DEFINE x == CHOOSE y \in R : TRUE
    <3>1. x \in R /\ AnyOf(T)[R] = x
      BY <2>2 DEF AnyOf
    <3>2. f[R] = Plus(g, T)[<<x, f[R \ {x}]>>]
      BY <1>3, <2>2, <3>1 DEF Folds
    <3>3. Plus(g, T)[<<x, f[R \ {x}]>>] = g[x] + f[R \ {x}]
      <4>1. <<x, f[R \ {x}]>> \in T \X Int
        BY <3>1
      <4> HIDE DEF x
      <4> QED BY <4>1 DEF Plus
    <3> QED BY <2>2, <3>2, <3>3
  <2> QED BY <2>1, <2>2
<1>5. ASSUME NEW S \in SUBSET T PROVE f[S] = Sum(g, S)
  <2> DEFINE body(h) == [R \in SUBSET S |->
                           IF R = {} THEN 0
                           ELSE LET x == CHOOSE y \in R : TRUE IN g[x] + h[R \ {x}]]
             It == CHOOSE h : h = body(h)
             fS == [R \in SUBSET S |-> f[R]]
  <2>1. Sum(g, S) = It[S]
    BY DEF Sum, MapThenSumSet, MapThenFoldSet
  <2>2. fS = body(fS)
    <3>1. ASSUME NEW R \in SUBSET S
          PROVE  f[R] = IF R = {} THEN 0 ELSE LET x == CHOOSE y \in R : TRUE IN g[x] + fS[R \ {x}]
      <4>1. R \in SUBSET T
        OBVIOUS
      <4> QED BY <1>4, <4>1
    <3> QED BY <3>1
  <2>3. It = body(It)
    BY <2>2
  <2> HIDE DEF It
  <2> DEFINE Q == {R \in SUBSET S : It[R] = f[R]}
  <2>4. ASSUME NEW R \in SUBSET S, \A P \in SUBSET R : P # R => P \in Q PROVE R \in Q
    <3>1. CASE R = {}
      BY <2>3, <3>1, <1>4
    <3>2. CASE R # {}
      <4> DEFINE x == CHOOSE y \in R : TRUE
      <4>1. x \in R
        BY <3>2
      <4>2. It[R] = g[x] + It[R \ {x}]
        BY <2>3, <3>2
      <4>3. f[R] = g[x] + f[R \ {x}]
        BY <1>4, <3>2
      <4> HIDE DEF x
      <4> QED BY <2>4, <4>1, <4>2, <4>3
    <3> QED BY <3>1, <3>2
  <2> HIDE DEF Q
  <2>5. IsFiniteSet(S)
    BY FS_Subset
  <2>6. SUBSET S \subseteq Q
    BY <2>4, <2>5, SubsetInduction
  <2> QED BY <2>1, <2>6 DEF Q
<1> QED BY <1>3, <1>5

\* The sum over a set, element by element, in any order.
LEMMA SumSplit ==
  ASSUME NEW T, IsFiniteSet(T), NEW g \in [T -> Int], NEW S \in SUBSET T
  PROVE  /\ Sum(g, {}) = 0 /\ Sum(g, S) \in Int
         /\ \A x \in S : Sum(g, S) = g[x] + Sum(g, S \ {x})
<1>1. PICK f \in [SUBSET T -> Int] :
        Folds(f, T, 0, Plus(g, T), AnyOf(T)) /\ \A R \in SUBSET T : f[R] = Sum(g, R)
  BY SumFolds
<1>2. Sum(g, {}) = 0 /\ \A R \in SUBSET T : Sum(g, R) \in Int
  BY <1>1 DEF Folds
<1>3. ASSUME NEW R \in SUBSET T, R # {}
      PROVE  \E c \in R : Sum(g, R) = g[c] + Sum(g, R \ {c})
  <2> DEFINE c == AnyOf(T)[R]
  <2>1. c \in R
    BY <1>3 DEF AnyOf
  <2>2. f[R] = Plus(g, T)[<<c, f[R \ {c}]>>]
    BY <1>1, <1>3 DEF Folds
  <2> HIDE DEF c
  <2>3. <<c, f[R \ {c}]>> \in T \X Int
    BY <2>1
  <2>4. f[R] = g[c] + f[R \ {c}]
    BY <2>2, <2>3 DEF Plus
  <2> QED BY <1>1, <2>1, <2>4
<1> DEFINE Q == {R \in SUBSET T : \A x \in R : Sum(g, R) = g[x] + Sum(g, R \ {x})}
<1>4. ASSUME NEW R \in SUBSET T, \A P \in SUBSET R : P # R => P \in Q PROVE R \in Q
  <2> SUFFICES ASSUME NEW x \in R PROVE Sum(g, R) = g[x] + Sum(g, R \ {x})
    OBVIOUS
  <2>1. PICK c \in R : Sum(g, R) = g[c] + Sum(g, R \ {c})
    BY <1>3
  <2>2. CASE c = x
    BY <2>1, <2>2
  <2>3. CASE c # x
    <3> DEFINE P == (R \ {c}) \ {x}
    <3>1. R \ {c} \in Q /\ R \ {x} \in Q
      BY <1>4
    <3>2. Sum(g, R \ {c}) = g[x] + Sum(g, P)
      BY <2>3, <3>1
    <3>3. (R \ {x}) \ {c} = P
      OBVIOUS
    <3>4. Sum(g, R \ {x}) = g[c] + Sum(g, P)
      BY <2>3, <3>1, <3>3
    <3>5. Sum(g, P) \in Int /\ g[c] \in Int /\ g[x] \in Int
      BY <1>2
    <3> HIDE DEF P
    <3> QED BY <2>1, <3>2, <3>4, <3>5
  <2> QED BY <2>2, <2>3
<1> HIDE DEF Q
<1>5. SUBSET T \subseteq Q
  BY <1>4, SubsetInduction
<1> QED BY <1>2, <1>5 DEF Q

\* A larger summand makes a larger sum.
LEMMA SumMonotone ==
  ASSUME NEW T, IsFiniteSet(T), NEW g \in [T -> Int], NEW h \in [T -> Int],
         \A a \in T : g[a] <= h[a]
  PROVE  Sum(g, T) <= Sum(h, T)
<1> DEFINE Q == {S \in SUBSET T : Sum(g, S) <= Sum(h, S)}
<1>1. ASSUME NEW S \in SUBSET T, \A R \in SUBSET S : R # S => R \in Q PROVE S \in Q
  <2>1. CASE S = {}
    BY <2>1, SumSplit
  <2>2. CASE S # {}
    <3>1. PICK x \in S : TRUE
      BY <2>2
    <3> DEFINE R == S \ {x}
    <3>2. Sum(g, R) <= Sum(h, R)
      BY <1>1, <3>1
    <3>3. Sum(g, S) = g[x] + Sum(g, R) /\ Sum(h, S) = h[x] + Sum(h, R)
      BY SumSplit
    <3>4. Sum(g, R) \in Int /\ Sum(h, R) \in Int /\ Sum(g, S) \in Int /\ Sum(h, S) \in Int
      BY SumSplit
    <3>5. g[x] \in Int /\ h[x] \in Int /\ g[x] <= h[x]
      OBVIOUS
    <3> HIDE DEF R
    <3> QED BY <3>2, <3>3, <3>4, <3>5
  <2> QED BY <2>1, <2>2
<1> HIDE DEF Q
<1>2. T \in Q
  BY <1>1, SubsetInduction
<1> QED BY <1>2 DEF Q

\* A factor of all summands is one of the sum.
LEMMA SumScale ==
  ASSUME NEW T, IsFiniteSet(T), NEW g \in [T -> Int], NEW c \in Int
  PROVE  Sum([a \in T |-> c * g[a]], T) = c * Sum(g, T)
<1> DEFINE h == [a \in T |-> c * g[a]]
           Q == {S \in SUBSET T : Sum(h, S) = c * Sum(g, S)}
<1>0. h \in [T -> Int] /\ \A a \in T : h[a] = c * g[a]
  OBVIOUS
<1> HIDE DEF h
<1>1. ASSUME NEW S \in SUBSET T, \A R \in SUBSET S : R # S => R \in Q PROVE S \in Q
  <2>1. CASE S = {}
    BY <1>0, <2>1, SumSplit
  <2>2. CASE S # {}
    <3>1. PICK x \in S : TRUE
      BY <2>2
    <3> DEFINE R == S \ {x}
    <3>2. Sum(h, R) = c * Sum(g, R)
      BY <1>1, <3>1
    <3>3. Sum(g, S) = g[x] + Sum(g, R) /\ Sum(h, S) = h[x] + Sum(h, R)
      BY <1>0, SumSplit
    <3>4. Sum(g, R) \in Int /\ g[x] \in Int /\ h[x] = c * g[x]
      BY <1>0, SumSplit
    <3> HIDE DEF R
    <3>5. c * (g[x] + Sum(g, R)) = c * g[x] + c * Sum(g, R)
      BY <3>4
    <3> QED BY <3>2, <3>3, <3>4, <3>5
  <2> QED BY <2>1, <2>2
<1> HIDE DEF Q
<1>2. T \in Q
  BY <1>1, SubsetInduction
<1> QED BY <1>2 DEF Q, h

\* Only the summands matter, not the function they are taken from.
LEMMA SumAgree ==
  ASSUME NEW T, IsFiniteSet(T), NEW g \in [T -> Int], NEW S \in SUBSET T
  PROVE  Sum(g, S) = Sum([a \in S |-> g[a]], S)
<1> DEFINE h == [a \in S |-> g[a]]
           Q == {R \in SUBSET S : Sum(g, R) = Sum(h, R)}
<1>0. h \in [S -> Int] /\ IsFiniteSet(S) /\ \A a \in S : h[a] = g[a]
  BY FS_Subset
<1> HIDE DEF h
<1>1. ASSUME NEW U \in SUBSET S, \A R \in SUBSET U : R # U => R \in Q PROVE U \in Q
  <2>1. CASE U = {}
    BY <1>0, <2>1, SumSplit
  <2>2. CASE U # {}
    <3>1. PICK x \in U : TRUE
      BY <2>2
    <3> DEFINE R == U \ {x}
    <3>2. Sum(g, R) = Sum(h, R)
      BY <1>1, <3>1
    <3>3. Sum(g, U) = g[x] + Sum(g, R)
      BY SumSplit
    <3>4. Sum(h, U) = h[x] + Sum(h, R)
      BY <1>0, SumSplit
    <3> HIDE DEF R
    <3> QED BY <1>0, <3>2, <3>3, <3>4
  <2> QED BY <2>1, <2>2
<1> HIDE DEF Q
<1>2. S \in Q
  BY <1>0, <1>1, SubsetInduction
<1> QED BY <1>2 DEF Q, h

\* Positive summands make a positive sum.
LEMMA SumPositive ==
  ASSUME NEW T, IsFiniteSet(T), NEW g \in [T -> Nat]
  PROVE  /\ Sum(g, T) \in Nat
         /\ (\E x \in T : g[x] > 0) => Sum(g, T) > 0
         /\ \A x \in T : g[x] <= Sum(g, T)
<1>0. g \in [T -> Int]
  OBVIOUS
<1>1. ASSUME NEW S \in SUBSET T PROVE Sum(g, S) \in Nat
  <2> DEFINE gS == [a \in S |-> g[a]]
             zS == [a \in S |-> 0 * g[a]]
  <2>1. IsFiniteSet(S) /\ gS \in [S -> Int] /\ zS \in [S -> Int] /\ \A a \in S : zS[a] <= gS[a]
    BY FS_Subset
  <2>2. Sum(zS, S) <= Sum(gS, S)
    <3> HIDE DEF gS, zS
    <3> QED BY <2>1, SumMonotone
  <2>3. Sum(zS, S) = 0 * Sum(gS, S)
    <3>1. zS = [a \in S |-> 0 * gS[a]]
      OBVIOUS
    <3> HIDE DEF gS, zS
    <3> QED BY <2>1, <3>1, SumScale
  <2>4. Sum(gS, S) = Sum(g, S) /\ Sum(g, S) \in Int
    BY <1>0, SumAgree, SumSplit
  <2> HIDE DEF gS, zS
  <2> QED BY <2>2, <2>3, <2>4
<1>2. ASSUME NEW x \in T PROVE g[x] \in Nat /\ g[x] <= Sum(g, T)
  <2>1. Sum(g, T) = g[x] + Sum(g, T \ {x})
    BY <1>0, SumSplit
  <2>2. Sum(g, T \ {x}) \in Nat
    BY <1>1
  <2> QED BY <2>1, <2>2
<1> QED BY <1>1, <1>2

\* The recursion MapThenSumSet is defined by, for the values of g.
Running(g, T, h) ==
  [R \in SUBSET T |-> IF R = {} THEN 0
                      ELSE LET x == CHOOSE y \in R : TRUE IN g[x] + h[R \ {x}]]

\* It has a solution, and every solution is the sum.
LEMMA RunningSum ==
  ASSUME NEW T, IsFiniteSet(T), NEW g \in [T -> Int]
  PROVE  /\ \E f : f = Running(g, T, f)
         /\ \A f : f = Running(g, T, f) => f[T] = Sum(g, T)
<1>2. PICK f \in [SUBSET T -> Int] :
        Folds(f, T, 0, Plus(g, T), AnyOf(T)) /\ \A S \in SUBSET T : f[S] = Sum(g, S)
  BY SumFolds
<1>4. ASSUME NEW R \in SUBSET T, R # {}
      PROVE  LET x == CHOOSE y \in R : TRUE IN x \in R /\ f[R] = g[x] + f[R \ {x}]
  <2> DEFINE x == CHOOSE y \in R : TRUE
  <2>1. x \in R /\ AnyOf(T)[R] = x
    BY <1>4 DEF AnyOf
  <2>2. f[R] = Plus(g, T)[<<x, f[R \ {x}]>>]
    BY <1>2, <1>4, <2>1 DEF Folds
  <2> HIDE DEF x
  <2>3. <<x, f[R \ {x}]>> \in T \X Int
    BY <2>1
  <2>4. f[R] = g[x] + f[R \ {x}]
    BY <2>2, <2>3 DEF Plus
  <2> QED BY <2>1, <2>4 DEF x
<1>5. f = Running(g, T, f)
  <2>1. f[{}] = 0
    BY <1>2 DEF Folds
  <2>2. ASSUME NEW R \in SUBSET T
        PROVE  f[R] = IF R = {} THEN 0
                      ELSE LET x == CHOOSE y \in R : TRUE IN g[x] + f[R \ {x}]
    BY <1>4, <2>1
  <2> QED BY <2>2 DEF Running
<1>6. ASSUME NEW h, h = Running(g, T, h) PROVE h[T] = Sum(g, T)
  <2> DEFINE Q == {R \in SUBSET T : h[R] = f[R]}
  <2>1. \A R \in SUBSET T : h[R] = IF R = {} THEN 0
                              ELSE LET x == CHOOSE y \in R : TRUE IN g[x] + h[R \ {x}]
    BY <1>6 DEF Running
  <2>7. ASSUME NEW R \in SUBSET T, \A P \in SUBSET R : P # R => P \in Q PROVE R \in Q
    <3>1. CASE R = {}
      BY <1>2, <2>1, <3>1 DEF Folds
    <3>2. CASE R # {}
      <4> DEFINE x == CHOOSE y \in R : TRUE
      <4>1. x \in R /\ f[R] = g[x] + f[R \ {x}]
        BY <1>4, <3>2
      <4>2. h[R] = g[x] + h[R \ {x}]
        BY <2>1, <3>2
      <4> HIDE DEF x
      <4> QED BY <2>7, <4>1, <4>2
    <3> QED BY <3>1, <3>2
  <2> HIDE DEF Q
  <2>8. SUBSET T \subseteq Q
    BY <2>7, SubsetInduction
  <2> QED BY <1>2, <2>8 DEF Q
<1> QED BY <1>5, <1>6

LEMMA ProductIsNat == ASSUME NEW a \in Nat, NEW b \in Nat PROVE a * b \in Nat
OBVIOUS

----------------------------------------------------------------------------
(* The technical agent.                                                   *)

\* What the nine indicators of a reading vote.
VotesAre(r, e, s, m, rm, re, b, st, d, p) ==
  /\ e = Technical!SignDeadzone(r.ema, r.dead) /\ s = Technical!SignDeadzone(r.sma, r.dead)
  /\ m = Technical!SignDeadzone(r.macd, r.dead)
  /\ rm = Technical!RsiMidline(r.rsi) /\ re = Technical!RsiExtreme(r.rsi)
  /\ b = Technical!Breakout(r.bb) /\ st = Technical!StochVote(r.stoch)
  /\ d = Technical!Breakout(r.don) /\ p = Technical!PivotVote(r.day)

\* The score, written out.
LEMMA ScoreForm ==
  ASSUME NEW r, Technical!Gate(r.adx) \in Int,
         NEW e \in Int, NEW s \in Int, NEW m \in Int, NEW rm \in Int, NEW re \in Int,
         NEW b \in Int, NEW st \in Int, NEW d \in Int, NEW p \in Int,
         VotesAre(r, e, s, m, rm, re, b, st, d, p)
  PROVE  Technical!Score(r)
           = (18 * e + 12 * s + 15 * m + 12 * d) * Technical!Gate(r.adx)
             + (8 * rm + 12 * re + 10 * b + 10 * st + 10 * p) * 50
<1> DEFINE G == Technical!Gate(r.adx)
           v1 == [name |-> "ema_cross", weight |-> 18, gated |-> TRUE, vote |-> e]
           v2 == [name |-> "close_vs_sma50", weight |-> 12, gated |-> TRUE, vote |-> s]
           v3 == [name |-> "macd_histogram", weight |-> 15, gated |-> TRUE, vote |-> m]
           v4 == [name |-> "rsi_midline", weight |-> 8, gated |-> FALSE, vote |-> rm]
           v5 == [name |-> "rsi_extreme", weight |-> 12, gated |-> FALSE, vote |-> re]
           v6 == [name |-> "bollinger_breakout", weight |-> 10, gated |-> FALSE, vote |-> b]
           v7 == [name |-> "stochastic", weight |-> 10, gated |-> FALSE, vote |-> st]
           v8 == [name |-> "donchian_breakout", weight |-> 12, gated |-> TRUE, vote |-> d]
           v9 == [name |-> "pivot_position", weight |-> 10, gated |-> FALSE, vote |-> p]
           T == {v1, v2, v3, v4, v5, v6, v7, v8, v9}
           worth(v) == v.weight * v.vote * (IF v.gated THEN G ELSE 50)
           g == [v \in T |-> worth(v)]
<1>1. Technical!VotesOf(r) = T
  BY DEF Technical!VotesOf, VotesAre
<1>2. /\ worth(v1) = 18 * e * G /\ worth(v2) = 12 * s * G /\ worth(v3) = 15 * m * G
      /\ worth(v8) = 12 * d * G
      /\ worth(v4) = 8 * rm * 50 /\ worth(v5) = 12 * re * 50 /\ worth(v6) = 10 * b * 50
      /\ worth(v7) = 10 * st * 50 /\ worth(v9) = 10 * p * 50
  OBVIOUS
<1>3. /\ v1.name = "ema_cross" /\ v2.name = "close_vs_sma50" /\ v3.name = "macd_histogram"
      /\ v4.name = "rsi_midline" /\ v5.name = "rsi_extreme" /\ v6.name = "bollinger_breakout"
      /\ v7.name = "stochastic" /\ v8.name = "donchian_breakout" /\ v9.name = "pivot_position"
  OBVIOUS
<1>4. IsFiniteSet(T)
  <2> HIDE DEF v1, v2, v3, v4, v5, v6, v7, v8, v9
  <2>1. IsFiniteSet({} \cup {v1})
    BY FS_EmptySet, FS_AddElement
  <2>2. IsFiniteSet({v1} \cup {v2})
    BY <2>1, FS_AddElement
  <2>3. IsFiniteSet({v1, v2} \cup {v3})
    BY <2>2, FS_AddElement
  <2>4. IsFiniteSet({v1, v2, v3} \cup {v4})
    BY <2>3, FS_AddElement
  <2>5. IsFiniteSet({v1, v2, v3, v4} \cup {v5})
    BY <2>4, FS_AddElement
  <2>6. IsFiniteSet({v1, v2, v3, v4, v5} \cup {v6})
    BY <2>5, FS_AddElement
  <2>7. IsFiniteSet({v1, v2, v3, v4, v5, v6} \cup {v7})
    BY <2>6, FS_AddElement
  <2>8. IsFiniteSet({v1, v2, v3, v4, v5, v6, v7} \cup {v8})
    BY <2>7, FS_AddElement
  <2>9. IsFiniteSet({v1, v2, v3, v4, v5, v6, v7, v8} \cup {v9})
    BY <2>8, FS_AddElement
  <2> QED BY <2>9
<1>5. G \in Int
  OBVIOUS
<1> HIDE DEF v1, v2, v3, v4, v5, v6, v7, v8, v9, G
<1>6. g \in [T -> Int]
  <2>1. \A v \in T : worth(v) \in Int
    <3> HIDE DEF worth
    <3> SUFFICES /\ worth(v1) \in Int /\ worth(v2) \in Int /\ worth(v3) \in Int
                 /\ worth(v4) \in Int /\ worth(v5) \in Int /\ worth(v6) \in Int
                 /\ worth(v7) \in Int /\ worth(v8) \in Int /\ worth(v9) \in Int
      OBVIOUS
    <3> QED BY <1>2, <1>5
  <2> HIDE DEF worth
  <2> QED BY <2>1
<1>7. Technical!Score(r) = Sum(g, T)
  <2> DEFINE body(h) == [R \in SUBSET T |->
                           IF R = {} THEN 0
                           ELSE LET x == CHOOSE y \in R : TRUE IN worth(x) + h[R \ {x}]]
             It == CHOOSE h : h = body(h)
  <2>1. Technical!Score(r) = It[T]
    BY <1>1 DEF G, Technical!Score, Technical!MapThenSumSet, Technical!MapThenFoldSet
  <2> HIDE DEF worth, T
  <2>2. ASSUME NEW h PROVE body(h) = Running(g, T, h)
    <3>1. ASSUME NEW R \in SUBSET T, R # {}
          PROVE  LET x == CHOOSE y \in R : TRUE IN g[x] = worth(x)
      BY <3>1
    <3> HIDE DEF g
    <3> QED BY <3>1 DEF Running
  <2>3. PICK f : f = Running(g, T, f)
    <3> HIDE DEF g
    <3> QED BY <1>4, <1>6, RunningSum
  <2>4. It = body(It)
    <3>1. f = body(f)
      BY <2>2, <2>3
    <3> QED BY <3>1
  <2> HIDE DEF It, body, g
  <2> QED BY <2>1, <2>2, <2>4, <1>4, <1>6, RunningSum
<1>8. /\ g[v1] = 18 * e * G /\ g[v2] = 12 * s * G /\ g[v3] = 15 * m * G /\ g[v8] = 12 * d * G
      /\ g[v4] = 8 * rm * 50 /\ g[v5] = 12 * re * 50 /\ g[v6] = 10 * b * 50
      /\ g[v7] = 10 * st * 50 /\ g[v9] = 10 * p * 50
  <2> HIDE DEF worth
  <2>1. \A v \in T : g[v] = worth(v)
    OBVIOUS
  <2> QED BY <1>2, <2>1
<1> HIDE DEF g, worth
<1>9. /\ Sum(g, T) = g[v1] + Sum(g, {v2, v3, v4, v5, v6, v7, v8, v9})
      /\ Sum(g, {v2, v3, v4, v5, v6, v7, v8, v9}) = g[v2] + Sum(g, {v3, v4, v5, v6, v7, v8, v9})
      /\ Sum(g, {v3, v4, v5, v6, v7, v8, v9}) = g[v3] + Sum(g, {v4, v5, v6, v7, v8, v9})
      /\ Sum(g, {v4, v5, v6, v7, v8, v9}) = g[v4] + Sum(g, {v5, v6, v7, v8, v9})
      /\ Sum(g, {v5, v6, v7, v8, v9}) = g[v5] + Sum(g, {v6, v7, v8, v9})
      /\ Sum(g, {v6, v7, v8, v9}) = g[v6] + Sum(g, {v7, v8, v9})
      /\ Sum(g, {v7, v8, v9}) = g[v7] + Sum(g, {v8, v9})
      /\ Sum(g, {v8, v9}) = g[v8] + Sum(g, {v9})
      /\ Sum(g, {v9}) = g[v9] + Sum(g, {})
      /\ Sum(g, {}) = 0
  <2>1. ASSUME NEW S \in SUBSET T, NEW v \in S
        PROVE  Sum(g, {}) = 0 /\ Sum(g, S) = g[v] + Sum(g, S \ {v})
    <3> HIDE DEF T
    <3> QED BY <1>4, <1>6, SumSplit
  <2>2. /\ T \ {v1} = {v2, v3, v4, v5, v6, v7, v8, v9}
        /\ {v2, v3, v4, v5, v6, v7, v8, v9} \ {v2} = {v3, v4, v5, v6, v7, v8, v9}
        /\ {v3, v4, v5, v6, v7, v8, v9} \ {v3} = {v4, v5, v6, v7, v8, v9}
        /\ {v4, v5, v6, v7, v8, v9} \ {v4} = {v5, v6, v7, v8, v9}
        /\ {v5, v6, v7, v8, v9} \ {v5} = {v6, v7, v8, v9}
        /\ {v6, v7, v8, v9} \ {v6} = {v7, v8, v9}
        /\ {v7, v8, v9} \ {v7} = {v8, v9}
        /\ {v8, v9} \ {v8} = {v9} /\ {v9} \ {v9} = {}
    BY <1>3
  <2>3. Sum(g, T) = g[v1] + Sum(g, {v2, v3, v4, v5, v6, v7, v8, v9})
    BY <2>1, <2>2
  <2>4. Sum(g, {v2, v3, v4, v5, v6, v7, v8, v9}) = g[v2] + Sum(g, {v3, v4, v5, v6, v7, v8, v9})
    BY <2>1, <2>2
  <2>5. Sum(g, {v3, v4, v5, v6, v7, v8, v9}) = g[v3] + Sum(g, {v4, v5, v6, v7, v8, v9})
    BY <2>1, <2>2
  <2>6. Sum(g, {v4, v5, v6, v7, v8, v9}) = g[v4] + Sum(g, {v5, v6, v7, v8, v9})
    BY <2>1, <2>2
  <2>7. Sum(g, {v5, v6, v7, v8, v9}) = g[v5] + Sum(g, {v6, v7, v8, v9})
    BY <2>1, <2>2
  <2>8. Sum(g, {v6, v7, v8, v9}) = g[v6] + Sum(g, {v7, v8, v9})
    BY <2>1, <2>2
  <2>9. Sum(g, {v7, v8, v9}) = g[v7] + Sum(g, {v8, v9})
    BY <2>1, <2>2
  <2>10. Sum(g, {v8, v9}) = g[v8] + Sum(g, {v9})
    BY <2>1, <2>2
  <2>11. Sum(g, {v9}) = g[v9] + Sum(g, {})
    BY <2>1, <2>2
  <2> QED BY <2>1, <2>3, <2>4, <2>5, <2>6, <2>7, <2>8, <2>9, <2>10, <2>11
<1>10. Sum(g, T) = 18 * e * G + (12 * s * G + (15 * m * G + (8 * rm * 50 + (12 * re * 50
                     + (10 * b * 50 + (10 * st * 50 + (12 * d * G + (10 * p * 50 + 0))))))))
  <2> HIDE DEF T
  <2> QED BY <1>8, <1>9
<1> QED BY <1>5, <1>7, <1>10 DEF G

\* The weight behind the trend followers, and behind the other votes.
Following(e, s, m, d) == 18 * e + 12 * s + 15 * m + 12 * d
Others(rm, re, b, st, p) == 8 * rm + 12 * re + 10 * b + 10 * st + 10 * p

\* Every indicator votes up, down or not at all; an extreme RSI votes against its side
\* of the midline.
LEMMA VoteFacts ==
  ASSUME NEW r, NEW e, NEW s, NEW m, NEW rm, NEW re, NEW b, NEW st, NEW d, NEW p,
         VotesAre(r, e, s, m, rm, re, b, st, d, p), r.rsi \in Int \cup {NULL}
  PROVE  /\ e \in {-1, 0, 1} /\ s \in {-1, 0, 1} /\ m \in {-1, 0, 1} /\ rm \in {-1, 0, 1}
         /\ re \in {-1, 0, 1} /\ b \in {-1, 0, 1} /\ st \in {-1, 0, 1} /\ d \in {-1, 0, 1}
         /\ p \in {-1, 0, 1}
         /\ re # 0 => rm = -re
<1>1. e \in {-1, 0, 1} /\ s \in {-1, 0, 1} /\ m \in {-1, 0, 1}
  BY DEF VotesAre, Technical!SignDeadzone
<1>2. rm \in {-1, 0, 1} /\ re \in {-1, 0, 1} /\ (re # 0 => rm = -re)
  BY DEF VotesAre, Technical!RsiMidline, Technical!RsiExtreme
<1>3. b \in {-1, 0, 1} /\ d \in {-1, 0, 1}
  BY DEF VotesAre, Technical!Breakout
<1>4. st \in {-1, 0, 1} /\ p \in {-1, 0, 1}
  BY DEF VotesAre, Technical!StochVote, Technical!PivotVote
<1> QED BY <1>1, <1>2, <1>3, <1>4

\* The share of the trend followers, in fiftieths; 38 at most where there is no trend.
LEMMA GateRange ==
  ASSUME Technical!TechnicalAssumption, NEW a \in Adxs
  PROVE  /\ Technical!Gate(a) \in 15 .. 50
         /\ a # NULL /\ a < 20 => Technical!Gate(a) <= 38
<1>1. CASE a = NULL
  BY <1>1 DEF Technical!Gate
<1>2. CASE a # NULL
  <2>1. a \in Int
    BY <1>2 DEF Technical!TechnicalAssumption
  <2> QED BY <1>2, <2>1 DEF Technical!Gate
<1> QED BY <1>1, <1>2

\* A gate of at most n fiftieths leaves a sum a within its share.
LEMMA Damped ==
  ASSUME NEW a \in -57 .. 57, NEW g \in Nat, NEW n \in Nat, g <= n
  PROVE  a * g \in Int /\ a * g <= 57 * n /\ -(57 * n) <= a * g
<1>1. a * g <= 57 * g /\ -57 * g <= a * g
  <2> DEFINE x == 57 - a
             y == 57 + a
  <2>1. x \in Nat /\ y \in Nat
    OBVIOUS
  <2>2. x * g >= 0 /\ y * g >= 0
    <3> HIDE DEF x, y
    <3> QED BY <2>1
  <2>3. x * g = 57 * g - a * g /\ y * g = 57 * g + a * g
    OBVIOUS
  <2> QED BY <2>2, <2>3
<1>2. a * g \in Int
  OBVIOUS
<1> QED BY <1>1, <1>2

\* The two shares of the score, and how large they can be.
LEMMA ScoreShares ==
  ASSUME Technical!TechnicalAssumption, NEW r \in Technical!Readings
  PROVE  \E a \in -57 .. 57, o \in -42 .. 42 :
           /\ Technical!Score(r) = a * Technical!Gate(r.adx) + o * 50
           /\ (\A v \in Technical!VotesOf(r) : ~ v.gated => v.vote = 0) => o = 0
<1> DEFINE e == Technical!SignDeadzone(r.ema, r.dead)
           s == Technical!SignDeadzone(r.sma, r.dead)
           m == Technical!SignDeadzone(r.macd, r.dead)
           rm == Technical!RsiMidline(r.rsi)
           re == Technical!RsiExtreme(r.rsi)
           b == Technical!Breakout(r.bb)
           st == Technical!StochVote(r.stoch)
           d == Technical!Breakout(r.don)
           p == Technical!PivotVote(r.day)
           a == Following(e, s, m, d)
           o == Others(rm, re, b, st, p)
<1>1. VotesAre(r, e, s, m, rm, re, b, st, d, p)
  BY DEF VotesAre
<1>2. r.rsi \in Int \cup {NULL} /\ r.adx \in Adxs
  BY DEF Technical!TechnicalAssumption, Technical!Readings
<1>3. (\A v \in Technical!VotesOf(r) : ~ v.gated => v.vote = 0)
        => rm = 0 /\ re = 0 /\ b = 0 /\ st = 0 /\ p = 0
  <2> HAVE \A v \in Technical!VotesOf(r) : ~ v.gated => v.vote = 0
  <2>1. /\ [name |-> "rsi_midline", weight |-> 8, gated |-> FALSE, vote |-> rm]
             \in Technical!VotesOf(r)
        /\ [name |-> "rsi_extreme", weight |-> 12, gated |-> FALSE, vote |-> re]
             \in Technical!VotesOf(r)
        /\ [name |-> "bollinger_breakout", weight |-> 10, gated |-> FALSE, vote |-> b]
             \in Technical!VotesOf(r)
        /\ [name |-> "stochastic", weight |-> 10, gated |-> FALSE, vote |-> st]
             \in Technical!VotesOf(r)
        /\ [name |-> "pivot_position", weight |-> 10, gated |-> FALSE, vote |-> p]
             \in Technical!VotesOf(r)
    BY DEF Technical!VotesOf
  <2> HIDE DEF rm, re, b, st, p
  <2> QED BY <2>1
<1> HIDE DEF e, s, m, rm, re, b, st, d, p
<1>4. /\ e \in {-1, 0, 1} /\ s \in {-1, 0, 1} /\ m \in {-1, 0, 1} /\ rm \in {-1, 0, 1}
      /\ re \in {-1, 0, 1} /\ b \in {-1, 0, 1} /\ st \in {-1, 0, 1} /\ d \in {-1, 0, 1}
      /\ p \in {-1, 0, 1}
      /\ re # 0 => rm = -re
  BY <1>1, <1>2, VoteFacts
<1>5. Technical!Gate(r.adx) \in Int
  BY <1>2, GateRange
<1>6. Technical!Score(r) = a * Technical!Gate(r.adx) + o * 50
  BY <1>1, <1>4, <1>5, ScoreForm DEF Following, Others
<1>7. a \in -57 .. 57
  BY <1>4 DEF Following
<1>8. o \in -42 .. 42
  BY <1>4 DEF Others
<1>9. rm = 0 /\ re = 0 /\ b = 0 /\ st = 0 /\ p = 0 => o = 0
  BY DEF Others
<1> HIDE DEF a, o
<1> QED BY <1>3, <1>6, <1>7, <1>8, <1>9

\* However its votes fall, a reading scores at most 1, and trend followers alone stay
\* below 0.5 where there is no trend.
LEMMA ScoreIsBounded ==
  ASSUME Technical!TechnicalAssumption, reading \in Technical!Readings
  PROVE  Technical!ScoreIsAFraction /\ Technical!WeakTrendIsDamped
<1> DEFINE G == Technical!Gate(reading.adx)
<1>1. PICK a \in -57 .. 57, o \in -42 .. 42 :
        /\ Technical!Score(reading) = a * G + o * 50
        /\ (\A v \in Technical!VotesOf(reading) : ~ v.gated => v.vote = 0) => o = 0
  BY ScoreShares
<1>2. reading.adx \in Adxs
  BY DEF Technical!Readings
<1>3. G \in 15 .. 50 /\ (reading.adx # NULL /\ reading.adx < 20 => G <= 38)
  BY <1>2, GateRange
<1> HIDE DEF G
<1>4. a * G \in Int /\ a * G <= 57 * 50 /\ -(57 * 50) <= a * G
  BY <1>3, Damped
<1>5. Technical!ScoreIsAFraction
  BY <1>1, <1>4 DEF Technical!ScoreIsAFraction, Technical!Abs
<1>6. Technical!WeakTrendIsDamped
  <2> SUFFICES ASSUME reading.adx # NULL, reading.adx < 20,
                      \A v \in Technical!VotesOf(reading) : ~ v.gated => v.vote = 0
               PROVE  Technical!Signal(reading).conf < 2500
    BY DEF Technical!WeakTrendIsDamped
  <2>1. a * G <= 57 * 38 /\ -(57 * 38) <= a * G
    BY <1>3, Damped
  <2>2. Technical!Score(reading) = a * G
    BY <1>1, <1>4
  <2> QED BY <1>4, <2>1, <2>2 DEF Technical!Signal, Technical!Abs
<1> QED BY <1>5, <1>6

\* The votes on the mirror image are the opposite ones, but for ties.
LEMMA MirrorVotes ==
  ASSUME Technical!TechnicalAssumption, NEW r \in Technical!Readings, ~ Technical!Tie(r),
         NEW e, NEW s, NEW m, NEW rm, NEW re, NEW b, NEW st, NEW d, NEW p,
         VotesAre(r, e, s, m, rm, re, b, st, d, p)
  PROVE  VotesAre(Technical!Mirror(r), -e, -s, -m, -rm, -re, -b, -st, -d, -p)
<1> DEFINE x == Technical!Mirror(r)
<1>1. /\ r.ema \in Int /\ r.sma \in Int /\ r.macd \in Int /\ r.dead \in Nat
      /\ r.rsi \in Int \cup {NULL} /\ NULL \notin Int
  BY DEF Technical!TechnicalAssumption, Technical!Readings
<1>2. /\ x.ema = -r.ema /\ x.sma = -r.sma /\ x.macd = -r.macd /\ x.dead = r.dead
      /\ x.bb = Technical!MirrorBand(r.bb) /\ x.don = Technical!MirrorBand(r.don)
      /\ x.day = Technical!MirrorDay(r.day)
      /\ x.rsi = (IF r.rsi = NULL THEN NULL ELSE 1000 - r.rsi)
      /\ x.stoch = (IF r.stoch = NULL THEN NULL
                    ELSE [k |-> 1000 - r.stoch.k, d |-> 1000 - r.stoch.d])
  BY DEF Technical!Mirror, Technical!Readings
<1> HIDE DEF x
<1>3. /\ -e = Technical!SignDeadzone(x.ema, x.dead) /\ -s = Technical!SignDeadzone(x.sma, x.dead)
      /\ -m = Technical!SignDeadzone(x.macd, x.dead)
  BY <1>1, <1>2 DEF VotesAre, Technical!SignDeadzone
<1>4. -rm = Technical!RsiMidline(x.rsi) /\ -re = Technical!RsiExtreme(x.rsi)
  BY <1>1, <1>2 DEF VotesAre, Technical!RsiMidline, Technical!RsiExtreme
<1>5. ASSUME NEW y \in {r.bb, r.don}
      PROVE  Technical!Breakout(Technical!MirrorBand(y)) = -Technical!Breakout(y)
  <2>1. CASE y = NULL
    <3>1. /\ Technical!Breakout(y) \in Int /\ Technical!Breakout(Technical!MirrorBand(y)) \in Int
          /\ Technical!Breakout(Technical!MirrorBand(y)) + Technical!Breakout(y) = 0
      BY <2>1 DEF Technical!Breakout, Technical!MirrorBand
    <3>2. \A u, w \in Int : w + u = 0 => w = -u
      OBVIOUS
    <3> QED BY <3>1, <3>2
  <2>2. CASE y # NULL
    <3>1. y \in Bands
      BY DEF Technical!Readings
    <3>2. /\ y.upper \in Int /\ y.lower \in Int /\ y.lower <= y.upper
          /\ ~ (y.upper = 0 /\ y.lower = 0)
      BY <2>2, <3>1 DEF Technical!TechnicalAssumption, Technical!Tie
    <3> DEFINE z == [upper |-> -y.lower, lower |-> -y.upper]
    <3>3. z \in [upper : Int, lower : Int] /\ z.upper = -y.lower /\ z.lower = -y.upper
      BY <3>2
    <3>4. z # NULL /\ Technical!MirrorBand(y) = z
      BY <2>2, <3>3 DEF Technical!TechnicalAssumption, Technical!MirrorBand
    <3> HIDE DEF z
    <3> QED BY <2>2, <3>2, <3>3, <3>4 DEF Technical!Breakout
  <2> QED BY <2>1, <2>2
<1>6. -b = Technical!Breakout(x.bb) /\ -d = Technical!Breakout(x.don)
  BY <1>2, <1>5 DEF VotesAre
<1>7. -st = Technical!StochVote(x.stoch)
  <2>1. CASE r.stoch = NULL
    <3>1. x.stoch = NULL
      BY <1>2, <2>1
    <3>2. st \in 0 .. 0 /\ Technical!StochVote(x.stoch) \in 0 .. 0
      BY <2>1, <3>1 DEF VotesAre, Technical!StochVote
    <3> QED BY <3>2
  <2>2. CASE r.stoch # NULL
    <3>1. r.stoch \in [k : Int, d : Int]
      BY <2>2 DEF Technical!TechnicalAssumption, Technical!Readings
    <3>2. x.stoch \in [k : Int, d : Int] /\ x.stoch.k = 1000 - r.stoch.k
          /\ x.stoch.d = 1000 - r.stoch.d
      BY <1>2, <2>2, <3>1
    <3>3. x.stoch # NULL
      BY <3>2 DEF Technical!TechnicalAssumption
    <3> QED BY <2>2, <3>1, <3>2, <3>3 DEF VotesAre, Technical!StochVote
  <2> QED BY <2>1, <2>2
<1>8. -p = Technical!PivotVote(x.day)
  <2>1. CASE r.day = NULL
    <3>1. x.day = NULL
      BY <1>2, <2>1 DEF Technical!MirrorDay
    <3>2. p \in 0 .. 0 /\ Technical!PivotVote(x.day) \in 0 .. 0
      BY <2>1, <3>1 DEF VotesAre, Technical!PivotVote
    <3> QED BY <3>2
  <2>2. CASE r.day # NULL
    <3>1. r.day \in [high : Int, low : Int, close : Int]
      BY <2>2 DEF Technical!TechnicalAssumption, Technical!Readings
    <3>2. x.day = [high |-> -r.day.low, low |-> -r.day.high, close |-> -r.day.close]
      BY <1>2, <2>2 DEF Technical!MirrorDay
    <3>3. /\ x.day \in [high : Int, low : Int, close : Int] /\ x.day.high = -r.day.low
          /\ x.day.low = -r.day.high /\ x.day.close = -r.day.close
      BY <3>1, <3>2
    <3>4. x.day # NULL /\ r.day.high + r.day.low + r.day.close # 0
      BY <2>2, <3>3 DEF Technical!TechnicalAssumption, Technical!Tie
    <3> QED BY <2>2, <3>1, <3>3, <3>4 DEF VotesAre, Technical!PivotVote
  <2> QED BY <2>1, <2>2
<1> QED BY <1>3, <1>4, <1>6, <1>7, <1>8 DEF VotesAre, x

\* So the score of the mirror image is the opposite one.
LEMMA MirrorScore ==
  ASSUME Technical!TechnicalAssumption, NEW r \in Technical!Readings, ~ Technical!Tie(r)
  PROVE  /\ Technical!Score(r) \in Int
         /\ Technical!Score(Technical!Mirror(r)) = -Technical!Score(r)
<1> DEFINE e == Technical!SignDeadzone(r.ema, r.dead)
           s == Technical!SignDeadzone(r.sma, r.dead)
           m == Technical!SignDeadzone(r.macd, r.dead)
           rm == Technical!RsiMidline(r.rsi)
           re == Technical!RsiExtreme(r.rsi)
           b == Technical!Breakout(r.bb)
           st == Technical!StochVote(r.stoch)
           d == Technical!Breakout(r.don)
           p == Technical!PivotVote(r.day)
           x == Technical!Mirror(r)
           G == Technical!Gate(r.adx)
<1>1. VotesAre(r, e, s, m, rm, re, b, st, d, p)
  BY DEF VotesAre
<1>2. r.rsi \in Int \cup {NULL} /\ r.adx \in Adxs /\ x.adx = r.adx
  BY DEF Technical!TechnicalAssumption, Technical!Readings, Technical!Mirror
<1> HIDE DEF e, s, m, rm, re, b, st, d, p, x
<1>3. VotesAre(x, -e, -s, -m, -rm, -re, -b, -st, -d, -p)
  BY <1>1, MirrorVotes DEF x
<1>4. /\ e \in Int /\ s \in Int /\ m \in Int /\ rm \in Int /\ re \in Int /\ b \in Int /\ st \in Int
      /\ d \in Int /\ p \in Int
  BY <1>1, <1>2, VoteFacts
<1>5. G \in Int
  BY <1>2, GateRange
<1>6. Technical!Score(r) = Following(e, s, m, d) * G + Others(rm, re, b, st, p) * 50
  BY <1>1, <1>4, <1>5, ScoreForm DEF Following, Others
<1>7. Technical!Score(x) = Following(-e, -s, -m, -d) * G + Others(-rm, -re, -b, -st, -p) * 50
  <2>1. /\ -e \in Int /\ -s \in Int /\ -m \in Int /\ -rm \in Int /\ -re \in Int /\ -b \in Int
        /\ -st \in Int /\ -d \in Int /\ -p \in Int
    BY <1>4
  <2> QED BY <1>2, <1>3, <1>5, <2>1, ScoreForm DEF Following, Others
<1>8. /\ Following(-e, -s, -m, -d) = -Following(e, s, m, d)
      /\ Others(-rm, -re, -b, -st, -p) = -Others(rm, re, b, st, p)
      /\ Following(e, s, m, d) \in Int /\ Others(rm, re, b, st, p) \in Int
  BY <1>4 DEF Following, Others
<1> HIDE DEF G
<1>9. (-Following(e, s, m, d)) * G = -(Following(e, s, m, d) * G)
  BY <1>5, <1>8
<1> QED BY <1>5, <1>6, <1>7, <1>8, <1>9 DEF x

\* And so is its signal.
LEMMA MirrorIsOpposite ==
  ASSUME Technical!TechnicalAssumption, reading \in Technical!Readings PROVE Technical!MirrorImage
<1> SUFFICES ASSUME ~ Technical!Tie(reading)
             PROVE  LET a == Technical!Signal(reading)
                        b == Technical!Signal(Technical!Mirror(reading))
                    IN a.dir = -b.dir /\ a.conf = b.conf
  BY DEF Technical!MirrorImage
<1> QED BY MirrorScore DEF Technical!Signal, Technical!Abs

----------------------------------------------------------------------------
(* The agents that read content.                                          *)

PosNat == Nat \ {0}

\* Fractions: the difference of two is one, and the opposite of the opposite difference.
LEMMA MinusFacts ==
  ASSUME NEW a, NEW b, a[1] \in Int, a[2] \in PosNat, b[1] \in Int, b[2] \in PosNat
  PROVE  LET d == Readers!Minus(a, b)
             o == Readers!Minus(b, a)
         IN /\ d[1] \in Int /\ d[2] \in PosNat /\ o[1] \in Int /\ o[2] = d[2]
            /\ o[1] + d[1] = 0
<1>1. \A p, q \in Int : p * q \in Int /\ p * q = q * p
  OBVIOUS
<1>2. \A p, q \in PosNat : p * q \in PosNat
  BY DEF PosNat
<1>3. a[2] \in Int /\ b[2] \in Int
  BY DEF PosNat
<1>4. /\ a[1] * b[2] \in Int /\ b[1] * a[2] \in Int /\ a[2] * b[2] \in PosNat
      /\ b[2] * a[2] = a[2] * b[2]
  BY <1>1, <1>2, <1>3
<1> QED BY <1>4 DEF Readers!Minus

\* The sums of Bias and Aggregate, as sums of a function.
LEMMA SurpriseSum ==
  ASSUME NEW es, NEW S, IsFiniteSet(S),
         \A n \in S : es[n].sign \in Int /\ Readers!Importance[es[n].imp] \in Int
  PROVE  Readers!MapThenSumSet(LAMBDA n : es[n].sign * Readers!Importance[es[n].imp], S)
           = Sum([n \in S |-> es[n].sign * Readers!Importance[es[n].imp]], S)
<1> DEFINE worth(n) == es[n].sign * Readers!Importance[es[n].imp]
           g == [n \in S |-> worth(n)]
           body(h) == [R \in SUBSET S |->
                         IF R = {} THEN 0
                         ELSE LET x == CHOOSE y \in R : TRUE IN worth(x) + h[R \ {x}]]
           It == CHOOSE h : h = body(h)
<1>1. g \in [S -> Int]
  <2>1. \A n \in S : worth(n) \in Int
    OBVIOUS
  <2> HIDE DEF worth
  <2> QED BY <2>1
<1>2. Readers!MapThenSumSet(LAMBDA n : es[n].sign * Readers!Importance[es[n].imp], S) = It[S]
  BY DEF Readers!MapThenSumSet, Readers!MapThenFoldSet
<1> HIDE DEF worth
<1>3. ASSUME NEW h PROVE body(h) = Running(g, S, h)
  <2>1. ASSUME NEW R \in SUBSET S, R # {}
        PROVE  LET x == CHOOSE y \in R : TRUE IN g[x] = worth(x)
    BY <2>1
  <2> HIDE DEF g
  <2> QED BY <2>1 DEF Running
<1> HIDE DEF g
<1>4. It = body(It)
  <2>1. PICK f : f = Running(g, S, f)
    BY <1>1, RunningSum
  <2>2. f = body(f)
    BY <1>3, <2>1
  <2> QED BY <2>2
<1> HIDE DEF It, body
<1>5. It[S] = Sum(g, S)
  BY <1>1, <1>3, <1>4, RunningSum
<1> QED BY <1>2, <1>5 DEF g, worth

LEMMA ImportanceSum ==
  ASSUME NEW es, NEW S, IsFiniteSet(S), \A n \in S : Readers!Importance[es[n].imp] \in Int
  PROVE  Readers!MapThenSumSet(LAMBDA n : Readers!Importance[es[n].imp], S)
           = Sum([n \in S |-> Readers!Importance[es[n].imp]], S)
<1> DEFINE worth(n) == Readers!Importance[es[n].imp]
           g == [n \in S |-> worth(n)]
           body(h) == [R \in SUBSET S |->
                         IF R = {} THEN 0
                         ELSE LET x == CHOOSE y \in R : TRUE IN worth(x) + h[R \ {x}]]
           It == CHOOSE h : h = body(h)
<1>1. g \in [S -> Int]
  OBVIOUS
<1>2. Readers!MapThenSumSet(LAMBDA n : Readers!Importance[es[n].imp], S) = It[S]
  BY DEF Readers!MapThenSumSet, Readers!MapThenFoldSet
<1> HIDE DEF worth
<1>3. ASSUME NEW h PROVE body(h) = Running(g, S, h)
  <2>1. ASSUME NEW R \in SUBSET S, R # {}
        PROVE  LET x == CHOOSE y \in R : TRUE IN g[x] = worth(x)
    BY <2>1
  <2> HIDE DEF g
  <2> QED BY <2>1 DEF Running
<1> HIDE DEF g
<1>4. It = body(It)
  <2>1. PICK f : f = Running(g, S, f)
    BY <1>1, RunningSum
  <2>2. f = body(f)
    BY <1>3, <2>1
  <2> QED BY <2>2
<1> HIDE DEF It, body
<1>5. It[S] = Sum(g, S)
  BY <1>1, <1>3, <1>4, RunningSum
<1> QED BY <1>2, <1>5 DEF g, worth

LEMMA StorySum ==
  ASSUME NEW ns, NEW S, IsFiniteSet(S),
         \A n \in S : ns[n].score \in Int /\ ns[n].weight \in Int
  PROVE  Readers!MapThenSumSet(LAMBDA n : ns[n].score * ns[n].weight, S)
           = Sum([n \in S |-> ns[n].score * ns[n].weight], S)
<1> DEFINE worth(n) == ns[n].score * ns[n].weight
           g == [n \in S |-> worth(n)]
           body(h) == [R \in SUBSET S |->
                         IF R = {} THEN 0
                         ELSE LET x == CHOOSE y \in R : TRUE IN worth(x) + h[R \ {x}]]
           It == CHOOSE h : h = body(h)
<1>1. g \in [S -> Int]
  <2>1. \A n \in S : worth(n) \in Int
    OBVIOUS
  <2> HIDE DEF worth
  <2> QED BY <2>1
<1>2. Readers!MapThenSumSet(LAMBDA n : ns[n].score * ns[n].weight, S) = It[S]
  BY DEF Readers!MapThenSumSet, Readers!MapThenFoldSet
<1> HIDE DEF worth
<1>3. ASSUME NEW h PROVE body(h) = Running(g, S, h)
  <2>1. ASSUME NEW R \in SUBSET S, R # {}
        PROVE  LET x == CHOOSE y \in R : TRUE IN g[x] = worth(x)
    BY <2>1
  <2> HIDE DEF g
  <2> QED BY <2>1 DEF Running
<1> HIDE DEF g
<1>4. It = body(It)
  <2>1. PICK f : f = Running(g, S, f)
    BY <1>1, RunningSum
  <2>2. f = body(f)
    BY <1>3, <2>1
  <2> QED BY <2>2
<1> HIDE DEF It, body
<1>5. It[S] = Sum(g, S)
  BY <1>1, <1>3, <1>4, RunningSum
<1> QED BY <1>2, <1>5 DEF g, worth

LEMMA WeightSum ==
  ASSUME NEW ns, NEW S, IsFiniteSet(S), \A n \in S : ns[n].weight \in Int
  PROVE  Readers!MapThenSumSet(LAMBDA n : ns[n].weight, S)
           = Sum([n \in S |-> ns[n].weight], S)
<1> DEFINE worth(n) == ns[n].weight
           g == [n \in S |-> worth(n)]
           body(h) == [R \in SUBSET S |->
                         IF R = {} THEN 0
                         ELSE LET x == CHOOSE y \in R : TRUE IN worth(x) + h[R \ {x}]]
           It == CHOOSE h : h = body(h)
<1>1. g \in [S -> Int]
  OBVIOUS
<1>2. Readers!MapThenSumSet(LAMBDA n : ns[n].weight, S) = It[S]
  BY DEF Readers!MapThenSumSet, Readers!MapThenFoldSet
<1> HIDE DEF worth
<1>3. ASSUME NEW h PROVE body(h) = Running(g, S, h)
  <2>1. ASSUME NEW R \in SUBSET S, R # {}
        PROVE  LET x == CHOOSE y \in R : TRUE IN g[x] = worth(x)
    BY <2>1
  <2> HIDE DEF g
  <2> QED BY <2>1 DEF Running
<1> HIDE DEF g
<1>4. It = body(It)
  <2>1. PICK f : f = Running(g, S, f)
    BY <1>1, RunningSum
  <2>2. f = body(f)
    BY <1>3, <2>1
  <2> QED BY <2>2
<1> HIDE DEF It, body
<1>5. It[S] = Sum(g, S)
  BY <1>1, <1>3, <1>4, RunningSum
<1> QED BY <1>2, <1>5 DEF g, worth

----------------------------------------------------------------------------
\* Of a currency: the positions of its surprises, and what they are worth.
Surprises(es, cur) == {n \in DOMAIN es : es[n].cur = cur /\ es[n].sign # 0}
SignedImportance(es, S) == [n \in S |-> es[n].sign * Readers!Importance[es[n].imp]]
ImportanceOf(es, S) == [n \in S |-> Readers!Importance[es[n].imp]]

IsEvents(es) ==
  /\ IsFiniteSet(DOMAIN es)
  /\ \A n \in DOMAIN es : /\ es[n].sign \in {-1, 0, 1} /\ Readers!Importance[es[n].imp] \in PosNat
                          /\ es[n].dist \in Nat

\* The mean sign of a currency's surprises is a quotient of sums, and a fraction.
LEMMA BiasForm ==
  ASSUME NEW es, IsEvents(es), NEW cur
  PROVE  LET S == Surprises(es, cur)
         IN Readers!Bias(es, cur) = IF S = {} THEN <<0, 1>>
                                    ELSE <<Sum(SignedImportance(es, S), S), Sum(ImportanceOf(es, S), S)>>
<1> DEFINE S == Surprises(es, cur)
<1>1. IsFiniteSet(S)
  BY FS_Subset DEF Surprises, IsEvents
<1>2. \A n \in S : es[n].sign \in Int /\ Readers!Importance[es[n].imp] \in Int
  BY DEF Surprises, IsEvents, PosNat
<1>3. Readers!Bias(es, cur)
        = IF S = {} THEN <<0, 1>>
          ELSE <<Readers!MapThenSumSet(LAMBDA n : es[n].sign * Readers!Importance[es[n].imp], S),
                 Readers!MapThenSumSet(LAMBDA n : Readers!Importance[es[n].imp], S)>>
  BY DEF Readers!Bias, Surprises
<1> HIDE DEF S
<1>4. Readers!MapThenSumSet(LAMBDA n : es[n].sign * Readers!Importance[es[n].imp], S)
        = Sum(SignedImportance(es, S), S)
  BY <1>1, <1>2, SurpriseSum DEF SignedImportance
<1>5. Readers!MapThenSumSet(LAMBDA n : Readers!Importance[es[n].imp], S) = Sum(ImportanceOf(es, S), S)
  BY <1>1, <1>2, ImportanceSum DEF ImportanceOf
<1> QED BY <1>3, <1>4, <1>5 DEF S

LEMMA BiasIsFraction ==
  ASSUME NEW es, IsEvents(es), NEW cur
  PROVE  Readers!Bias(es, cur)[1] \in Int /\ Readers!Bias(es, cur)[2] \in PosNat
<1> DEFINE S == Surprises(es, cur)
           f == SignedImportance(es, S)
           w == ImportanceOf(es, S)
<1>1. CASE S = {}
  BY <1>1, BiasForm DEF PosNat
<1>2. CASE S # {}
  <2>1. IsFiniteSet(S) /\ \A n \in S : /\ es[n].sign \in Int
                                       /\ Readers!Importance[es[n].imp] \in PosNat
    BY FS_Subset DEF Surprises, IsEvents
  <2> HIDE DEF S
  <2>2. f \in [S -> Int] /\ w \in [S -> Nat] /\ \A n \in S : w[n] > 0
    <3>1. \A n \in S : es[n].sign * Readers!Importance[es[n].imp] \in Int
      BY <2>1 DEF PosNat
    <3> QED BY <2>1, <3>1 DEF SignedImportance, ImportanceOf, PosNat
  <2> HIDE DEF f, w
  <2>3. Sum(f, S) \in Int
    BY <2>1, <2>2, SumSplit
  <2>4. Sum(w, S) \in Nat /\ Sum(w, S) > 0
    BY <1>2, <2>1, <2>2, SumPositive
  <2>5. Readers!Bias(es, cur) = <<Sum(f, S), Sum(w, S)>>
    BY <1>2, BiasForm DEF S, f, w
  <2> QED BY <2>3, <2>4, <2>5 DEF PosNat
<1> QED BY <1>1, <1>2

\* Of a currency: the positions of its stories, and what they are worth.
StoriesOf(ns, cur) == {n \in DOMAIN ns : Readers!Touches(ns[n], cur)}
WeightedScore(ns, S) == [n \in S |-> ns[n].score * ns[n].weight]
WeightOf(ns, S) == [n \in S |-> ns[n].weight]

IsNews(ns) ==
  /\ IsFiniteSet(DOMAIN ns)
  /\ \A n \in DOMAIN ns : ns[n].score \in Int /\ ns[n].weight \in PosNat

\* So is the mean score of its stories.
LEMMA AggregateForm ==
  ASSUME NEW ns, IsNews(ns), NEW cur
  PROVE  LET S == StoriesOf(ns, cur)
         IN Readers!Aggregate(ns, cur) = IF S = {} THEN <<0, 1>>
                                         ELSE <<Sum(WeightedScore(ns, S), S), Sum(WeightOf(ns, S), S)>>
<1> DEFINE S == StoriesOf(ns, cur)
<1>1. IsFiniteSet(S)
  BY FS_Subset DEF StoriesOf, IsNews
<1>2. \A n \in S : ns[n].score \in Int /\ ns[n].weight \in Int
  BY DEF StoriesOf, IsNews, PosNat
<1>3. Readers!Aggregate(ns, cur)
        = IF S = {} THEN <<0, 1>>
          ELSE <<Readers!MapThenSumSet(LAMBDA n : ns[n].score * ns[n].weight, S),
                 Readers!MapThenSumSet(LAMBDA n : ns[n].weight, S)>>
  BY DEF Readers!Aggregate, StoriesOf
<1> HIDE DEF S
<1>4. Readers!MapThenSumSet(LAMBDA n : ns[n].score * ns[n].weight, S) = Sum(WeightedScore(ns, S), S)
  BY <1>1, <1>2, StorySum DEF WeightedScore
<1>5. Readers!MapThenSumSet(LAMBDA n : ns[n].weight, S) = Sum(WeightOf(ns, S), S)
  BY <1>1, <1>2, WeightSum DEF WeightOf
<1> QED BY <1>3, <1>4, <1>5 DEF S

LEMMA AggregateIsFraction ==
  ASSUME NEW ns, IsNews(ns), NEW cur
  PROVE  Readers!Aggregate(ns, cur)[1] \in Int /\ Readers!Aggregate(ns, cur)[2] \in PosNat
<1> DEFINE S == StoriesOf(ns, cur)
           f == WeightedScore(ns, S)
           w == WeightOf(ns, S)
<1>1. CASE S = {}
  BY <1>1, AggregateForm DEF PosNat
<1>2. CASE S # {}
  <2>1. IsFiniteSet(S) /\ \A n \in S : ns[n].score \in Int /\ ns[n].weight \in PosNat
    BY FS_Subset DEF StoriesOf, IsNews
  <2> HIDE DEF S
  <2>2. f \in [S -> Int] /\ w \in [S -> Nat] /\ \A n \in S : w[n] > 0
    <3>1. \A n \in S : ns[n].score * ns[n].weight \in Int
      BY <2>1 DEF PosNat
    <3> QED BY <2>1, <3>1 DEF WeightedScore, WeightOf, PosNat
  <2> HIDE DEF f, w
  <2>3. Sum(f, S) \in Int
    BY <2>1, <2>2, SumSplit
  <2>4. Sum(w, S) \in Nat /\ Sum(w, S) > 0
    BY <1>2, <2>1, <2>2, SumPositive
  <2>5. Readers!Aggregate(ns, cur) = <<Sum(f, S), Sum(w, S)>>
    BY <1>2, AggregateForm DEF S, f, w
  <2> QED BY <2>3, <2>4, <2>5 DEF PosNat
<1> QED BY <1>1, <1>2

----------------------------------------------------------------------------
(* The roles of the currencies exchanged. *)

Other(cur) == IF cur = Base THEN Quote ELSE Base

LEMMA SwapCurFacts ==
  ASSUME NEW c, NEW cur \in {Base, Quote}
  PROVE  Readers!SwapCur(c) = cur <=> c = Other(cur)
BY DEF Readers!SwapCur, Other

\* Events stay events when their currencies are exchanged.
LEMMA LoadedFacts ==
  ASSUME Readers!ReadersAssumption, NEW es \in Seq(Events)
  PROVE  /\ IsEvents(es) /\ IsEvents(Readers!SwapEvents(es))
         /\ DOMAIN Readers!SwapEvents(es) = DOMAIN es
         /\ \A n \in DOMAIN es : /\ Readers!SwapEvents(es)[n].cur = Readers!SwapCur(es[n].cur)
                                 /\ Readers!SwapEvents(es)[n].sign = es[n].sign
                                 /\ Readers!SwapEvents(es)[n].imp = es[n].imp
                                 /\ Readers!SwapEvents(es)[n].dist = es[n].dist
<1> DEFINE ws == Readers!SwapEvents(es)
<1>1. IsFiniteSet(DOMAIN es) /\ \A n \in DOMAIN es : es[n] \in Events
  <2>1. DOMAIN es = 1 .. Len(es) /\ Len(es) \in Nat
    OBVIOUS
  <2> QED BY <2>1, FS_Interval
<1>2. ASSUME NEW e \in Events
      PROVE  /\ e.sign \in {-1, 0, 1} /\ Readers!Importance[e.imp] \in PosNat /\ e.dist \in Nat
             /\ LET u == [e EXCEPT !.cur = Readers!SwapCur(@)]
                IN u.cur = Readers!SwapCur(e.cur) /\ u.sign = e.sign /\ u.imp = e.imp /\ u.dist = e.dist
  <2>1. e \in [cur : {e.cur}, sign : {-1, 0, 1}, imp : DOMAIN Readers!Importance, dist : Nat]
    BY DEF Readers!ReadersAssumption
  <2>2. \A i \in DOMAIN Readers!Importance : Readers!Importance[i] \in PosNat
    BY DEF Readers!Importance, PosNat
  <2> QED BY <2>1, <2>2
<1>3. ws = [n \in DOMAIN es |-> [es[n] EXCEPT !.cur = Readers!SwapCur(@)]]
  BY DEF Readers!SwapEvents
<1>4. DOMAIN ws = DOMAIN es
  BY <1>3
<1> HIDE DEF ws
<1>5. ASSUME NEW n \in DOMAIN es
      PROVE  /\ ws[n].cur = Readers!SwapCur(es[n].cur) /\ ws[n].sign = es[n].sign
             /\ ws[n].imp = es[n].imp /\ ws[n].dist = es[n].dist
  <2>1. es[n] \in Events /\ ws[n] = [es[n] EXCEPT !.cur = Readers!SwapCur(@)]
    BY <1>1, <1>3
  <2> QED BY <1>2, <2>1
<1>6. IsEvents(es)
  BY <1>1, <1>2 DEF IsEvents
<1>7. IsEvents(ws)
  BY <1>4, <1>5, <1>6 DEF IsEvents
<1> QED BY <1>4, <1>5, <1>6, <1>7 DEF ws

\* A currency's bias becomes the other one's.
LEMMA BiasSwapped ==
  ASSUME Readers!ReadersAssumption, NEW es \in Seq(Events), NEW cur \in {Base, Quote}
  PROVE  Readers!Bias(Readers!SwapEvents(es), cur) = Readers!Bias(es, Other(cur))
<1> DEFINE ws == Readers!SwapEvents(es)
           S == Surprises(es, Other(cur))
<1>1. /\ IsEvents(es) /\ IsEvents(ws) /\ DOMAIN ws = DOMAIN es
      /\ \A n \in DOMAIN es : /\ ws[n].cur = Readers!SwapCur(es[n].cur)
                              /\ ws[n].sign = es[n].sign /\ ws[n].imp = es[n].imp
  BY LoadedFacts
<1> HIDE DEF ws
<1>2. Surprises(ws, cur) = S
  BY <1>1, SwapCurFacts DEF Surprises
<1>3. S \subseteq DOMAIN es
  BY DEF Surprises
<1> HIDE DEF S
<1>4. SignedImportance(ws, S) = SignedImportance(es, S)
  BY <1>1, <1>3 DEF SignedImportance
<1>5. ImportanceOf(ws, S) = ImportanceOf(es, S)
  BY <1>1, <1>3 DEF ImportanceOf
<1>6. Readers!Bias(ws, cur)
        = IF S = {} THEN <<0, 1>> ELSE <<Sum(SignedImportance(ws, S), S), Sum(ImportanceOf(ws, S), S)>>
  BY <1>1, <1>2, BiasForm
<1>7. Readers!Bias(es, Other(cur))
        = IF S = {} THEN <<0, 1>> ELSE <<Sum(SignedImportance(es, S), S), Sum(ImportanceOf(es, S), S)>>
  BY <1>1, BiasForm DEF S
<1> QED BY <1>4, <1>5, <1>6, <1>7 DEF ws

\* Stories stay stories when the currencies of their pairs are exchanged.
LEMMA NewsFacts ==
  ASSUME Readers!ReadersAssumption, NEW ns \in Seq(Stories)
  PROVE  /\ IsNews(ns) /\ IsNews(Readers!SwapNews(ns))
         /\ DOMAIN Readers!SwapNews(ns) = DOMAIN ns
         /\ \A n \in DOMAIN ns :
              /\ Readers!SwapNews(ns)[n].score = ns[n].score
              /\ Readers!SwapNews(ns)[n].weight = ns[n].weight
              /\ \A cur \in {Base, Quote} :
                   Readers!Touches(Readers!SwapNews(ns)[n], cur) <=> Readers!Touches(ns[n], Other(cur))
<1> DEFINE ws == Readers!SwapNews(ns)
           swapped(ps) == [k \in DOMAIN ps |-> <<Readers!SwapCur(ps[k][1]), Readers!SwapCur(ps[k][2])>>]
<1>1. IsFiniteSet(DOMAIN ns) /\ \A n \in DOMAIN ns : ns[n] \in Stories
  <2>1. DOMAIN ns = 1 .. Len(ns) /\ Len(ns) \in Nat
    OBVIOUS
  <2> QED BY <2>1, FS_Interval
<1>2. ASSUME NEW x \in Stories
      PROVE  /\ x.score \in Int /\ x.weight \in PosNat
             /\ LET u == [x EXCEPT !.pairs = swapped(@)]
                IN u.score = x.score /\ u.weight = x.weight /\ u.pairs = swapped(x.pairs)
  <2>1. x \in [score : Int, weight : Nat \ {0}, pairs : {x.pairs}]
    BY DEF Readers!ReadersAssumption
  <2> HIDE DEF swapped
  <2> QED BY <2>1 DEF PosNat
<1>3. ASSUME NEW x \in Stories, NEW cur \in {Base, Quote}
      PROVE  Readers!Touches([x EXCEPT !.pairs = swapped(@)], cur) <=> Readers!Touches(x, Other(cur))
  <2> DEFINE u == [x EXCEPT !.pairs = swapped(@)]
             ps == x.pairs
             qs == swapped(ps)
  <2>1. u.pairs = qs /\ ps \in Seq({ps[k] : k \in DOMAIN ps})
    BY <1>2 DEF Readers!ReadersAssumption
  <2> HIDE DEF u, ps, swapped
  <2>2. CASE ps = <<>>
    <3>1. qs = <<>>
      BY <2>2 DEF swapped
    <3> QED BY <2>1, <2>2, <3>1 DEF Readers!Touches, Readers!Kept, u, ps
  <2>3. CASE ps # <<>>
    <3>1. 1 \in DOMAIN ps
      BY <2>1, <2>3
    <3>2. 1 \in DOMAIN qs /\ qs[1] = <<Readers!SwapCur(ps[1][1]), Readers!SwapCur(ps[1][2])>>
      BY <3>1 DEF swapped
    <3>3. qs # <<>>
      BY <3>2
    <3>4. Readers!Kept(u) = {qs[1]} /\ Readers!Kept(x) = {ps[1]}
      BY <2>1, <2>3, <3>3 DEF Readers!Kept, ps
    <3>5. /\ Readers!Touches(u, cur) <=> cur = qs[1][1] \/ cur = qs[1][2]
          /\ Readers!Touches(x, Other(cur)) <=> Other(cur) = ps[1][1] \/ Other(cur) = ps[1][2]
      BY <3>4 DEF Readers!Touches
    <3>6. /\ cur = Readers!SwapCur(ps[1][1]) <=> Other(cur) = ps[1][1]
          /\ cur = Readers!SwapCur(ps[1][2]) <=> Other(cur) = ps[1][2]
      BY SwapCurFacts
    <3>7. qs[1][1] = Readers!SwapCur(ps[1][1]) /\ qs[1][2] = Readers!SwapCur(ps[1][2])
      BY <3>2
    <3> HIDE DEF qs
    <3> QED BY <3>5, <3>6, <3>7 DEF u
  <2> QED BY <2>2, <2>3 DEF u
<1>4. ws = [n \in DOMAIN ns |-> [ns[n] EXCEPT !.pairs = swapped(@)]]
  BY DEF Readers!SwapNews
<1>5. DOMAIN ws = DOMAIN ns
  BY <1>4
<1> HIDE DEF ws
<1>6. ASSUME NEW n \in DOMAIN ns
      PROVE  /\ ws[n].score = ns[n].score /\ ws[n].weight = ns[n].weight
             /\ \A cur \in {Base, Quote} : Readers!Touches(ws[n], cur) <=> Readers!Touches(ns[n], Other(cur))
  <2>1. ns[n] \in Stories /\ ws[n] = [ns[n] EXCEPT !.pairs = swapped(@)]
    BY <1>1, <1>4
  <2> HIDE DEF swapped
  <2> QED BY <1>2, <1>3, <2>1
<1>7. IsNews(ns)
  BY <1>1, <1>2 DEF IsNews
<1>8. IsNews(ws)
  BY <1>5, <1>6, <1>7 DEF IsNews
<1> QED BY <1>5, <1>6, <1>7, <1>8 DEF ws

\* A currency's sentiment becomes the other one's.
LEMMA AggregateSwapped ==
  ASSUME Readers!ReadersAssumption, NEW ns \in Seq(Stories), NEW cur \in {Base, Quote}
  PROVE  Readers!Aggregate(Readers!SwapNews(ns), cur) = Readers!Aggregate(ns, Other(cur))
<1> DEFINE ws == Readers!SwapNews(ns)
           S == StoriesOf(ns, Other(cur))
<1>1. /\ IsNews(ns) /\ IsNews(ws) /\ DOMAIN ws = DOMAIN ns
      /\ \A n \in DOMAIN ns : /\ ws[n].score = ns[n].score /\ ws[n].weight = ns[n].weight
                              /\ Readers!Touches(ws[n], cur) <=> Readers!Touches(ns[n], Other(cur))
  BY NewsFacts
<1> HIDE DEF ws
<1>2. StoriesOf(ws, cur) = S
  BY <1>1 DEF StoriesOf
<1>3. S \subseteq DOMAIN ns
  BY DEF StoriesOf
<1> HIDE DEF S
<1>4. WeightedScore(ws, S) = WeightedScore(ns, S)
  BY <1>1, <1>3 DEF WeightedScore
<1>5. WeightOf(ws, S) = WeightOf(ns, S)
  BY <1>1, <1>3 DEF WeightOf
<1>6. Readers!Aggregate(ws, cur)
        = IF S = {} THEN <<0, 1>> ELSE <<Sum(WeightedScore(ws, S), S), Sum(WeightOf(ws, S), S)>>
  BY <1>1, <1>2, AggregateForm
<1>7. Readers!Aggregate(ns, Other(cur))
        = IF S = {} THEN <<0, 1>> ELSE <<Sum(WeightedScore(ns, S), S), Sum(WeightOf(ns, S), S)>>
  BY <1>1, AggregateForm DEF S
<1> QED BY <1>4, <1>5, <1>6, <1>7 DEF ws

----------------------------------------------------------------------------
(* What the agents make of a differential. *)

\* A differential and the opposite one.
LEMMA DifferentialFacts ==
  ASSUME Readers!ReadersAssumption, NEW es \in Seq(Events)
  PROVE  LET d == Readers!Differential(es)
             o == Readers!Differential(Readers!SwapEvents(es))
         IN /\ d[1] \in Int /\ d[2] \in PosNat /\ o[1] \in Int /\ o[2] = d[2]
            /\ o[1] + d[1] = 0
<1> DEFINE b == Readers!Bias(es, Base)
           q == Readers!Bias(es, Quote)
           ws == Readers!SwapEvents(es)
<1>1. b[1] \in Int /\ b[2] \in PosNat /\ q[1] \in Int /\ q[2] \in PosNat
  BY LoadedFacts, BiasIsFraction
<1>2. Readers!Bias(ws, Base) = q /\ Readers!Bias(ws, Quote) = b
  <2>1. Base = Quote => b = q
    OBVIOUS
  <2> HIDE DEF b, q, ws
  <2>2. /\ Readers!Bias(ws, Base) = Readers!Bias(es, Other(Base))
        /\ Readers!Bias(ws, Quote) = Readers!Bias(es, Other(Quote))
    BY BiasSwapped DEF ws
  <2> QED BY <2>1, <2>2 DEF Other, b, q
<1> HIDE DEF b, q, ws
<1>3. Readers!Differential(es) = Readers!Minus(b, q) /\ Readers!Differential(ws) = Readers!Minus(q, b)
  BY <1>2 DEF Readers!Differential, b, q
<1> QED BY <1>1, <1>3, MinusFacts DEF ws

LEMMA SentimentFacts ==
  ASSUME Readers!ReadersAssumption, NEW ns \in Seq(Stories)
  PROVE  LET d == Readers!SentimentDiff(ns)
             o == Readers!SentimentDiff(Readers!SwapNews(ns))
         IN /\ d[1] \in Int /\ d[2] \in PosNat /\ o[1] \in Int /\ o[2] = d[2]
            /\ o[1] + d[1] = 0
<1> DEFINE b == Readers!Aggregate(ns, Base)
           q == Readers!Aggregate(ns, Quote)
           ws == Readers!SwapNews(ns)
<1>1. b[1] \in Int /\ b[2] \in PosNat /\ q[1] \in Int /\ q[2] \in PosNat
  BY NewsFacts, AggregateIsFraction
<1>2. Readers!Aggregate(ws, Base) = q /\ Readers!Aggregate(ws, Quote) = b
  <2>1. Base = Quote => b = q
    OBVIOUS
  <2> HIDE DEF b, q, ws
  <2>2. /\ Readers!Aggregate(ws, Base) = Readers!Aggregate(ns, Other(Base))
        /\ Readers!Aggregate(ws, Quote) = Readers!Aggregate(ns, Other(Quote))
    BY AggregateSwapped DEF ws
  <2> QED BY <2>1, <2>2 DEF Other, b, q
<1> HIDE DEF b, q, ws
<1>3. Readers!SentimentDiff(ns) = Readers!Minus(b, q) /\ Readers!SentimentDiff(ws) = Readers!Minus(q, b)
  BY <1>2 DEF Readers!SentimentDiff, b, q
<1> QED BY <1>1, <1>3, MinusFacts DEF ws

\* The largest impact of the events is a number of minutes, whichever their currencies.
LEMMA ImpactFacts ==
  ASSUME Readers!ReadersAssumption, NEW es \in Seq(Events)
  PROVE  Readers!MaxImpact(Readers!SwapEvents(es)) = Readers!MaxImpact(es)
<1> DEFINE ws == Readers!SwapEvents(es)
<1>1. DOMAIN ws = DOMAIN es /\ \A n \in DOMAIN es : ws[n].dist = es[n].dist
  BY LoadedFacts
<1> HIDE DEF ws
<1>2. \A n \in DOMAIN es : Readers!ImpactOf(ws[n]) = Readers!ImpactOf(es[n])
  BY <1>1 DEF Readers!ImpactOf
<1>3. {Readers!ImpactOf(ws[n]) : n \in DOMAIN ws} = {Readers!ImpactOf(es[n]) : n \in DOMAIN es}
  BY <1>1, <1>2
<1> QED BY <1>3 DEF Readers!MaxImpact, ws

\* Opposite numbers.
LEMMA Opposites == \A a, b \in Int : a + b = 0 => a = -b /\ Readers!Abs(a) = Readers!Abs(b)
BY DEF Readers!Abs

LEMMA AbsIsNat == ASSUME NEW a \in Int PROVE Readers!Abs(a) \in Nat /\ (Readers!Abs(a) = 0 => a = 0)
BY DEF Readers!Abs

\* The confidence of a fraction that is capped at 1.
LEMMA CappedIsFraction ==
  ASSUME NEW n \in Nat, NEW d \in PosNat
  PROVE  LET c == Readers!AtMostOne(<<n, d>>) IN c[1] \in Nat /\ c[2] \in PosNat /\ c[1] <= c[2]
BY DEF Readers!AtMostOne, PosNat

LEMMA ConfidenceFacts ==
  ASSUME NEW d, d[1] \in Int, d[2] \in PosNat, NEW n \in Nat, NEW impact
  PROVE  LET c == Readers!Confidence(d, n, impact)
         IN c[1] \in Nat /\ c[2] \in PosNat /\ c[1] <= c[2]
<1> DEFINE few == IF n > 6 THEN 6 ELSE n
           p == 12 * d[2] + 30 * Readers!Abs(d[1]) + few * d[2]
           raw == <<p, 60 * d[2]>>
           damped == IF 2 * impact >= Readers!HalfWindow THEN <<4 * raw[1], 5 * raw[2]>> ELSE raw
<1>1. few * d[2] \in Nat
  <2>1. few \in Nat /\ d[2] \in Nat
    BY DEF PosNat
  <2> HIDE DEF few
  <2> QED BY <2>1, ProductIsNat
<1>2. p \in Nat /\ 60 * d[2] \in PosNat
  <2> HIDE DEF few
  <2> QED BY <1>1, AbsIsNat DEF PosNat
<1> HIDE DEF p
<1>3. \E a \in Nat, b \in PosNat : damped = <<a, b>>
  <2>1. 4 * p \in Nat /\ 5 * (60 * d[2]) \in PosNat
    BY <1>2 DEF PosNat
  <2> DEFINE q == 60 * d[2]
  <2>2. damped = <<4 * p, 5 * q>> \/ damped = <<p, q>>
    OBVIOUS
  <2> HIDE DEF damped
  <2> QED BY <1>2, <2>1, <2>2
<1>4. Readers!Confidence(d, n, impact) = Readers!AtMostOne(damped)
  BY DEF Readers!Confidence, p
<1> HIDE DEF damped
<1> QED BY <1>3, <1>4, CappedIsFraction

\* What FundamentalAgent makes of a differential d of n events.
LEMMA FundamentalForm ==
  ASSUME NEW es
  PROVE  LET d == Readers!Differential(es)
             impact == Readers!MaxImpact(es)
             f == Readers!Fundamental(es)
         IN \/ f = Readers!Flat(<<0, 1>>) /\ (es = <<>> \/ 4 * Readers!Abs(d[1]) < d[2])
            \/ f = Readers!Flat(<<1, 10>>)
            \/ /\ es # <<>> /\ ~ (4 * Readers!Abs(d[1]) < d[2])
               /\ f = [dir |-> IF d[1] > 0 THEN 1 ELSE -1,
                       conf |-> Readers!Confidence(d, Len(es), impact)]
BY DEF Readers!Fundamental

\* There are as many events as before.
LEMMA SwapKeepsLength ==
  ASSUME NEW es \in Seq(Events)
  PROVE  /\ Len(Readers!SwapEvents(es)) = Len(es) /\ Len(es) \in Nat
         /\ Readers!SwapEvents(es) = <<>> <=> es = <<>>
<1> DEFINE ws == Readers!SwapEvents(es)
           V == {ws[n] : n \in DOMAIN es}
<1>1. ws = [n \in 1 .. Len(es) |-> [es[n] EXCEPT !.cur = Readers!SwapCur(@)]] /\ Len(es) \in Nat
  BY DEF Readers!SwapEvents
<1>2. DOMAIN ws = 1 .. Len(es)
  BY <1>1
<1>3. ws = [n \in 1 .. Len(es) |-> ws[n]]
  BY <1>1
<1> HIDE DEF ws
<1>4. ws \in Seq(V)
  <2>1. \A n \in 1 .. Len(es) : ws[n] \in V
    OBVIOUS
  <2> HIDE DEF V
  <2>2. ws \in [1 .. Len(es) -> V]
    BY <1>3, <2>1
  <2> QED BY <1>1, <2>2
<1>5. Len(ws) = Len(es)
  BY <1>1, <1>2, <1>4
<1>6. (ws = <<>> <=> Len(ws) = 0) /\ (es = <<>> <=> Len(es) = 0)
  BY <1>4
<1> QED BY <1>1, <1>5, <1>6 DEF ws

\* The fundamental agent says the opposite of the exchanged pair.
LEMMA FundamentalIsOpposite ==
  ASSUME Readers!ReadersAssumption, NEW es \in Seq(Events)
  PROVE  Readers!Opposite(Readers!Fundamental(es), Readers!Fundamental(Readers!SwapEvents(es)))
<1> DEFINE ws == Readers!SwapEvents(es)
           d == Readers!Differential(es)
           o == Readers!Differential(ws)
           impact == Readers!MaxImpact(es)
           a == Readers!Fundamental(es)
           b == Readers!Fundamental(ws)
<1>1. d[1] \in Int /\ d[2] \in PosNat /\ o[1] \in Int /\ o[2] = d[2] /\ o[1] + d[1] = 0
  BY DifferentialFacts
<1>2. Readers!MaxImpact(ws) = impact /\ Len(ws) = Len(es) /\ (ws = <<>> <=> es = <<>>)
  BY ImpactFacts, SwapKeepsLength
<1> HIDE DEF ws, d, o, impact
<1>3. Readers!Abs(o[1]) = Readers!Abs(d[1]) /\ Readers!Abs(d[1]) \in Nat
      /\ (Readers!Abs(d[1]) = 0 => d[1] = 0)
  BY <1>1, Opposites, AbsIsNat
<1>4. /\ a = CASE es = <<>> -> Readers!Flat(<<0, 1>>)
               [] 100 * impact >= 85 * Readers!HalfWindow -> Readers!Flat(<<1, 10>>)
               [] 4 * Readers!Abs(d[1]) < d[2] -> Readers!Flat(<<0, 1>>)
               [] OTHER -> [dir |-> IF d[1] > 0 THEN 1 ELSE -1,
                            conf |-> Readers!Confidence(d, Len(es), impact)]
      /\ b = CASE es = <<>> -> Readers!Flat(<<0, 1>>)
               [] 100 * impact >= 85 * Readers!HalfWindow -> Readers!Flat(<<1, 10>>)
               [] 4 * Readers!Abs(d[1]) < d[2] -> Readers!Flat(<<0, 1>>)
               [] OTHER -> [dir |-> IF o[1] > 0 THEN 1 ELSE -1,
                            conf |-> Readers!Confidence(o, Len(es), impact)]
  BY <1>1, <1>2, <1>3 DEF Readers!Fundamental, d, o, impact
<1>5. Readers!Confidence(o, Len(es), impact) = Readers!Confidence(d, Len(es), impact)
  BY <1>1, <1>3 DEF Readers!Confidence
<1> HIDE DEF a, b
<1>6. a.dir \in Int /\ b.dir \in Int /\ a.dir + b.dir = 0 /\ a.conf = b.conf
  <2>1. CASE es = <<>> \/ 100 * impact >= 85 * Readers!HalfWindow \/ 4 * Readers!Abs(d[1]) < d[2]
    <3>1. a = b /\ (a = Readers!Flat(<<0, 1>>) \/ a = Readers!Flat(<<1, 10>>))
      BY <1>4, <2>1
    <3> QED BY <3>1 DEF Readers!Flat
  <2>2. CASE ~ (es = <<>> \/ 100 * impact >= 85 * Readers!HalfWindow \/ 4 * Readers!Abs(d[1]) < d[2])
    <3>1. /\ a = [dir |-> IF d[1] > 0 THEN 1 ELSE -1, conf |-> Readers!Confidence(d, Len(es), impact)]
          /\ b = [dir |-> IF o[1] > 0 THEN 1 ELSE -1, conf |-> Readers!Confidence(o, Len(es), impact)]
      BY <1>4, <2>2
    <3>2. d[1] # 0
      BY <1>1, <2>2 DEF Readers!Abs, PosNat
    <3> QED BY <1>1, <1>5, <3>1, <3>2
  <2> QED BY <2>1, <2>2
<1>7. a.dir = -b.dir
  BY <1>6, Opposites
<1> QED BY <1>6, <1>7 DEF Readers!Opposite, Readers!Same, a, b, ws

\* Its confidence is between 0 and 1.
LEMMA FundamentalConfidence ==
  ASSUME Readers!ReadersAssumption, NEW es \in Seq(Events)
  PROVE  LET c == Readers!Fundamental(es).conf IN c[1] >= 0 /\ c[1] <= c[2]
<1> DEFINE d == Readers!Differential(es)
           impact == Readers!MaxImpact(es)
<1>1. d[1] \in Int /\ d[2] \in PosNat /\ Len(es) \in Nat
  BY DifferentialFacts
<1>2. Readers!Fundamental(es).conf \in {<<0, 1>>, <<1, 10>>, Readers!Confidence(d, Len(es), impact)}
  BY FundamentalForm DEF Readers!Flat
<1> HIDE DEF d, impact
<1> DEFINE c == Readers!Confidence(d, Len(es), impact)
<1>3. c[1] \in Nat /\ c[2] \in PosNat /\ c[1] <= c[2]
  BY <1>1, ConfidenceFacts
<1>4. \A f \in {<<0, 1>>, <<1, 10>>, c} : f[1] >= 0 /\ f[1] <= f[2]
  <2> HIDE DEF c
  <2> QED BY <1>3
<1> QED BY <1>2, <1>4

\* The stories a sentiment is made of have a weight.
LEMMA CountFacts ==
  ASSUME NEW ns, IsNews(ns)
  PROVE  /\ Readers!MapThenSumSet(LAMBDA n : ns[n].weight, DOMAIN ns) = Sum(WeightOf(ns, DOMAIN ns), DOMAIN ns)
         /\ Sum(WeightOf(ns, DOMAIN ns), DOMAIN ns) \in Nat
<1> DEFINE S == DOMAIN ns
<1>1. IsFiniteSet(S) /\ \A n \in S : ns[n].weight \in Nat
  BY DEF IsNews, PosNat
<1> HIDE DEF S
<1>2. WeightOf(ns, S) \in [S -> Nat]
  BY <1>1 DEF WeightOf
<1>3. Readers!MapThenSumSet(LAMBDA n : ns[n].weight, S) = Sum(WeightOf(ns, S), S)
  <2>1. \A n \in S : ns[n].weight \in Int
    BY <1>1
  <2> QED BY <1>1, <2>1, WeightSum DEF WeightOf
<1>4. Sum(WeightOf(ns, S), S) \in Nat
  BY <1>1, <1>2, SumPositive
<1> QED BY <1>3, <1>4 DEF S

\* What SentimentAgent makes of a differential d of stories of that weight.
SentimentOf(d, count) ==
  LET m == Readers!AtMostOne(<<Readers!Abs(d[1]), d[2]>>)
      raw == <<15 * m[2] + 50 * m[1] + 5 * count * m[2], 100 * m[2]>>
  IN IF 100 * Readers!Abs(d[1]) <= 12 * d[2] THEN Readers!Flat(<<0, 1>>)
     ELSE [dir |-> IF d[1] > 0 THEN 1 ELSE -1,
           conf |-> IF 10 * raw[1] > 8 * raw[2] THEN <<8, 10>> ELSE raw]

\* What SentimentAgent makes of the difference of two sentiments.
LEMMA SentimentForm ==
  ASSUME NEW ns, IsNews(ns)
  PROVE  Readers!Sentiment(ns) = SentimentOf(Readers!SentimentDiff(ns), Sum(WeightOf(ns, DOMAIN ns), DOMAIN ns))
<1> DEFINE count == Readers!MapThenSumSet(LAMBDA n : ns[n].weight, DOMAIN ns)
<1>1. Readers!Sentiment(ns) = SentimentOf(Readers!SentimentDiff(ns), count)
  BY DEF Readers!Sentiment, SentimentOf
<1> QED BY <1>1, CountFacts

\* The sentiment agent says the opposite of the exchanged pair.
LEMMA SentimentIsOpposite ==
  ASSUME Readers!ReadersAssumption, NEW ns \in Seq(Stories)
  PROVE  Readers!Opposite(Readers!Sentiment(ns), Readers!Sentiment(Readers!SwapNews(ns)))
<1> DEFINE ws == Readers!SwapNews(ns)
           d == Readers!SentimentDiff(ns)
           o == Readers!SentimentDiff(ws)
           count == Sum(WeightOf(ns, DOMAIN ns), DOMAIN ns)
           a == Readers!Sentiment(ns)
           b == Readers!Sentiment(ws)
<1>1. d[1] \in Int /\ d[2] \in PosNat /\ o[1] \in Int /\ o[2] = d[2] /\ o[1] + d[1] = 0
  BY SentimentFacts
<1>2. /\ IsNews(ns) /\ IsNews(ws) /\ DOMAIN ws = DOMAIN ns
      /\ \A n \in DOMAIN ns : ws[n].weight = ns[n].weight
  BY NewsFacts
<1> HIDE DEF ws, d, o
<1>3. Readers!Abs(o[1]) = Readers!Abs(d[1]) /\ Readers!Abs(d[1]) \in Nat
  BY <1>1, Opposites, AbsIsNat
<1>4. Sum(WeightOf(ws, DOMAIN ws), DOMAIN ws) = count
  <2>1. WeightOf(ws, DOMAIN ws) = WeightOf(ns, DOMAIN ns)
    BY <1>2 DEF WeightOf
  <2> QED BY <1>2, <2>1
<1> HIDE DEF count
<1>5. a = SentimentOf(d, count) /\ b = SentimentOf(o, count)
  BY <1>2, <1>4, SentimentForm DEF d, o, count
<1> HIDE DEF a, b
<1>6. a.dir \in Int /\ b.dir \in Int /\ a.dir + b.dir = 0 /\ a.conf = b.conf
  <2>1. CASE 100 * Readers!Abs(d[1]) <= 12 * d[2]
    <3>1. a = Readers!Flat(<<0, 1>>) /\ b = Readers!Flat(<<0, 1>>)
      BY <1>1, <1>3, <1>5, <2>1 DEF SentimentOf
    <3> QED BY <3>1 DEF Readers!Flat
  <2>2. CASE ~ (100 * Readers!Abs(d[1]) <= 12 * d[2])
    <3> DEFINE m == Readers!AtMostOne(<<Readers!Abs(d[1]), d[2]>>)
               raw == <<15 * m[2] + 50 * m[1] + 5 * count * m[2], 100 * m[2]>>
               c == IF 10 * raw[1] > 8 * raw[2] THEN <<8, 10>> ELSE raw
    <3>1. /\ a = [dir |-> IF d[1] > 0 THEN 1 ELSE -1, conf |-> c]
          /\ b = [dir |-> IF o[1] > 0 THEN 1 ELSE -1, conf |-> c]
      BY <1>1, <1>3, <1>5, <2>2 DEF SentimentOf
    <3>2. d[1] # 0
      BY <1>1, <2>2 DEF Readers!Abs, PosNat
    <3> HIDE DEF c
    <3> QED BY <1>1, <3>1, <3>2
  <2> QED BY <2>1, <2>2
<1>7. a.dir = -b.dir
  BY <1>6, Opposites
<1> QED BY <1>6, <1>7 DEF Readers!Opposite, Readers!Same, a, b, ws

\* Its confidence is between 0 and 1.
LEMMA SentimentConfidence ==
  ASSUME Readers!ReadersAssumption, NEW ns \in Seq(Stories)
  PROVE  LET c == Readers!Sentiment(ns).conf IN c[1] >= 0 /\ c[1] <= c[2]
<1> DEFINE d == Readers!SentimentDiff(ns)
           count == Sum(WeightOf(ns, DOMAIN ns), DOMAIN ns)
           m == Readers!AtMostOne(<<Readers!Abs(d[1]), d[2]>>)
           p == 15 * m[2] + 50 * m[1] + 5 * count * m[2]
           q == 100 * m[2]
<1>1. d[1] \in Int /\ d[2] \in PosNat /\ IsNews(ns)
  BY SentimentFacts, NewsFacts
<1>2. count \in Nat
  BY <1>1, CountFacts
<1>3. Readers!Sentiment(ns) = SentimentOf(d, count)
  BY <1>1, SentimentForm
<1> HIDE DEF d, count
<1>4. m[1] \in Nat /\ m[2] \in PosNat
  BY <1>1, AbsIsNat, CappedIsFraction
<1>5. Readers!Sentiment(ns).conf \in {<<0, 1>>, <<8, 10>>, <<p, q>>}
      /\ (10 * p > 8 * q => Readers!Sentiment(ns).conf \in {<<0, 1>>, <<8, 10>>})
  BY <1>3 DEF SentimentOf, Readers!Flat
<1>6. p \in Nat /\ q \in Nat
  <2> HIDE DEF m
  <2>1. m[2] \in Nat
    BY <1>4 DEF PosNat
  <2>2. 5 * count * m[2] \in Nat
    BY <1>2, <2>1, ProductIsNat
  <2> QED BY <1>4, <2>1, <2>2
<1> HIDE DEF p, q, m
<1> QED BY <1>5, <1>6

\* Stories about the pair alone say as much of either currency.
LEMMA OwnPairFacts ==
  ASSUME Readers!ReadersAssumption, news \in Seq(Stories) PROVE Readers!OwnPairIsNeutral
<1> DEFINE d == Readers!SentimentDiff(news)
           count == Sum(WeightOf(news, DOMAIN news), DOMAIN news)
<1> SUFFICES ASSUME \A n \in DOMAIN news : news[n].pairs # <<>> =>
                      {news[n].pairs[1][1], news[n].pairs[1][2]} = {Base, Quote}
             PROVE  Readers!Sentiment(news).dir = 0
  BY DEF Readers!OwnPairIsNeutral
<1>1. IsNews(news)
  BY NewsFacts
<1>2. ASSUME NEW n \in DOMAIN news
      PROVE  Readers!Touches(news[n], Base) <=> Readers!Touches(news[n], Quote)
  BY DEF Readers!Touches, Readers!Kept
<1>3. StoriesOf(news, Base) = StoriesOf(news, Quote)
  BY <1>2 DEF StoriesOf
<1>4. Readers!Aggregate(news, Base) = Readers!Aggregate(news, Quote)
  BY <1>1, <1>3, AggregateForm
<1>5. d[1] \in Int /\ d[2] \in PosNat
  BY SentimentFacts
<1>6. d[1] <= 0 /\ 0 <= d[1]
  <2> DEFINE q == Readers!Aggregate(news, Quote)
  <2>1. q[1] \in Int /\ q[2] \in PosNat
    BY <1>1, AggregateIsFraction
  <2>2. d = Readers!Minus(q, q)
    BY <1>4 DEF Readers!SentimentDiff
  <2> HIDE DEF q
  <2>3. q[1] * q[2] \in Int
    BY <2>1 DEF PosNat
  <2> QED BY <2>2, <2>3 DEF Readers!Minus
<1>7. Readers!Sentiment(news) = SentimentOf(d, count)
  BY <1>1, SentimentForm
<1> HIDE DEF d, count
<1>8. 100 * Readers!Abs(d[1]) <= 12 * d[2]
  BY <1>5, <1>6 DEF Readers!Abs, PosNat
<1>9. Readers!Sentiment(news) = Readers!Flat(<<0, 1>>)
  BY <1>7, <1>8 DEF SentimentOf
<1> QED BY <1>9 DEF Readers!Flat

LEMMA ReadersAreFair ==
  ASSUME Readers!ReadersAssumption, loaded \in Seq(Events), news \in Seq(Stories)
  PROVE  Readers!PairIsSymmetric /\ Readers!ConfidenceIsAFraction /\ Readers!OwnPairIsNeutral
<1>1. Readers!PairIsSymmetric
  BY FundamentalIsOpposite, SentimentIsOpposite DEF Readers!PairIsSymmetric
<1>2. Readers!ConfidenceIsAFraction
  BY FundamentalConfidence, SentimentConfidence DEF Readers!ConfidenceIsAFraction
<1> QED BY <1>1, <1>2, OwnPairFacts

\* What the agents have loaded is of the events and the stories.
LoadedOK == loaded \in Seq(Events) /\ news \in Seq(Stories)

LEMMA LoadedInit == ASSUME Readers!Init PROVE LoadedOK
BY DEF Readers!Init, LoadedOK

LEMMA LoadedStep == ASSUME LoadedOK, [Readers!Next]_<<loaded, news>> PROVE LoadedOK'
<1>1. CASE Readers!MoreEvents
  BY <1>1 DEF Readers!MoreEvents, LoadedOK
<1>2. CASE Readers!MoreNews
  BY <1>2 DEF Readers!MoreNews, LoadedOK
<1>3. CASE UNCHANGED <<loaded, news>>
  BY <1>3 DEF LoadedOK
<1> QED BY <1>1, <1>2, <1>3 DEF Readers!Next

----------------------------------------------------------------------------
(* Fusion: the score and the direction of well-formed signals.             *)

VoteRecords == [dir : {-1, 0, 1}, conf : Percent]

\* The score before it is divided by the weights, as a sum of products.
LEMMA VoteSum ==
  ASSUME NEW sig, NEW w, NEW V, IsFiniteSet(V), \A a \in V : w[a] * Vote(sig, a) \in Int
  PROVE  MapThenSumSet(LAMBDA a : w[a] * Vote(sig, a), V)
           = Sum([a \in V |-> w[a] * Vote(sig, a)], V)
<1> DEFINE worth(a) == w[a] * Vote(sig, a)
           g == [a \in V |-> worth(a)]
           body(h) == [R \in SUBSET V |->
                         IF R = {} THEN 0
                         ELSE LET x == CHOOSE y \in R : TRUE IN worth(x) + h[R \ {x}]]
           It == CHOOSE h : h = body(h)
<1>1. g \in [V -> Int]
  OBVIOUS
<1>2. MapThenSumSet(LAMBDA a : w[a] * Vote(sig, a), V) = It[V]
  BY DEF MapThenSumSet, MapThenFoldSet
<1> HIDE DEF worth
<1>3. ASSUME NEW h PROVE body(h) = Running(g, V, h)
  <2>1. ASSUME NEW R \in SUBSET V, R # {}
        PROVE  LET x == CHOOSE y \in R : TRUE IN g[x] = worth(x)
    BY <2>1
  <2> HIDE DEF g
  <2> QED BY <2>1 DEF Running
<1> HIDE DEF g
<1>4. It = body(It)
  <2>1. PICK f : f = Running(g, V, f)
    BY <1>1, RunningSum
  <2>2. f = body(f)
    BY <1>3, <2>1
  <2> QED BY <2>2
<1> HIDE DEF It, body
<1>5. It[V] = Sum(g, V)
  BY <1>1, <1>3, <1>4, RunningSum
<1> QED BY <1>2, <1>5 DEF g, worth

LEMMA AgentsAreFinite == IsFiniteSet(DirectionalAgents) /\ IsFiniteSet(AgentFamilies)
<1>1. IsFiniteSet({} \cup {"technical"})
  BY FS_EmptySet, FS_AddElement
<1>2. IsFiniteSet(({} \cup {"technical"}) \cup {"fundamental"})
  BY <1>1, FS_AddElement
<1>3. IsFiniteSet((({} \cup {"technical"}) \cup {"fundamental"}) \cup {"sentiment"})
  BY <1>2, FS_AddElement
<1>4. DirectionalAgents = (({} \cup {"technical"}) \cup {"fundamental"}) \cup {"sentiment"}
  BY DEF DirectionalAgents
<1>5. IsFiniteSet(DirectionalAgents)
  BY <1>3, <1>4
<1> QED BY <1>5, FS_AddElement DEF AgentFamilies

\* Every regime has a weight for each directional agent.
LEMMA WeightsForType == ASSUME NEW r PROVE WeightsFor(r) \in [DirectionalAgents -> 1 .. 100]
BY WeightsAssumption DEF WeightsFor

\* The voters of well-formed signals, and what they vote.
LEMMA VotersFacts ==
  ASSUME NEW sig, \A a \in DOMAIN sig : sig[a] \in VoteRecords
  PROVE  /\ Voters(sig) \subseteq DirectionalAgents /\ IsFiniteSet(Voters(sig))
         /\ \A a \in Voters(sig) : /\ sig[a].dir \in {-1, 1} /\ sig[a].conf \in 1 .. 100
                                  /\ Vote(sig, a) \in -100 .. 100
<1>1. Voters(sig) \subseteq DirectionalAgents /\ IsFiniteSet(Voters(sig))
  BY AgentsAreFinite, FS_Subset DEF Voters
<1>2. ASSUME NEW a \in Voters(sig)
      PROVE  sig[a].dir \in {-1, 1} /\ sig[a].conf \in 1 .. 100
  BY DEF Voters, VoteRecords, Percent
<1>3. ASSUME NEW a \in Voters(sig) PROVE Vote(sig, a) \in -100 .. 100
  BY <1>2 DEF Vote
<1> QED BY <1>1, <1>2, <1>3

\* fuse in terms of sums: u is the weight of a voter and g its weighted vote.
LEMMA FuseForm ==
  ASSUME NEW sig, \A a \in DOMAIN sig : sig[a] \in VoteRecords, NEW r
  PROVE  LET V == Voters(sig)
             w == WeightsFor(r)
             g == [a \in V |-> w[a] * Vote(sig, a)]
             f == Fuse(sig, r)
         IN /\ V = {} => f = NoVotes
            /\ V # {} => /\ f = [voters |-> V, num |-> f.num, den |-> f.den, dir |-> f.dir,
                                 agree |-> f.agree, total |-> f.den]
                         /\ f.num = Sum(g, V) /\ f.den = Sum(w, V)
                         /\ f.dir = DirectionForScore(f.num, f.den)
                         /\ f.agree = Sum(w, {a \in V : sig[a].dir = f.dir})
<1> DEFINE V == Voters(sig)
           w == WeightsFor(r)
           g == [a \in V |-> w[a] * Vote(sig, a)]
           num == MapThenSumSet(LAMBDA a : w[a] * Vote(sig, a), V)
           den == Sum(w, V)
           dir == DirectionForScore(num, den)
           agree == Sum(w, {a \in V : sig[a].dir = dir})
<1>1. num = Sum(g, V)
  <2>1. IsFiniteSet(V) /\ \A a \in V : w[a] \in Int /\ Vote(sig, a) \in Int
    BY VotersFacts, WeightsForType
  <2>2. \A a \in V : w[a] * Vote(sig, a) \in Int
    BY <2>1
  <2> HIDE DEF V, w
  <2> QED BY <2>1, <2>2, VoteSum
<1>2. Fuse(sig, r) = IF V = {} THEN NoVotes
                     ELSE [voters |-> V, num |-> num, den |-> den, dir |-> dir, agree |-> agree,
                           total |-> den]
  BY DEF Fuse, Sum
<1> HIDE DEF V, w, g, num, den, dir, agree
<1>3. V # {} => /\ Fuse(sig, r).num = num /\ Fuse(sig, r).den = den /\ Fuse(sig, r).dir = dir
                /\ Fuse(sig, r).agree = agree
  BY <1>2
<1> QED BY <1>1, <1>2, <1>3 DEF V, w, g, den, dir, agree

\* A score is a fraction with a positive denominator, bounded by the lowest and the
\* highest vote.
LEMMA ScoreBounds ==
  ASSUME NEW sig, \A a \in DOMAIN sig : sig[a] \in VoteRecords, NEW r, Voters(sig) # {}
  PROVE  LET f == Fuse(sig, r)
         IN /\ f.num \in Int /\ f.den \in Nat /\ f.den > 0 /\ f.agree \in Nat
            /\ \A lo \in Int : (\A a \in Voters(sig) : lo <= Vote(sig, a)) => lo * f.den <= f.num
            /\ \A hi \in Int : (\A a \in Voters(sig) : Vote(sig, a) <= hi) => f.num <= hi * f.den
<1> DEFINE V == Voters(sig)
           w == WeightsFor(r)
           u == [a \in V |-> w[a]]
           g == [a \in V |-> w[a] * Vote(sig, a)]
           f == Fuse(sig, r)
<1>1. /\ V # {} /\ IsFiniteSet(V) /\ V \subseteq DirectionalAgents
      /\ \A a \in V : w[a] \in 1 .. 100 /\ Vote(sig, a) \in Int
      /\ w \in [DirectionalAgents -> Int]
  BY VotersFacts, WeightsForType
<1>2. f.num = Sum(g, V) /\ f.den = Sum(w, V) /\ f.agree = Sum(w, {a \in V : sig[a].dir = f.dir})
  BY FuseForm
<1>3. u \in [V -> Nat] /\ u \in [V -> Int] /\ g \in [V -> Int]
  BY <1>1
<1>4. Sum(w, V) = Sum(u, V)
  <2> HIDE DEF V, w
  <2> QED BY <1>1, AgentsAreFinite, SumAgree
<1>5. f.den \in Nat /\ f.den > 0 /\ f.num \in Int
  <2>1. \E x \in V : u[x] > 0
    BY <1>1
  <2>2. Sum(u, V) \in Nat /\ Sum(u, V) > 0
    <3> HIDE DEF V, u
    <3> QED BY <1>1, <1>3, <2>1, SumPositive
  <2>3. Sum(g, V) \in Int
    <3> HIDE DEF V, g
    <3> QED BY <1>1, <1>3, SumSplit
  <2> QED BY <1>2, <1>4, <2>2, <2>3
<1>6. f.agree \in Nat
  <2> DEFINE W == {a \in V : sig[a].dir = f.dir}
             uW == [a \in W |-> w[a]]
  <2>1. IsFiniteSet(W) /\ W \subseteq DirectionalAgents /\ uW \in [W -> Nat]
    BY <1>1, FS_Subset
  <2>2. Sum(w, W) = Sum(uW, W)
    <3> HIDE DEF W, w
    <3> QED BY <1>1, <2>1, AgentsAreFinite, SumAgree
  <2>3. Sum(uW, W) \in Nat
    <3> HIDE DEF W, uW
    <3> QED BY <2>1, SumPositive
  <2> QED BY <1>2, <2>2, <2>3
<1>7. ASSUME NEW c \in Int
      PROVE  /\ (\A a \in V : c <= Vote(sig, a)) => c * Sum(u, V) <= Sum(g, V)
             /\ (\A a \in V : Vote(sig, a) <= c) => Sum(g, V) <= c * Sum(u, V)
  <2> DEFINE h == [a \in V |-> c * u[a]]
  <2>1. h \in [V -> Int] /\ Sum(h, V) = c * Sum(u, V)
    <3>1. h \in [V -> Int]
      BY <1>3
    <3>2. Sum([a \in V |-> c * u[a]], V) = c * Sum(u, V)
      <4> HIDE DEF V, u
      <4> QED BY <1>1, <1>3, SumScale
    <3> QED BY <3>1, <3>2
  <2>2. \A a \in V : /\ h[a] = c * w[a] /\ g[a] = w[a] * Vote(sig, a)
                     /\ w[a] \in Nat /\ Vote(sig, a) \in Int
    BY <1>1
  <2> HIDE DEF V, u, h, g, w
  <2>3. \A x \in Nat : \A y \in Int : (c <= y => c * x <= x * y) /\ (y <= c => x * y <= c * x)
    OBVIOUS
  <2>4. ASSUME \A a \in V : c <= Vote(sig, a) PROVE Sum(h, V) <= Sum(g, V)
    <3>1. \A a \in V : h[a] <= g[a]
      BY <2>2, <2>3, <2>4
    <3> QED BY <1>1, <1>3, <2>1, <3>1, SumMonotone
  <2>5. ASSUME \A a \in V : Vote(sig, a) <= c PROVE Sum(g, V) <= Sum(h, V)
    <3>1. \A a \in V : g[a] <= h[a]
      BY <2>2, <2>3, <2>5
    <3> QED BY <1>1, <1>3, <2>1, <3>1, SumMonotone
  <2> QED BY <2>1, <2>4, <2>5
<1> HIDE DEF V, w, u, g, f
<1>8. \A c \in Int : /\ (\A a \in V : c <= Vote(sig, a)) => c * f.den <= f.num
                     /\ (\A a \in V : Vote(sig, a) <= c) => f.num <= c * f.den
  BY <1>2, <1>4, <1>7
<1>9. \A lo \in Int : (\A a \in V : lo <= Vote(sig, a)) => lo * f.den <= f.num
  BY <1>8
<1>10. \A hi \in Int : (\A a \in V : Vote(sig, a) <= hi) => f.num <= hi * f.den
  BY <1>8
<1> QED BY <1>5, <1>6, <1>9, <1>10, Zenon DEF V, f

\* A product with a natural number is monotone.
LEMMA TimesMonotone == ASSUME NEW x \in Int, NEW y \in Int, x <= y, NEW k \in Nat PROVE x * k <= y * k
OBVIOUS

\* What apply_context does to a fused score.
LEMMA ContextFacts ==
  ASSUME NEW f, f.num \in Int, f.den \in Nat, f.den > 0, f.dir = DirectionForScore(f.num, f.den),
         f = [voters |-> f.voters, num |-> f.num, den |-> f.den, dir |-> f.dir, agree |-> f.agree,
              total |-> f.total],
         NEW c \in VoteRecords
  PROVE  LET h == ApplyContext(f, c)
         IN /\ h.num \in Int /\ h.den \in Nat /\ h.den > 0
            /\ h.dir = DirectionForScore(h.num, h.den) /\ h.dir \in {-1, 0, 1}
            /\ f.dir \in {-1, 0, 1} /\ f.dir * h.dir # -1
            /\ h.voters = f.voters /\ h.agree = f.agree /\ h.total = f.total
<1> DEFINE x == ContextWeight * c.dir * c.conf
           n == 100 * f.num + x * f.den
           d == 100 * f.den
<1>0. c.dir \in {-1, 0, 1} /\ c.conf \in 0 .. 100 /\ ContextWeight \in 0 .. 100 /\ Threshold \in 0 .. 100
      /\ ContextWeight < 2 * Threshold
  BY ThresholdAssumption, ContextAssumption DEF VoteRecords, Percent
<1>1. ApplyContext(f, c) = IF c.conf <= 0 THEN f
                           ELSE [f EXCEPT !.num = n, !.den = d, !.dir = DirectionForScore(n, d)]
  BY DEF ApplyContext
<1>2. x \in Int /\ -(100 * ContextWeight) <= x /\ x <= 100 * ContextWeight
  <2>1. ASSUME NEW m \in 0 .. 100, NEW k \in 0 .. 100, NEW e \in {-1, 0, 1}
        PROVE  m * e * k \in Int /\ -(100 * m) <= m * e * k /\ m * e * k <= 100 * m
    <3>1. m * k \in Nat /\ m * k <= 100 * m
      <4>1. m \in Nat /\ k \in Int /\ k \in Nat /\ k <= 100
        OBVIOUS
      <4>2. m * k \in Nat
        BY <4>1, ProductIsNat
      <4>3. k * m <= 100 * m
        BY <4>1, TimesMonotone
      <4> QED BY <4>1, <4>2, <4>3
    <3>2. CASE e = 1
      BY <3>1, <3>2
    <3>3. CASE e = 0
      BY <3>1, <3>3
    <3>4. CASE e = -1
      <4>1. m * e * k = -(m * k)
        BY <3>4
      <4> QED BY <3>1, <4>1
    <3> QED BY <3>2, <3>3, <3>4
  <2> QED BY <1>0, <2>1
<1> HIDE DEF x
<1>3. n \in Int /\ d \in Nat /\ d > 0
  BY <1>2
<1>4. DirectionForScore(f.num, f.den) \in {-1, 0, 1} /\ DirectionForScore(n, d) \in {-1, 0, 1}
  BY DEF DirectionForScore
<1>5. DirectionForScore(f.num, f.den) * DirectionForScore(n, d) # -1
  <2> DEFINE t == Threshold * f.den
             k == ContextWeight * f.den
  <2>1. t \in Int /\ k \in Int /\ k < 2 * t
    <3>1. \A y \in Int : y < 2 * Threshold => y * f.den < (2 * Threshold) * f.den
      BY <1>0
    <3>2. (2 * Threshold) * f.den = 2 * (Threshold * f.den)
      BY <1>0
    <3> QED BY <1>0, <3>1, <3>2
  <2>2. -(100 * k) <= x * f.den /\ x * f.den <= 100 * k /\ x * f.den \in Int
    <3>1. \A y, z \in Int : y <= z => y * f.den <= z * f.den
      OBVIOUS
    <3>2. (100 * ContextWeight) * f.den = 100 * k /\ (-(100 * ContextWeight)) * f.den = -(100 * k)
      BY <1>0
    <3> QED BY <1>0, <1>2, <3>1, <3>2
  <2>3. Threshold * d = 100 * t
    BY <1>0
  <2> HIDE DEF t, k, d
  <2>4. CASE f.num >= t
    <3>1. ~ (n <= -(Threshold * d))
      BY <2>1, <2>2, <2>3, <2>4
    <3>2. DirectionForScore(n, d) \in {0, 1} /\ DirectionForScore(f.num, f.den) = 1
      BY <2>4, <3>1 DEF DirectionForScore, t
    <3> QED BY <3>2
  <2>5. CASE ~ (f.num >= t) /\ f.num <= -t
    <3>1. ~ (n >= Threshold * d)
      BY <2>1, <2>2, <2>3, <2>5
    <3>2. DirectionForScore(n, d) \in {-1, 0} /\ DirectionForScore(f.num, f.den) = -1
      BY <2>5, <3>1 DEF DirectionForScore, t
    <3> QED BY <3>2
  <2>6. CASE ~ (f.num >= t) /\ ~ (f.num <= -t)
    <3>1. DirectionForScore(f.num, f.den) = 0
      BY <2>6 DEF DirectionForScore, t
    <3> QED BY <1>4, <3>1
  <2> QED BY <2>4, <2>5, <2>6
<1>6. f.dir * f.dir # -1
  BY <1>4
<1> HIDE DEF n, d
<1>7. CASE c.conf <= 0
  BY <1>1, <1>4, <1>6, <1>7
<1>8. CASE ~ (c.conf <= 0)
  <2> DEFINE h == [f EXCEPT !.num = n, !.den = d, !.dir = DirectionForScore(n, d)]
  <2>1. /\ h.num = n /\ h.den = d /\ h.dir = DirectionForScore(n, d) /\ h.voters = f.voters
        /\ h.agree = f.agree /\ h.total = f.total
    OBVIOUS
  <2>2. ApplyContext(f, c) = h
    BY <1>1, <1>8
  <2> HIDE DEF h
  <2> QED BY <1>3, <1>4, <1>5, <2>1, <2>2
<1> QED BY <1>7, <1>8

\* Division rounds down.
LEMMA DivDown ==
  ASSUME NEW a \in Int, NEW b \in Nat, b > 0
  PROVE  a \div b \in Int /\ (a \div b) * b <= a /\ a < (a \div b) * b + b
OBVIOUS

\* The least and the greatest of a bounded set of integers.
LEMMA Extremes ==
  ASSUME NEW S \in SUBSET (-100 .. 100), S # {}
  PROVE  /\ Min(S) \in S /\ \A y \in S : Min(S) <= y
         /\ Max(S) \in S /\ \A y \in S : y <= Max(S)
<1> DEFINE T == {y + 100 : y \in S}
<1>0. \A y \in S : y \in Int /\ y + 100 \in Nat /\ y + 100 <= 200
  OBVIOUS
<1>1. T \in SUBSET Nat /\ T # {} /\ \A t \in T : t <= 200
  BY <1>0
<1>2. PICK t \in T : \A u \in T : t <= u
  BY <1>1, LeastExists
<1>3. PICK u \in T : \A t1 \in T : t1 <= u
  BY <1>1, GreatestExists
<1>4. PICK x \in S : t = x + 100
  BY <1>2
<1>5. ASSUME NEW y \in S PROVE x <= y
  <2>1. x + 100 <= y + 100
    BY <1>2, <1>4
  <2> QED BY <1>0, <2>1
<1>6. PICK z \in S : u = z + 100
  BY <1>3
<1>7. ASSUME NEW y \in S PROVE y <= z
  <2>1. y + 100 <= z + 100
    BY <1>3, <1>6
  <2> QED BY <1>0, <2>1
<1> QED BY <1>5, <1>7 DEF Min, Max

\* The voters of a fused score are those of the signals.
LEMMA FusedVoters ==
  ASSUME NEW sig, NEW r
  PROVE  /\ Fuse(sig, r).voters = Voters(sig)
         /\ Voters(sig) = {} => Fuse(sig, r) = NoVotes
<1> DEFINE V == Voters(sig)
           w == WeightsFor(r)
           den == MapThenSumSet(LAMBDA a : w[a], V)
           num == MapThenSumSet(LAMBDA a : w[a] * Vote(sig, a), V)
           dir == DirectionForScore(num, den)
           agree == MapThenSumSet(LAMBDA a : w[a], {a \in V : sig[a].dir = dir})
<1>1. Fuse(sig, r) = IF V = {} THEN NoVotes
                     ELSE [voters |-> V, num |-> num, den |-> den, dir |-> dir, agree |-> agree,
                           total |-> den]
  BY DEF Fuse
<1> HIDE DEF V, den, num, dir, agree
<1> QED BY <1>1 DEF NoVotes, V

\* A score between the votes: fuse renormalises the weights of those that voted.
LEMMA MeanOfVotes ==
  ASSUME NEW sig, \A a \in DOMAIN sig : sig[a] \in VoteRecords, NEW r
  PROVE  LET f == Fuse(sig, r)
             cast == {Vote(sig, a) : a \in f.voters}
         IN cast # {} => f.num >= Min(cast) * f.den /\ f.num <= Max(cast) * f.den
<1> DEFINE f == Fuse(sig, r)
           cast == {Vote(sig, a) : a \in f.voters}
<1> SUFFICES ASSUME cast # {} PROVE f.num >= Min(cast) * f.den /\ f.num <= Max(cast) * f.den
  BY Zenon
<1>1. Voters(sig) # {} /\ f.voters = Voters(sig)
  BY FusedVoters
<1>2. cast \in SUBSET (-100 .. 100)
  BY <1>1, VotersFacts
<1>3. /\ Min(cast) \in cast /\ \A y \in cast : Min(cast) <= y
      /\ Max(cast) \in cast /\ \A y \in cast : y <= Max(cast)
  <2> HIDE DEF cast
  <2> QED BY <1>2, Extremes
<1> DEFINE lo == Min(cast)
           hi == Max(cast)
<1>4. lo \in Int /\ hi \in Int /\ \A a \in Voters(sig) : lo <= Vote(sig, a) /\ Vote(sig, a) <= hi
  BY <1>1, <1>2, <1>3
<1>5. f.num \in Int /\ f.den \in Nat
  BY <1>1, ScoreBounds
<1> HIDE DEF lo, hi, f
<1>6. lo * f.den <= f.num /\ f.num <= hi * f.den
  BY <1>1, <1>4, ScoreBounds DEF f
<1> QED BY <1>4, <1>5, <1>6 DEF lo, hi
\* A fused score, with or without votes, is a fraction with a direction.
LEMMA FusedFacts ==
  ASSUME NEW sig, \A a \in DOMAIN sig : sig[a] \in VoteRecords, NEW r
  PROVE  LET f == Fuse(sig, r)
         IN /\ f.num \in Int /\ f.den \in Nat /\ f.den > 0 /\ f.dir = DirectionForScore(f.num, f.den)
            /\ f = [voters |-> f.voters, num |-> f.num, den |-> f.den, dir |-> f.dir,
                    agree |-> f.agree, total |-> f.total]
            /\ f.voters = Voters(sig) /\ (f.voters # {} => f.total = f.den)
<1> DEFINE f == Fuse(sig, r)
<1>1. CASE Voters(sig) = {}
  <2>1. f = NoVotes
    BY <1>1, FusedVoters
  <2>2. Threshold \in Nat /\ Threshold > 0
    BY ThresholdAssumption, ContextAssumption
  <2>3. DirectionForScore(0, 1) = 0
    BY <2>2 DEF DirectionForScore
  <2> HIDE DEF f
  <2>4. f.num = 0 /\ f.den = 1 /\ f.dir = 0 /\ f.voters = {} /\ f.agree = 0 /\ f.total = 1
    BY <2>1 DEF NoVotes
  <2>5. f = [voters |-> f.voters, num |-> f.num, den |-> f.den, dir |-> f.dir, agree |-> f.agree,
             total |-> f.total]
    BY <2>1, <2>4 DEF NoVotes
  <2> QED BY <1>1, <2>3, <2>4, <2>5 DEF f
<1>2. CASE Voters(sig) # {}
  <2>1. f.num \in Int /\ f.den \in Nat /\ f.den > 0
    BY <1>2, ScoreBounds
  <2>2. /\ f = [voters |-> Voters(sig), num |-> f.num, den |-> f.den, dir |-> f.dir,
                agree |-> f.agree, total |-> f.den]
        /\ f.dir = DirectionForScore(f.num, f.den)
    BY <1>2, FuseForm
  <2> HIDE DEF f
  <2>3. f.voters = Voters(sig) /\ f.total = f.den
    BY <2>2
  <2> QED BY <2>1, <2>2, <2>3 DEF f
<1> QED BY <1>1, <1>2

\* The larger timeframe does not reverse a direction, and leaves the votes alone.
LEMMA FinalFacts ==
  ASSUME NEW sig, \A a \in DOMAIN sig : sig[a] \in VoteRecords, NEW r, NEW c \in VoteRecords
  PROVE  LET f == Fuse(sig, r)
             h == ApplyContext(f, c)
         IN /\ h.num \in Int /\ h.den \in Nat /\ h.den > 0
            /\ h.dir = DirectionForScore(h.num, h.den) /\ h.dir \in {-1, 0, 1}
            /\ f.dir \in {-1, 0, 1} /\ f.dir * h.dir # -1
            /\ h.voters = Voters(sig) /\ h.agree = f.agree
            /\ (h.voters # {} => h.total = f.den)
<1> DEFINE f == Fuse(sig, r)
<1>1. /\ f.num \in Int /\ f.den \in Nat /\ f.den > 0 /\ f.dir = DirectionForScore(f.num, f.den)
      /\ f = [voters |-> f.voters, num |-> f.num, den |-> f.den, dir |-> f.dir,
              agree |-> f.agree, total |-> f.total]
      /\ f.voters = Voters(sig) /\ (f.voters # {} => f.total = f.den)
  BY FusedFacts
<1> HIDE DEF f
<1>2. LET h == ApplyContext(f, c)
      IN /\ h.num \in Int /\ h.den \in Nat /\ h.den > 0
         /\ h.dir = DirectionForScore(h.num, h.den) /\ h.dir \in {-1, 0, 1}
         /\ f.dir \in {-1, 0, 1} /\ f.dir * h.dir # -1
         /\ h.voters = f.voters /\ h.agree = f.agree /\ h.total = f.total
  BY <1>1, ContextFacts
<1> QED BY <1>1, <1>2 DEF f

\* Votes that move up do not move the direction down.
LEMMA DirectionMonotone ==
  ASSUME NEW s1, \A a \in DOMAIN s1 : s1[a] \in VoteRecords,
         NEW s2, \A a \in DOMAIN s2 : s2[a] \in VoteRecords,
         Voters(s1) = Voters(s2), \A a \in Voters(s1) : Vote(s1, a) <= Vote(s2, a),
         NEW r, NEW c \in VoteRecords
  PROVE  ApplyContext(Fuse(s1, r), c).dir <= ApplyContext(Fuse(s2, r), c).dir
<1> DEFINE f1 == Fuse(s1, r)
           f2 == Fuse(s2, r)
<1>1. CASE Voters(s1) = {}
  <2>1. f1 = f2
    BY <1>1, FusedVoters
  <2>2. ApplyContext(f1, c).dir \in {-1, 0, 1}
    BY FinalFacts
  <2> QED BY <2>1, <2>2
<1>2. CASE Voters(s1) # {}
  <2> DEFINE V == Voters(s1)
             w == WeightsFor(r)
             g1 == [a \in V |-> w[a] * Vote(s1, a)]
             g2 == [a \in V |-> w[a] * Vote(s2, a)]
  <2>1. /\ f1.num = Sum(g1, V) /\ f1.den = Sum(w, V) /\ f2.den = Sum(w, V)
        /\ f2.num = Sum(g2, V)
    BY <1>2, FuseForm
  <2>2. /\ V \subseteq DirectionalAgents /\ IsFiniteSet(V)
        /\ \A a \in V : Vote(s1, a) \in Int /\ Vote(s2, a) \in Int /\ w[a] \in Nat
    BY VotersFacts, WeightsForType
  <2>3. g1 \in [V -> Int] /\ g2 \in [V -> Int]
    BY <2>2
  <2>4. \A a \in V : g1[a] <= g2[a]
    <3>1. \A x, y \in Int, k \in Nat : x <= y => k * x <= k * y
      OBVIOUS
    <3>2. ASSUME NEW a \in V PROVE g1[a] <= g2[a]
      <4>1. g1[a] = w[a] * Vote(s1, a) /\ g2[a] = w[a] * Vote(s2, a) /\ Vote(s1, a) <= Vote(s2, a)
        OBVIOUS
      <4> HIDE DEF g1, g2, V, w
      <4> QED BY <2>2, <3>1, <4>1
    <3> QED BY <3>2
  <2>5. f1.num <= f2.num /\ f1.den = f2.den
    <3> HIDE DEF V, g1, g2
    <3>1. Sum(g1, V) <= Sum(g2, V)
      BY <2>2, <2>3, <2>4, SumMonotone
    <3> QED BY <2>1, <3>1
  <2>6. /\ f1.num \in Int /\ f1.den \in Nat /\ f1.den > 0 /\ f1.dir = DirectionForScore(f1.num, f1.den)
        /\ f1 = [voters |-> f1.voters, num |-> f1.num, den |-> f1.den, dir |-> f1.dir,
                 agree |-> f1.agree, total |-> f1.total]
    BY FusedFacts
  <2>7. /\ f2.num \in Int /\ f2.dir = DirectionForScore(f2.num, f2.den)
        /\ f2 = [voters |-> f2.voters, num |-> f2.num, den |-> f2.den, dir |-> f2.dir,
                 agree |-> f2.agree, total |-> f2.total]
    BY FusedFacts
  <2> HIDE DEF f1, f2, V, w, g1, g2
  <2>8. ASSUME NEW m \in Int, NEW n \in Int, m <= n, NEW d \in Nat, d > 0
        PROVE  DirectionForScore(m, d) <= DirectionForScore(n, d)
    <3> DEFINE t == Threshold * d
    <3>1. t \in Nat
      BY <2>8, ThresholdAssumption
    <3>2. t > 0
      <4>1. Threshold \in Nat /\ Threshold > 0
        BY ThresholdAssumption, ContextAssumption
      <4> QED BY <2>8, <4>1
    <3> HIDE DEF t
    <3>3. /\ DirectionForScore(m, d) = IF m >= t THEN 1 ELSE IF m <= -t THEN -1 ELSE 0
          /\ DirectionForScore(n, d) = IF n >= t THEN 1 ELSE IF n <= -t THEN -1 ELSE 0
      BY DEF DirectionForScore, t
    <3> QED BY <2>8, <3>1, <3>2, <3>3
  <2>9. CASE c.conf <= 0
    <3>1. ApplyContext(f1, c) = f1 /\ ApplyContext(f2, c) = f2
      BY <2>9 DEF ApplyContext
    <3>2. DirectionForScore(f1.num, f1.den) <= DirectionForScore(f2.num, f1.den)
      BY <2>5, <2>6, <2>7, <2>8
    <3> QED BY <2>5, <2>6, <2>7, <3>1, <3>2 DEF f1, f2
  <2>10. CASE ~ (c.conf <= 0)
    <3> DEFINE x == ContextWeight * c.dir * c.conf * f1.den
               n1 == 100 * f1.num + x
               n2 == 100 * f2.num + x
               d == 100 * f1.den
    <3>1. x \in Int
      <4>1. ContextWeight \in Int /\ c.dir \in Int /\ c.conf \in Int /\ f1.den \in Int
        BY <2>6, ThresholdAssumption DEF VoteRecords, Percent
      <4> QED BY <4>1
    <3>2. ApplyContext(f1, c).dir = DirectionForScore(n1, d)
      BY <2>6, <2>10 DEF ApplyContext
    <3>3. ApplyContext(f2, c).dir = DirectionForScore(n2, d)
      BY <2>5, <2>7, <2>10 DEF ApplyContext
    <3> HIDE DEF x
    <3>4. n1 \in Int /\ n2 \in Int /\ n1 <= n2 /\ d \in Nat /\ d > 0
      BY <2>5, <2>6, <2>7, <3>1
    <3> HIDE DEF n1, n2, d
    <3>5. DirectionForScore(n1, d) <= DirectionForScore(n2, d)
      BY <2>8, <3>4
    <3> QED BY <3>2, <3>3, <3>5 DEF f1, f2
  <2> QED BY <2>9, <2>10 DEF f1, f2
<1> QED BY <1>1, <1>2

----------------------------------------------------------------------------
(* The verdict on well-formed inputs.                                      *)

\* The inputs of a decision that the agents, the larger timeframe and the market data give.
InputOk(d) ==
  /\ \A a \in DOMAIN d.signals : d.signals[a] \in VoteRecords
  /\ DOMAIN d.signals \subseteq AgentFamilies
  /\ d.context \in VoteRecords /\ d.atr \in Nat /\ d.price \in Nat

\* What is known of a verdict that is stored, and of one that is PAPER.
LEMMA VerdictForm ==
  ASSUME NEW d
  PROVE  LET v == ComputeDecision(d)
             h == ApplyContext(Fuse(d.signals, d.regime), d.context)
             risk == Assess(h.dir, d.atr, d.price, d.gate)
         IN /\ v.action = "PERSIST" =>
                 /\ v.fused = h /\ h.voters # {} /\ h.dir # 0
                 /\ v.status \in {"ANALYSIS", "PAPER", "BLOCKED"}
            /\ v.status = "PAPER" =>
                 /\ v.action = "PERSIST" /\ v.sizing = risk.sizing
                 /\ ~ (Coverage(d.signals) < CoverageMin)
                 /\ ~ (100 * h.agree < AgreementMin * h.total)
                 /\ risk.paper
<1> DEFINE h == ApplyContext(Fuse(d.signals, d.regime), d.context)
           risk == Assess(h.dir, d.atr, d.price, d.gate)
           few == Coverage(d.signals) < CoverageMin
           disagree == 100 * h.agree < AgreementMin * h.total
           first == FirstFailing(risk.ok)
<1>1. ComputeDecision(d) = IF h.voters = {} THEN Skip("no_directional_votes", h)
        ELSE IF few THEN Skip("insufficient_coverage", h)
        ELSE IF h.dir = 0 THEN Skip("weak_flat", h)
        ELSE IF disagree THEN Persist("ANALYSIS", "low_agreement", h, risk)
        ELSE IF risk.paper THEN Persist("PAPER", "none", h, risk)
        ELSE IF risk.passed THEN Persist("ANALYSIS", "risk_disabled", h, risk)
        ELSE Persist("BLOCKED", first, h, risk)
  BY DEF ComputeDecision
<1> HIDE DEF h, risk, few, disagree, first
<1>2. ASSUME NEW x, NEW y
      PROVE  /\ Skip(x, h).action = "SKIP" /\ Skip(x, h).status = "none"
             /\ Persist(x, y, h, risk).action = "PERSIST" /\ Persist(x, y, h, risk).status = x
             /\ Persist(x, y, h, risk).fused = h /\ Persist(x, y, h, risk).sizing = risk.sizing
  BY DEF Skip, Persist
<1>3. LET v == ComputeDecision(d)
      IN /\ v.action = "PERSIST" =>
              /\ v.fused = h /\ h.voters # {} /\ h.dir # 0
              /\ v.status \in {"ANALYSIS", "PAPER", "BLOCKED"}
         /\ v.status = "PAPER" =>
              v.action = "PERSIST" /\ v.sizing = risk.sizing /\ ~ few /\ ~ disagree /\ risk.paper
  BY <1>1, <1>2
<1> QED BY <1>3 DEF h, risk, few, disagree

\* The voters that vote for a direction.
Aligned(sig, dir) == {a \in Voters(sig) : sig[a].dir = dir}

\* The weight of the voters and of those that agree.
LEMMA FuseSums ==
  ASSUME NEW sig, \A a \in DOMAIN sig : sig[a] \in VoteRecords, NEW r, Voters(sig) # {}
  PROVE  /\ Fuse(sig, r).den = Sum(WeightsFor(r), Voters(sig))
         /\ Fuse(sig, r).agree = Sum(WeightsFor(r), Aligned(sig, Fuse(sig, r).dir))
BY FuseForm DEF Aligned

\* Enough weight voted for the final direction of a PAPER verdict.
LEMMA BackedByVotes ==
  ASSUME NEW d, InputOk(d), ComputeDecision(d).status = "PAPER"
  PROVE  LET h == ApplyContext(Fuse(d.signals, d.regime), d.context)
             for == Aligned(d.signals, h.dir)
             w == WeightsFor(d.regime)
         IN 100 * Sum(w, for) >= AgreementMin * Sum(w, h.voters)
<1> DEFINE f == Fuse(d.signals, d.regime)
           h == ApplyContext(f, d.context)
           V == Voters(d.signals)
           w == WeightsFor(d.regime)
           for == Aligned(d.signals, h.dir)
<1>1. h.dir # 0 /\ h.voters # {} /\ ~ (100 * h.agree < AgreementMin * h.total)
  BY VerdictForm
<1>2. /\ h.dir \in {-1, 0, 1} /\ f.dir \in {-1, 0, 1} /\ f.dir * h.dir # -1
      /\ h.voters = V /\ h.agree = f.agree /\ (h.voters # {} => h.total = f.den)
  BY FinalFacts DEF InputOk
<1>3. V # {} /\ h.total = f.den
  BY <1>1, <1>2
<1>4. f.den = Sum(w, V) /\ f.agree = Sum(w, Aligned(d.signals, f.dir))
  BY <1>3, FuseSums DEF InputOk
<1>5. f.den \in Nat /\ f.agree \in Nat /\ AgreementMin \in Nat
  BY <1>3, ScoreBounds, ParamsAssumption DEF InputOk, Percent
<1>6. /\ V \subseteq DirectionalAgents /\ IsFiniteSet(V) /\ w \in [DirectionalAgents -> 1 .. 100]
      /\ \A a \in V : d.signals[a].dir \in {-1, 1}
  BY VotersFacts, WeightsForType DEF InputOk
<1>7. Sum(w, for) \in Nat
  <2> DEFINE u == [a \in for |-> w[a]]
  <2>1. IsFiniteSet(for) /\ for \in SUBSET DirectionalAgents /\ u \in [for -> Nat]
        /\ w \in [DirectionalAgents -> Int]
    BY <1>6, FS_Subset DEF Aligned
  <2>2. Sum(w, for) = Sum(u, for)
    <3> HIDE DEF for, w
    <3> QED BY <2>1, AgentsAreFinite, SumAgree
  <2> HIDE DEF for, u
  <2>3. Sum(u, for) \in Nat
    BY <2>1, SumPositive
  <2> QED BY <2>2, <2>3
<1>8. CASE f.dir = h.dir
  <2>1. f.agree = Sum(w, for)
    BY <1>4, <1>8
  <2> HIDE DEF f, h, V, w, for
  <2>2. 100 * Sum(w, for) >= AgreementMin * Sum(w, h.voters)
    BY <1>1, <1>2, <1>3, <1>4, <1>5, <2>1
  <2> QED BY <1>2, <2>2 DEF f, h, V, w, for
<1>9. CASE f.dir # h.dir
  <2>1. f.dir = 0
    <3> HIDE DEF f, h
    <3> QED BY <1>1, <1>2, <1>9
  <2>2. Aligned(d.signals, f.dir) = {}
    BY <1>6, <2>1 DEF Aligned
  <2>3. w \in [DirectionalAgents -> Int]
    BY <1>6
  <2>4. f.agree = 0
    <3> HIDE DEF f, w
    <3>1. Sum(w, {}) = 0
      BY <2>3, AgentsAreFinite, SumSplit
    <3> QED BY <1>4, <2>2, <3>1
  <2> HIDE DEF f, h, V, w, for
  <2>5. AgreementMin * f.den <= 0 /\ AgreementMin * f.den \in Nat
    BY <1>1, <1>2, <1>3, <1>5, <2>4
  <2>6. 100 * Sum(w, for) >= AgreementMin * Sum(w, h.voters)
    BY <1>2, <1>4, <1>7, <2>5
  <2> QED BY <1>2, <2>6 DEF f, h, V, w, for
<1> QED BY <1>8, <1>9

\* A position is sized so that the stop and the exposure stay within their caps.
LEMMA SizingFacts ==
  ASSUME NEW price \in Nat, price > 0, NEW atr \in Nat, atr > 0, NEW dir
  PROVE  LET z == ComputeSizing(price, atr, dir)
         IN /\ z.units \in Int
            /\ 100 * z.units * Params.sl * atr <= Params.risk * Params.equity
            /\ 100 * z.units * price <= Params.exposure * Params.equity
            /\ z.rr >= Params.minRR => 100 * Params.tp >= Params.minRR * Params.sl
<1> DEFINE sl == Params.sl
           dist == sl * atr
           R == Params.equity * Params.risk
           X == Params.equity * Params.exposure
           a == R \div (100 * dist)
           b == X \div (100 * price)
           n == Min({a, b})
           rr == (100 * Params.tp) \div sl
<1>1. /\ sl \in Nat /\ sl > 0 /\ Params.tp \in Nat /\ Params.minRR \in Nat /\ Params.equity \in Nat
      /\ Params.risk \in Nat /\ Params.exposure \in Nat
  BY ParamsAssumption DEF Percent
<1>2. ComputeSizing(price, atr, dir).units = n /\ ComputeSizing(price, atr, dir).rr = rr
  BY DEF ComputeSizing
<1> HIDE DEF n, rr, sl
<1>3. R \in Nat /\ X \in Nat
  BY <1>1
<1>4. dist \in Nat /\ dist > 0
  BY <1>1
<1> HIDE DEF dist, R, X
<1>5. 100 * dist \in Nat /\ 100 * dist > 0 /\ 100 * price \in Nat /\ 100 * price > 0
  BY <1>4
<1>6. a \in Int /\ a * (100 * dist) <= R
  <2> DEFINE q == 100 * dist
  <2> HIDE DEF q
  <2>1. q \in Nat /\ q > 0
    BY <1>5 DEF q
  <2>2. R \div q \in Int /\ (R \div q) * q <= R
    BY <1>3, <2>1, DivDown
  <2> QED BY <2>2 DEF q
<1>7. b \in Int /\ b * (100 * price) <= X
  <2> DEFINE q == 100 * price
  <2> HIDE DEF q
  <2>1. q \in Nat /\ q > 0
    BY <1>5 DEF q
  <2>2. X \div q \in Int /\ (X \div q) * q <= X
    BY <1>3, <2>1, DivDown
  <2> QED BY <2>2 DEF q
<1> HIDE DEF a, b
<1>8. n \in Int /\ n <= a /\ n <= b
  <2>1. \E x \in {a, b} : \A y \in {a, b} : x <= y
    BY <1>6, <1>7
  <2> QED BY <1>6, <1>7, <2>1 DEF n, Min
<1>9. n * (100 * dist) <= R
  <2>1. n * (100 * dist) <= a * (100 * dist)
    BY <1>5, <1>6, <1>8, TimesMonotone
  <2>2. n * (100 * dist) \in Int /\ a * (100 * dist) \in Int
    BY <1>5, <1>6, <1>8
  <2> QED BY <1>3, <1>6, <2>1, <2>2
<1>10. n * (100 * price) <= X
  <2>1. n * (100 * price) <= b * (100 * price)
    BY <1>5, <1>7, <1>8, TimesMonotone
  <2>2. n * (100 * price) \in Int /\ b * (100 * price) \in Int
    BY <1>5, <1>7, <1>8
  <2> QED BY <1>3, <1>7, <2>1, <2>2
<1>11. 100 * n * sl * atr = n * (100 * dist)
  BY <1>1, <1>8 DEF dist
<1>12. 100 * n * price = n * (100 * price)
  BY <1>8
<1>13. R = Params.risk * Params.equity /\ X = Params.exposure * Params.equity
  BY <1>1 DEF R, X
<1>14. rr >= Params.minRR => 100 * Params.tp >= Params.minRR * sl
  <2>1. rr \in Int /\ rr * sl <= 100 * Params.tp
    BY <1>1, DivDown DEF rr
  <2>2. rr >= Params.minRR => Params.minRR * sl <= rr * sl
    BY <1>1, <2>1, TimesMonotone
  <2>3. rr * sl \in Int /\ Params.minRR * sl \in Int
    BY <1>1, <2>1
  <2> QED BY <1>1, <2>1, <2>2, <2>3
<1> QED BY <1>2, <1>8, <1>9, <1>10, <1>11, <1>12, <1>13, <1>14 DEF sl

\* Every gate left a PAPER verdict room, and its size is within the caps.
LEMMA RiskValidated ==
  ASSUME NEW d, InputOk(d), ComputeDecision(d).status = "PAPER"
  PROVE  LET z == ComputeDecision(d).sizing
         IN /\ 4 * CoverageMin <= 100 * Cardinality(DOMAIN d.signals)
            /\ d.atr > 0 /\ d.price > 0 /\ Params.enabled
            /\ d.gate.exposure + Params.risk <= Params.exposure
            /\ d.gate.triggered => d.gate.correlation + Params.risk <= Params.correlation
            /\ d.gate.dailyLoss + Params.risk <= Params.dailyLoss
            /\ d.gate.drawdown + Params.risk <= Params.drawdown
            /\ 100 * Params.tp >= Params.minRR * Params.sl
            /\ 100 * z.units * Params.sl * d.atr <= Params.risk * Params.equity
            /\ 100 * z.units * d.price <= Params.exposure * Params.equity
<1> DEFINE h == ApplyContext(Fuse(d.signals, d.regime), d.context)
           can == d.atr > 0 /\ d.price > 0
           z == IF can THEN ComputeSizing(d.price, d.atr, h.dir) ELSE NoSizing
           G == GatesOk(d.gate, z)
           ok == IF can THEN G ELSE [g \in DOMAIN G |-> FALSE]
           risk == Assess(h.dir, d.atr, d.price, d.gate)
<1>1. risk.paper /\ ComputeDecision(d).sizing = risk.sizing /\ ~ (Coverage(d.signals) < CoverageMin)
  BY VerdictForm
<1>2. risk = [passed |-> \A g \in DOMAIN ok : ok[g], paper |-> (\A g \in DOMAIN ok : ok[g]) /\ Params.enabled,
              ok |-> ok, sizing |-> z]
  BY DEF Assess
<1>3. (\A g \in DOMAIN ok : ok[g]) /\ Params.enabled /\ ComputeDecision(d).sizing = z
  <2> HIDE DEF ok, z, risk
  <2> QED BY <1>1, <1>2
<1>4. can
  <2> SUFFICES ASSUME ~ can PROVE FALSE
    OBVIOUS
  <2>1. "rr" \in DOMAIN G
    BY DEF GatesOk
  <2> HIDE DEF G, can
  <2> QED BY <1>3, <2>1
<1>5. z = ComputeSizing(d.price, d.atr, h.dir) /\ ok = G
  BY <1>4
<1> HIDE DEF z, can, h
<1>6. /\ z.rr >= Params.minRR
      /\ d.gate.exposure + Params.risk <= Params.exposure
      /\ d.gate.triggered => d.gate.correlation + Params.risk <= Params.correlation
      /\ d.gate.dailyLoss + Params.risk <= Params.dailyLoss
      /\ d.gate.drawdown + Params.risk <= Params.drawdown
  <2>1. \A g \in DOMAIN G : G[g]
    BY <1>3, <1>5
  <2> QED BY <2>1 DEF GatesOk
<1>7. /\ 100 * z.units * Params.sl * d.atr <= Params.risk * Params.equity
      /\ 100 * z.units * d.price <= Params.exposure * Params.equity
      /\ 100 * Params.tp >= Params.minRR * Params.sl
  <2>1. d.atr \in Nat /\ d.price \in Nat /\ d.atr > 0 /\ d.price > 0
    BY <1>4 DEF can, InputOk
  <2> QED BY <1>5, <1>6, <2>1, SizingFacts
<1>8. 4 * CoverageMin <= 100 * Cardinality(DOMAIN d.signals)
  <2> DEFINE n == Cardinality(DOMAIN d.signals)
  <2>1. DOMAIN d.signals \cap AgentFamilies = DOMAIN d.signals
    BY DEF InputOk
  <2>2. n \in Nat
    BY AgentsAreFinite, FS_Subset, FS_CardinalityType DEF InputOk
  <2> HIDE DEF n
  <2>3. ~ ((100 * n) \div 4 < CoverageMin)
    BY <1>1, <2>1 DEF Coverage, n
  <2>4. CoverageMin \in Nat
    BY ParamsAssumption DEF Percent
  <2>5. 4 * CoverageMin <= 100 * n
    BY <2>2, <2>3, <2>4
  <2> QED BY <2>5 DEF n
<1> QED BY <1>3, <1>4, <1>6, <1>7, <1>8 DEF can

----------------------------------------------------------------------------
(* What a step does.                                                       *)

\* Orders are only moved to another state.
OrdersAdvance ==
  /\ orders' = [i \in DOMAIN orders |-> orders'[i]]
  /\ \A i \in DOMAIN orders :
       orders'[i] = orders[i] \/ \E state : orders'[i] = [orders[i] EXCEPT !.state = state]

LEMMA BarAdvances ==
  ASSUME NEW p, NEW b, LifecycleBar(p, b)
  PROVE  OrdersAdvance /\ UNCHANGED <<now, signals, decisions>>
<1> DEFINE D == DueOrders(p, b)
           F == Filled(p, b)
<1>1. orders' = [i \in DOMAIN orders |->
                   IF i \notin D THEN orders[i]
                   ELSE [orders[i] EXCEPT !.state = IF i \in F THEN "filled" ELSE "cancelled"]]
  BY DEF LifecycleBar, OrdersAfter
<1>2. UNCHANGED <<now, signals, decisions>>
  BY DEF LifecycleBar, store
<1> HIDE DEF D, F
<1>3. ASSUME NEW i \in DOMAIN orders
      PROVE  orders'[i] = orders[i] \/ \E state : orders'[i] = [orders[i] EXCEPT !.state = state]
  <2>1. orders'[i] = IF i \notin D THEN orders[i]
                     ELSE [orders[i] EXCEPT !.state = IF i \in F THEN "filled" ELSE "cancelled"]
    BY <1>1
  <2> QED BY <2>1
<1>4. orders' = [i \in DOMAIN orders |-> orders'[i]]
  BY <1>1
<1> QED BY <1>2, <1>3, <1>4 DEF OrdersAdvance

\* Seen from the tables, a step is one of six kinds.
LEMMA StepKinds ==
  ASSUME Next
  PROVE  \/ UNCHANGED <<now, signals, decisions, orders, realized, snapshots>>
         \/ /\ now < MaxTime /\ now' = now + 1
            /\ UNCHANGED <<signals, decisions, orders, realized, snapshots>>
         \/ /\ \E p \in Pairs, b \in Buckets, votes \in Bulletins : AgentsReport(p, b, votes)
            /\ UNCHANGED <<now, decisions, orders, realized, snapshots>>
         \/ OrdersAdvance /\ UNCHANGED <<now, signals, decisions, realized, snapshots>>
         \/ /\ \E p \in Pairs, b \in Buckets : LifecycleBar(p, b)
            /\ OrdersAdvance /\ UNCHANGED <<now, signals, decisions>>
         \/ \E p : LET v == Decided(p) IN
              /\ v.action = "PERSIST" /\ SaveDecision(v) /\ SponsorPaperOrder(v)
              /\ UNCHANGED <<now, signals, realized, snapshots>>
<1> USE DEF store, ledger
<1>1. CASE Environment
  <2>1. CASE \E p \in Pairs, b \in Buckets, v \in Bulletins :
               AgentsReport(p, b, v)
    BY <2>1 DEF AgentsReport
  <2>2. CASE \E p \in Pairs \cup Foreign : ReplayDecision(p)
    BY <2>2 DEF ReplayDecision
  <2>3. CASE \E i \in DOMAIN orders : LifecycleCancels(i)
    <3>1. PICK i \in DOMAIN orders : LifecycleCancels(i)
      BY <2>3
    <3>2. orders' = [orders EXCEPT ![i] = [orders[i] EXCEPT !.state = "cancelled"]]
      BY <3>1 DEF LifecycleCancels
    <3>3. \A j \in DOMAIN orders :
            orders'[j] = orders[j] \/ orders'[j] = [orders[j] EXCEPT !.state = "cancelled"]
      BY <3>2
    <3>4. orders' = [j \in DOMAIN orders |-> orders'[j]]
      BY <3>2
    <3>5. OrdersAdvance
      BY <3>3, <3>4 DEF OrdersAdvance
    <3> QED BY <3>1, <3>5 DEF LifecycleCancels
  <2>4. CASE \E p \in Pairs, b \in Buckets : LifecycleBar(p, b)
    BY <2>4, BarAdvances
  <2>5. CASE Tick
    BY <2>5 DEF Tick
  <2> QED BY <1>1, <2>1, <2>2, <2>3, <2>4, <2>5 DEF Environment
<1>2. CASE Loop \/ ScanAll \/ Faults
  BY <1>2
  DEF Loop, Poll, EndBatch, EmitDecision, EmitRiskBrakeAlert,
      Restart, ScanAll, Faults, ProcessFails, EmitFails,
      Crash
<1>3. CASE ProcessPair
  <2> DEFINE v == Decided(Head(todo))
  <2>1. CASE v.action = "PERSIST"
    BY <1>3, <2>1 DEF ProcessPair
  <2>2. CASE v.action # "PERSIST"
    BY <1>3, <2>2 DEF ProcessPair
  <2> QED BY <2>1, <2>2
<1> QED BY <1>1, <1>2, <1>3 DEF Next

\* The first writer of a key wins.
LEMMA DecisionsStay ==
  ASSUME Next
  PROVE  \A k \in DOMAIN decisions : k \in DOMAIN decisions' /\ decisions'[k] = decisions[k]
BY StepKinds DEF SaveDecision

----------------------------------------------------------------------------
(* One order for a decision.                                               *)

OrderRecords ==
  /\ \E S : orders \in Seq(S)
  /\ \A i \in DOMAIN orders :
       orders[i] = [key |-> orders[i].key, side |-> orders[i].side,
                    notional |-> orders[i].notional, state |-> orders[i].state]

LEMMA OrdersInit == ASSUME Init PROVE OrderRecords /\ OneOrderPerDecision
BY DEF Init, OrderRecords, OneOrderPerDecision

LEMMA OrdersStep ==
  ASSUME OrderRecords, OneOrderPerDecision, [Next]_vars
  PROVE  OrderRecords' /\ OneOrderPerDecision'
<1>1. CASE UNCHANGED <<decisions, orders>>
  BY <1>1 DEF OrderRecords, OneOrderPerDecision
<1>2. ASSUME OrdersAdvance, UNCHANGED decisions
      PROVE  OrderRecords' /\ OneOrderPerDecision'
  <2>1. PICK S : orders \in Seq(S)
    BY DEF OrderRecords
  <2>2. ASSUME NEW i \in DOMAIN orders
        PROVE  /\ orders'[i].key = orders[i].key /\ orders'[i].side = orders[i].side
               /\ orders'[i] = [key |-> orders'[i].key, side |-> orders'[i].side,
                                notional |-> orders'[i].notional, state |-> orders'[i].state]
    <3>1. orders[i] = [key |-> orders[i].key, side |-> orders[i].side,
                       notional |-> orders[i].notional, state |-> orders[i].state]
      BY DEF OrderRecords
    <3>2. CASE orders'[i] = orders[i]
      BY <3>1, <3>2
    <3>3. ASSUME NEW state, orders'[i] = [orders[i] EXCEPT !.state = state]
          PROVE  /\ orders'[i].key = orders[i].key /\ orders'[i].side = orders[i].side
                 /\ orders'[i] = [key |-> orders'[i].key, side |-> orders'[i].side,
                                  notional |-> orders'[i].notional, state |-> orders'[i].state]
      BY <3>1, <3>3
    <3> QED BY <1>2, <3>2, <3>3 DEF OrdersAdvance
  <2> DEFINE T == {orders'[i] : i \in DOMAIN orders}
  <2>3. DOMAIN orders = 1 .. Len(orders) /\ Len(orders) \in Nat
    BY <2>1
  <2>4. orders' = [i \in 1 .. Len(orders) |-> orders'[i]]
    BY <1>2, <2>3 DEF OrdersAdvance
  <2>5. \A i \in 1 .. Len(orders) : orders'[i] \in T
    BY <2>3
  <2> HIDE DEF T
  <2>6. orders' \in Seq(T) /\ DOMAIN orders' = DOMAIN orders
    BY <2>3, <2>4, <2>5
  <2>7. OrderRecords'
    BY <2>2, <2>6 DEF OrderRecords
  <2> QED BY <1>2, <2>2, <2>6, <2>7 DEF OneOrderPerDecision
<1>3. ASSUME NEW p, LET v == Decided(p) IN SaveDecision(v) /\ SponsorPaperOrder(v)
      PROVE  OrderRecords' /\ OneOrderPerDecision'
  <2> DEFINE v == Decided(p)
             r == NewOrder(v)
  <2>1. \A k \in DOMAIN decisions : k \in DOMAIN decisions' /\ decisions'[k] = decisions[k]
    BY <1>3 DEF SaveDecision
  <2>2. CASE UNCHANGED orders
    BY <2>1, <2>2 DEF OrderRecords, OneOrderPerDecision
  <2>3. CASE v.status = "PAPER" /\ v.key \notin DOMAIN decisions /\ orders' = Append(orders, r)
    <3>1. /\ r = [key |-> r.key, side |-> r.side, notional |-> r.notional, state |-> r.state]
          /\ r.key = v.key /\ r.side = v.fused.dir
      BY DEF NewOrder
    <3>2. v.key \in DOMAIN decisions' /\ decisions'[v.key] = Row(v)
      BY <1>3, <2>3 DEF SaveDecision
    <3>3. decisions'[v.key].status = "PAPER" /\ decisions'[v.key].dir = v.fused.dir
      BY <2>3, <3>2 DEF Row
    <3>4. PICK S : orders \in Seq(S)
      BY DEF OrderRecords
    <3> HIDE DEF v, r
    <3>5. orders \in Seq(S \cup {r})
      BY <3>4
    <3>6. /\ orders' \in Seq(S \cup {r}) /\ DOMAIN orders' = DOMAIN orders \cup {Len(orders) + 1}
          /\ Len(orders) + 1 \notin DOMAIN orders
          /\ \A j \in DOMAIN orders : orders'[j] = orders[j]
          /\ orders'[Len(orders) + 1] = r
      BY <2>3, <3>5
    <3>7. OrderRecords'
      BY <3>1, <3>6 DEF OrderRecords
    <3>8. \A j \in DOMAIN orders : orders'[j].key \in DOMAIN decisions /\ orders'[j].key # r.key
      BY <2>3, <3>1, <3>6 DEF OneOrderPerDecision
    <3>9. ASSUME NEW i \in DOMAIN orders', NEW j \in DOMAIN orders', orders'[i].key = orders'[j].key
          PROVE  i = j
      BY <3>6, <3>8, <3>9 DEF OneOrderPerDecision
    <3>10. ASSUME NEW i \in DOMAIN orders'
           PROVE  /\ orders'[i].key \in DOMAIN decisions'
                  /\ decisions'[orders'[i].key].status = "PAPER"
                  /\ decisions'[orders'[i].key].dir = orders'[i].side
      <4>1. CASE i \in DOMAIN orders
        BY <2>1, <3>6, <4>1 DEF OneOrderPerDecision
      <4>2. CASE i = Len(orders) + 1
        BY <3>1, <3>2, <3>3, <3>6, <4>2
      <4> QED BY <3>6, <4>1, <4>2
    <3> QED BY <3>7, <3>9, <3>10 DEF OneOrderPerDecision
  <2> QED BY <1>3, <2>2, <2>3 DEF SponsorPaperOrder
<1> QED BY <1>1, <1>2, <1>3, StepKinds DEF vars, store, ledger

----------------------------------------------------------------------------
(* The cooldown.                                                           *)

\* Signals are about bars of configured pairs and numbered as they were created.
SignalsNumbered ==
  /\ IsFiniteSet(DOMAIN signals) /\ DOMAIN signals \subseteq Keys
  /\ \A k \in DOMAIN signals :
       signals[k].created \in Nat /\ signals[k].created < Cardinality(DOMAIN signals)

\* Decisions are numbered as they were taken, and taken while they were valid.
DecisionsNumbered ==
  /\ IsFiniteSet(DOMAIN decisions)
  /\ \A k \in DOMAIN decisions :
       /\ decisions[k].order \in Nat /\ decisions[k].order < Cardinality(DOMAIN decisions)
       /\ decisions[k].when \in Nat /\ ValidUntil(k) \in Int
       /\ decisions[k].when <= ValidUntil(k)

SpacingInv ==
  now \in Nat /\ SignalsNumbered /\ DecisionsNumbered /\ PapersAreSpaced

\* The bar that a decision is about was reported.
LEMMA LatestIsReported ==
  ASSUME SignalsNumbered, NEW p, ReportedBars(p) # {}
  PROVE  LatestBar(p) \in ReportedBars(p)
<1> DEFINE T == {signals[<<p, b>>].created : b \in ReportedBars(p)}
           n == Cardinality(DOMAIN signals)
<1>1. \A b \in ReportedBars(p) : <<p, b>> \in DOMAIN signals
  BY DEF SignalsNumbered, ReportedBars, Keys
<1>2. n \in Nat
  BY FS_CardinalityType DEF SignalsNumbered
<1>3. T \in SUBSET Nat /\ T # {} /\ \A t \in T : t <= n
  <2>1. \A b \in ReportedBars(p) :
          signals[<<p, b>>].created \in Nat /\ signals[<<p, b>>].created < n
    BY <1>1 DEF SignalsNumbered
  <2> HIDE DEF n
  <2>2. ASSUME NEW t \in T PROVE t \in Nat /\ t <= n
    <3>1. PICK b \in ReportedBars(p) : t = signals[<<p, b>>].created
      OBVIOUS
    <3>2. t \in Nat /\ t < n
      BY <2>1, <3>1
    <3> QED BY <1>2, <3>2
  <2>3. T # {}
    OBVIOUS
  <2> HIDE DEF T
  <2> QED BY <2>2, <2>3
<1>4. PICK t \in T : \A u \in T : u <= t
  BY <1>2, <1>3, GreatestExists
<1>5. PICK b \in ReportedBars(p) : signals[<<p, b>>].created = t
  BY <1>4
<1>6. \A c \in ReportedBars(p) : signals[<<p, c>>].created <= signals[<<p, b>>].created
  BY <1>4, <1>5
<1> QED BY <1>5, <1>6 DEF LatestBar

\* load_latest_decision finds a valid decision if there is one.
LEMMA LatestIsFound ==
  ASSUME DecisionsNumbered, NEW p, NEW since, LatestDecision(p, since) = {},
         NEW k \in DOMAIN decisions, k[1] = p
  PROVE  ~ (ValidUntil(k) >= since)
<1> SUFFICES ASSUME ValidUntil(k) >= since PROVE FALSE
  OBVIOUS
<1> DEFINE valid == {j \in DOMAIN decisions : j[1] = p /\ ValidUntil(j) >= since}
           T == {decisions[j].order : j \in valid}
           n == Cardinality(DOMAIN decisions)
<1>1. n \in Nat
  BY FS_CardinalityType DEF DecisionsNumbered
<1>2. T \in SUBSET Nat /\ T # {} /\ \A t \in T : t <= n
  BY <1>1 DEF DecisionsNumbered
<1>3. PICK t \in T : \A u \in T : u <= t
  BY <1>1, <1>2, GreatestExists
<1>4. PICK j \in valid : decisions[j].order = t
  BY <1>3
<1>5. j \in LatestDecision(p, since)
  BY <1>3, <1>4 DEF LatestDecision
<1> QED BY <1>5

\* A verdict is about a reported bar whose signals are fresh, hence taken while it
\* is valid; it is PAPER only if the cooldown finds nothing.
LEMMA VerdictIsFresh ==
  ASSUME EngineAssumption, SignalsNumbered, now \in Nat,
         NEW p, Decided(p).action = "PERSIST"
  PROVE  LET v == Decided(p) IN
           /\ v.key[1] = p
           /\ ValidUntil(v.key) \in Int /\ now <= ValidUntil(v.key)
           /\ v.status = "PAPER" /\ Cooldown > 0
                => LatestDecision(p, now - Cooldown) = {}
<1> DEFINE v == Decided(p)
           b == LatestBar(p)
           u == About(<<p, b>>, ComputeDecision(Inputs(p)))
<1>1. p \in Pairs /\ FreshAgents(p) # {}
  BY DEF Decided, About, Skip
<1>2. v = IF /\ u.status = "PAPER" /\ Cooldown > 0
             /\ LatestDecision(p, now - Cooldown) # {}
          THEN [u EXCEPT !.status = "ANALYSIS", !.veto = "cooldown"] ELSE u
  BY <1>1 DEF Decided
<1>3. v.key = <<p, b>> /\ (v.status = "PAPER" /\ Cooldown > 0
                             => LatestDecision(p, now - Cooldown) = {})
  BY <1>2 DEF About
<1>4. b \in Nat
  BY <1>1, LatestIsReported
  DEF FreshAgents, ReportedBars, SignalsNumbered, Keys,
      Buckets
<1>5. PICK a \in AgentFamilies : now <= FreshUntil(a, p, b)
  BY <1>1 DEF FreshAgents
<1> DEFINE len == Len1(p)
<1>6. len \in Nat
  BY <1>1 DEF EngineAssumption
<1>7. FreshUntil(a, p, b) \in {(b + 4) * len, (b + 2) * len}
  BY DEF FreshUntil
<1>8. ValidUntil(<<p, b>>) = (b + 4) * len
  BY DEF ValidUntil
<1>9. (b + 4) * len \in Int /\ (b + 2) * len <= (b + 4) * len
      /\ (b + 2) * len \in Int
  <2> HIDE DEF b, len
  <2>1. (b + 4) * len = b * len + 4 * len /\ (b + 2) * len = b * len + 2 * len
    BY <1>4, <1>6
  <2>2. b * len \in Nat
    BY <1>4, <1>6
  <2> QED BY <1>6, <2>1, <2>2
<1>10. ValidUntil(v.key) \in Int /\ now <= ValidUntil(v.key)
  <2>1. v.key = <<p, b>>
    BY <1>3
  <2> HIDE DEF v, b, len
  <2> QED BY <1>5, <1>7, <1>8, <1>9, <2>1
<1>11. v.key[1] = p
  BY <1>3
<1> QED BY <1>3, <1>10, <1>11

LEMMA SpacingInit ==
  ASSUME Init PROVE SpacingInv
<1>1. DOMAIN signals = {} /\ DOMAIN decisions = {} /\ now = 0
  BY DEF Init
<1> QED
  BY <1>1, FS_EmptySet
  DEF SpacingInv, SignalsNumbered, DecisionsNumbered, PapersAreSpaced

LEMMA ReportIsNumbered ==
  ASSUME SignalsNumbered, NEW p \in Pairs, NEW b \in Buckets, NEW votes,
         AgentsReport(p, b, votes)
  PROVE  SignalsNumbered'
<1> DEFINE n == Cardinality(DOMAIN signals)
           D == DOMAIN signals \cup {<<p, b>>}
<1>1. /\ <<p, b>> \notin DOMAIN signals
      /\ signals' = [k \in D |-> IF k \in DOMAIN signals THEN signals[k]
                                 ELSE [votes |-> votes, created |-> n]]
  BY DEF AgentsReport
<1>2. n \in Nat /\ IsFiniteSet(D) /\ Cardinality(D) = n + 1
  BY <1>1, FS_CardinalityType, FS_AddElement DEF SignalsNumbered
<1>3. DOMAIN signals' = D /\ D \subseteq Keys
  BY <1>1 DEF SignalsNumbered, Keys
<1>4. ASSUME NEW k \in D
      PROVE  signals'[k].created \in Nat /\ signals'[k].created < n + 1
  <2>1. CASE k \in DOMAIN signals
    BY <1>1, <1>2, <2>1 DEF SignalsNumbered
  <2>2. CASE k \notin DOMAIN signals
    BY <1>1, <1>2, <2>2
  <2> QED BY <2>1, <2>2
<1> HIDE DEF D, n
<1> QED BY <1>2, <1>3, <1>4 DEF SignalsNumbered

LEMMA SpacingSave ==
  ASSUME EngineAssumption, Cooldown > 0, SpacingInv, NEW p,
         Decided(p).action = "PERSIST", SaveDecision(Decided(p)),
         UNCHANGED <<now, signals>>
  PROVE  SpacingInv'
<1> DEFINE v == Decided(p)
           n == Cardinality(DOMAIN decisions)
           D == DOMAIN decisions \cup {v.key}
<1>1. /\ v.key[1] = p
      /\ ValidUntil(v.key) \in Int /\ now <= ValidUntil(v.key)
      /\ v.status = "PAPER" => LatestDecision(p, now - Cooldown) = {}
  BY VerdictIsFresh DEF SpacingInv
<1>2. decisions' = [k \in D |-> IF k \in DOMAIN decisions THEN decisions[k] ELSE Row(v)]
  BY DEF SaveDecision
<1>3. SignalsNumbered' /\ now' \in Nat
  BY DEF SpacingInv, SignalsNumbered
<1>4. n \in Nat /\ Cooldown \in Nat /\ now \in Nat
  BY FS_CardinalityType DEF SpacingInv, DecisionsNumbered, EngineAssumption
<1>5. CASE v.key \in DOMAIN decisions
  <2>1. DOMAIN decisions' = DOMAIN decisions /\ \A k \in DOMAIN decisions : decisions'[k] = decisions[k]
    BY <1>2, <1>5
  <2> QED
    BY <1>3, <2>1 DEF SpacingInv, DecisionsNumbered, PapersAreSpaced, ValidUntil
<1>6. CASE v.key \notin DOMAIN decisions
  <2>1. decisions'[v.key].order = n /\ decisions'[v.key].when = now
        /\ decisions'[v.key].status = v.status
    BY <1>2, <1>6 DEF Row
  <2> HIDE DEF v
  <2>2. DOMAIN decisions' = D /\ \A k \in DOMAIN decisions : decisions'[k] = decisions[k]
    BY <1>2
  <2>3. IsFiniteSet(D) /\ Cardinality(D) = n + 1
    BY <1>6, FS_AddElement DEF SpacingInv, DecisionsNumbered
  <2>4. ASSUME NEW k \in D
        PROVE  /\ decisions'[k].order \in Nat /\ decisions'[k].order < n + 1
               /\ decisions'[k].when \in Nat /\ ValidUntil(k) \in Int
               /\ decisions'[k].when <= ValidUntil(k)
    <3>1. CASE k \in DOMAIN decisions
      BY <1>4, <2>2, <3>1 DEF SpacingInv, DecisionsNumbered
    <3>2. CASE k = v.key
      BY <1>1, <1>4, <2>1, <3>2
    <3> QED BY <3>1, <3>2
  <2>5. ASSUME NEW j \in D, NEW k \in D, j[1] = k[1],
               decisions'[j].status = "PAPER", decisions'[k].status = "PAPER",
               decisions'[j].order < decisions'[k].order
        PROVE  decisions'[j].when + Cooldown < decisions'[k].when
    <3>1. CASE j \in DOMAIN decisions /\ k \in DOMAIN decisions
      BY <2>2, <2>5, <3>1 DEF SpacingInv, PapersAreSpaced
    <3>2. CASE j = v.key
      BY <1>4, <2>1, <2>4, <2>5, <3>2
    <3>3. CASE j \in DOMAIN decisions /\ k = v.key
      <4>1. LatestDecision(p, now - Cooldown) = {} /\ j[1] = p
        BY <1>1, <2>1, <2>5, <3>3
      <4>2. ~ (ValidUntil(j) >= now - Cooldown)
        BY <3>3, <4>1, LatestIsFound DEF SpacingInv
      <4>3. decisions'[j].when \in Nat /\ ValidUntil(j) \in Int
            /\ decisions'[j].when <= ValidUntil(j)
        BY <2>4
      <4> QED BY <1>4, <2>1, <3>3, <4>2, <4>3
    <3> QED BY <3>1, <3>2, <3>3
  <2> HIDE DEF D, n
  <2>6. DecisionsNumbered'
    BY <2>2, <2>3, <2>4 DEF DecisionsNumbered, ValidUntil
  <2>7. PapersAreSpaced'
    BY <2>2, <2>5 DEF PapersAreSpaced
  <2> QED BY <1>3, <2>6, <2>7 DEF SpacingInv
<1> QED BY <1>5, <1>6

LEMMA SpacingStep ==
  ASSUME EngineAssumption, Cooldown > 0, SpacingInv, [Next]_vars
  PROVE  SpacingInv'
<1>1. CASE UNCHANGED <<signals, decisions>> /\ now' \in Nat
  BY <1>1
  DEF SpacingInv, SignalsNumbered, DecisionsNumbered, PapersAreSpaced, ValidUntil
<1>2. ASSUME NEW p \in Pairs, NEW b \in Buckets, NEW votes,
             AgentsReport(p, b, votes), UNCHANGED <<now, decisions>>
      PROVE  SpacingInv'
  BY <1>2, ReportIsNumbered
  DEF SpacingInv, DecisionsNumbered, PapersAreSpaced, ValidUntil
<1>3. now \in Nat
  BY DEF SpacingInv
<1> QED BY <1>1, <1>2, <1>3, StepKinds, SpacingSave DEF vars, store

----------------------------------------------------------------------------
(* The pairs of a batch.                                                   *)

\* The pairs of a batch are those of its triggers.
LEMMA BatchType ==
  ASSUME NEW P, NEW s \in Seq(P)
  PROVE  FoldLeft(LAMBDA t, p : IF p \in ToSet(t) THEN t ELSE Append(t, p), <<>>, s) \in Seq(P)
<1> DEFINE T == DOMAIN s
           Next1(i, t) == IF s[i] \in ToSet(t) THEN t ELSE Append(t, s[i])
           step == [z \in T \X Seq(P) |-> Next1(z[1], z[2])]
           pick == [R \in SUBSET T |-> Max(R)]
           body(h) == [R \in SUBSET T |->
                         IF R = {} THEN <<>>
                         ELSE LET x == Max(R)
                              IN IF s[x] \in ToSet(h[R \ {x}]) THEN h[R \ {x}] ELSE Append(h[R \ {x}], s[x])]
           It == CHOOSE h : h = body(h)
<1>1. FoldLeft(LAMBDA t, p : IF p \in ToSet(t) THEN t ELSE Append(t, p), <<>>, s) = It[T]
  BY DEF FoldLeft, MapThenFoldSet
<1>2. T = 1 .. Len(s) /\ IsFiniteSet(T)
  BY FS_Interval
<1>3. ASSUME NEW R \in SUBSET T, R # {} PROVE Max(R) \in R
  <2>1. R \in SUBSET Nat /\ Len(s) \in Nat /\ \A t \in R : t <= Len(s)
    BY <1>2
  <2>2. \E x \in R : \A y \in R : y <= x
    BY <1>3, <2>1, GreatestExists
  <2> QED BY <2>2 DEF Max
<1>4. Picks(pick, T)
  BY <1>3 DEF Picks
<1>5. step \in [T \X Seq(P) -> Seq(P)]
  <2>1. ASSUME NEW z \in T \X Seq(P) PROVE Next1(z[1], z[2]) \in Seq(P)
    <3>1. z[1] \in T /\ z[2] \in Seq(P)
      OBVIOUS
    <3>2. s[z[1]] \in P
      BY <1>2, <3>1
    <3> QED BY <3>1, <3>2
  <2> QED BY <2>1
<1>6. <<>> \in Seq(P)
  OBVIOUS
<1>7. PICK f \in [SUBSET T -> Seq(P)] : Folds(f, T, <<>>, step, pick)
  <2> DEFINE B == Seq(P)
             base == <<>>
  <2>1. base \in B /\ step \in [T \X B -> B]
    BY <1>5, <1>6
  <2> HIDE DEF B, base, step, pick, T
  <2>2. \E f \in [SUBSET T -> B] : Folds(f, T, base, step, pick)
    BY <1>2, <1>4, <2>1, FoldExists
  <2> QED BY <2>2 DEF B, base
<1>8. ASSUME NEW R \in SUBSET T, R # {}
      PROVE  LET x == Max(R) IN x \in R /\ f[R] = Next1(x, f[R \ {x}])
  <2> DEFINE x == Max(R)
  <2>1. x \in R /\ pick[R] = x
    BY <1>3, <1>8
  <2>2. f[R] = step[<<x, f[R \ {x}]>>]
    <3> HIDE DEF step, pick
    <3> QED BY <1>7, <1>8, <2>1 DEF Folds
  <2> HIDE DEF x
  <2>3. <<x, f[R \ {x}]>> \in T \X Seq(P)
    BY <2>1
  <2>4. f[R] = Next1(x, f[R \ {x}])
    BY <2>2, <2>3
  <2> QED BY <2>1, <2>4 DEF x
<1>9. f = body(f)
  <2>1. f[{}] = <<>>
    BY <1>7 DEF Folds
  <2>2. ASSUME NEW R \in SUBSET T
        PROVE  f[R] = IF R = {} THEN <<>>
                      ELSE LET x == Max(R)
                           IN IF s[x] \in ToSet(f[R \ {x}]) THEN f[R \ {x}] ELSE Append(f[R \ {x}], s[x])
    BY <1>8, <2>1
  <2> HIDE DEF T
  <2> QED BY <2>2
<1>10. It = body(It)
  BY <1>9
<1> HIDE DEF It
<1> DEFINE Q == {R \in SUBSET T : It[R] = f[R]}
<1>11. ASSUME NEW R \in SUBSET T, \A U \in SUBSET R : U # R => U \in Q PROVE R \in Q
  <2>1. CASE R = {}
    BY <1>9, <1>10, <2>1
  <2>2. CASE R # {}
    <3> DEFINE x == Max(R)
               S == R \ {x}
    <3>1. x \in R /\ f[R] = Next1(x, f[S])
      BY <1>8, <2>2
    <3>2. It[R] = Next1(x, It[S])
      BY <1>10, <2>2
    <3>3. It[S] = f[S]
      BY <1>11, <3>1
    <3> HIDE DEF x, S
    <3> QED BY <3>1, <3>2, <3>3
  <2> QED BY <2>1, <2>2
<1> HIDE DEF Q, T, Next1, step, pick
<1>12. SUBSET T \subseteq Q
  <2>1. IsFiniteSet(T)
    BY <1>2
  <2> QED BY <1>11, <2>1, SubsetInduction
<1>13. It[T] = f[T] /\ f[T] \in Seq(P)
  BY <1>12 DEF Q
<1> QED BY <1>1, <1>13

----------------------------------------------------------------------------
(* What a stored verdict is about.                                         *)

SnapshotRows == [ts : Int, cash : Int, equity : Nat \ {0}, peak : Nat \ {0}, drawdown : Nat]

\* Results are booked for a day.  The account is solvent, its peak is above all its snapshots, and
\* it remembers, to the percent, every fall from one snapshot to a later one.
AccountOk ==
  /\ realized \in [Days -> Int] /\ snapshots \in Seq(SnapshotRows)
  /\ \A i \in 0 .. Len(snapshots) : EquityAt(i) <= Account.peak
  /\ \A i, j \in 0 .. Len(snapshots) : i < j =>
       100 * (EquityAt(i) - EquityAt(j)) < (Account.drawdown + 1) * EquityAt(i)

\* A decision was taken after a number of snapshots.
SeenOk == \A k \in DOMAIN decisions : decisions[k].seen \in 0 .. Len(snapshots)

\* Pairs and votes that are read are those that were written.
Reported ==
  /\ \A k \in DOMAIN signals : signals[k].votes \in Bulletins
  /\ todo \in Seq(Pairs \cup Foreign) /\ triggers \in Seq(Pairs \cup Foreign)
  /\ pc \in {"emit", "brake"} => todo # <<>>

EngineInv == TypeOK /\ SignalsNumbered /\ Reported /\ AccountOk /\ SeenOk /\ LossesStopPaper

\* The account is a snapshot row, that of the last snapshot if there is one.
LEMMA AccountIsRow ==
  ASSUME AccountOk
  PROVE  /\ Account \in SnapshotRows /\ Account.equity = EquityAt(Len(snapshots))
         /\ \A i \in 0 .. Len(snapshots) : EquityAt(i) \in Nat \ {0}
<1>1. snapshots \in Seq(SnapshotRows) /\ Len(snapshots) \in Nat
  BY DEF AccountOk
<1>2. Params.equity \in Nat \ {0}
  BY ParamsAssumption
<1>3. ASSUME NEW i \in 1 .. Len(snapshots) PROVE snapshots[i] \in SnapshotRows
  BY <1>1
<1>4. ASSUME NEW i \in 0 .. Len(snapshots) PROVE EquityAt(i) \in Nat \ {0}
  <2>1. CASE i = 0
    BY <1>2, <2>1 DEF EquityAt
  <2>2. CASE i # 0
    <3>1. snapshots[i] \in SnapshotRows
      BY <1>1, <1>3, <2>2
    <3> QED BY <2>2, <3>1 DEF EquityAt, SnapshotRows
  <2> QED BY <2>1, <2>2
<1>5. CASE snapshots = <<>>
  BY <1>2, <1>4, <1>5 DEF Account, EquityAt, SnapshotRows
<1>6. CASE snapshots # <<>>
  <2>1. Len(snapshots) \in 1 .. Len(snapshots)
    BY <1>1, <1>6
  <2> QED BY <1>3, <1>4, <1>6, <2>1 DEF Account, EquityAt
<1> QED BY <1>5, <1>6

\* Today is one of the days.
LEMMA TodayIsADay == ASSUME EngineAssumption, now \in 0 .. MaxTime PROVE now \div DayLen \in Days
<1> DEFINE q == now \div DayLen
           m == MaxTime \div DayLen
<1>1. now \in Nat /\ MaxTime \in Nat /\ now <= MaxTime /\ DayLen \in Nat /\ DayLen > 0
  BY DEF EngineAssumption
<1>2. q \in Int /\ q * DayLen <= now /\ now < q * DayLen + DayLen
  BY <1>1, DivDown
<1>3. m \in Int /\ m * DayLen <= MaxTime /\ MaxTime < m * DayLen + DayLen
  BY <1>1, DivDown
<1> HIDE DEF q, m
<1>4. q >= 0
  <2> SUFFICES ASSUME q + 1 <= 0 PROVE FALSE
    BY <1>2
  <2>1. (q + 1) * DayLen <= 0 * DayLen
    BY <1>1, <1>2, TimesMonotone
  <2>2. (q + 1) * DayLen = q * DayLen + DayLen
    BY <1>1, <1>2
  <2> QED BY <1>1, <1>2, <2>1, <2>2
<1>5. q <= m
  <2> SUFFICES ASSUME m + 1 <= q PROVE FALSE
    BY <1>2, <1>3
  <2>1. (m + 1) * DayLen <= q * DayLen
    BY <1>1, <1>2, <1>3, TimesMonotone
  <2>2. (m + 1) * DayLen = m * DayLen + DayLen
    BY <1>1, <1>3
  <2>3. q * DayLen \in Int /\ m * DayLen \in Int
    BY <1>1, <1>2, <1>3
  <2> QED BY <1>1, <1>2, <1>3, <2>1, <2>2, <2>3
<1> QED BY <1>2, <1>3, <1>4, <1>5 DEF Days, q, m

\* The context is a stored decision of a larger timeframe, or none.
LEMMA ContextIsRecord ==
  ASSUME EngineAssumption, TypeOK, NEW p PROVE ParentContext(p) \in VoteRecords
<1>1. CASE Parents(p) = {}
  BY <1>1 DEF ParentContext, VoteRecords, Percent
<1>2. CASE Parents(p) # {}
  <2> DEFINE m == Min(Parents(p))
             L == LatestDecision(<<p[1], TfOrder[m]>>, now)
             k == ParentKey(p)
  <2>1. Parents(p) \in SUBSET Nat
    BY DEF Parents, EngineAssumption
  <2>2. \E n \in Parents(p) : \A j \in Parents(p) : n <= j
    BY <1>2, <2>1, LeastExists
  <2>3. m \in Parents(p)
    BY <2>2 DEF Min
  <2>4. L # {}
    <3> HIDE DEF m
    <3> QED BY <2>3 DEF Parents
  <2>5. k \in L
    BY <2>4 DEF ParentKey
  <2>6. k \in DOMAIN decisions
    <3> HIDE DEF k, m
    <3> QED BY <2>5 DEF LatestDecision
  <2>7. decisions[k].dir \in {-1, 1} /\ decisions[k].conf \in Threshold .. 100
    BY <2>6 DEF TypeOK
  <2>8. decisions[k].conf \in 0 .. 100
    <3> HIDE DEF k
    <3> QED BY <2>7, ThresholdAssumption
  <2>9. ParentContext(p) = [dir |-> decisions[k].dir, conf |-> decisions[k].conf]
    BY <1>2 DEF ParentContext
  <2> HIDE DEF k
  <2> QED BY <2>7, <2>8, <2>9 DEF VoteRecords, Percent
<1> QED BY <1>1, <1>2

\* What a decision reads is well-formed.
LEMMA InputsAreOk ==
  ASSUME EngineAssumption, TypeOK, SignalsNumbered, Reported, NEW p, FreshAgents(p) # {}
  PROVE  InputOk(Inputs(p)) /\ <<p, LatestBar(p)>> \in DOMAIN signals
<1> DEFINE b == LatestBar(p)
           d == Inputs(p)
<1>1. ReportedBars(p) # {}
  BY DEF FreshAgents
<1>2. b \in ReportedBars(p)
  BY <1>1, LatestIsReported
<1>3. <<p, b>> \in DOMAIN signals
  <2> HIDE DEF b
  <2> QED BY <1>2 DEF ReportedBars, SignalsNumbered, Keys
<1>4. signals[<<p, b>>].votes \in [DirectionalAgents -> VoteRecords]
  BY <1>3 DEF Reported, EngineAssumption, VoteRecords
<1>5. FreshAgents(p) \subseteq AgentFamilies
  BY DEF FreshAgents
<1>6. /\ d.signals = FreshSignals(p) /\ d.context = ParentContext(p)
      /\ d.atr = Atr /\ d.price = Price
  BY DEF Inputs
<1>7. DOMAIN FreshSignals(p) = FreshAgents(p)
  BY DEF FreshSignals
<1>8. ASSUME NEW a \in FreshAgents(p) PROVE FreshSignals(p)[a] \in VoteRecords
  <2>1. FreshSignals(p)[a] = IF a = "regime" THEN [dir |-> 0, conf |-> 100]
                             ELSE signals[<<p, b>>].votes[a]
    BY DEF FreshSignals
  <2>2. [dir |-> 0, conf |-> 100] \in VoteRecords
    BY DEF VoteRecords, Percent
  <2>3. a # "regime" => a \in DirectionalAgents
    BY <1>5 DEF AgentFamilies
  <2> HIDE DEF b
  <2> QED BY <1>4, <2>1, <2>2, <2>3
<1>9. Atr \in Nat /\ Price \in Nat
  BY DEF EngineAssumption
<1> HIDE DEF d, b
<1>10. InputOk(d)
  BY <1>5, <1>6, <1>7, <1>8, <1>9, ContextIsRecord DEF InputOk
<1> QED BY <1>3, <1>10 DEF d, b

\* A stored verdict is about a reported bar and takes a side; a PAPER one found the losses of the
\* day and the drawdown of the account below their caps.
LEMMA StoredVerdict ==
  ASSUME EngineAssumption, Params.risk > 0, EngineInv, NEW p, Decided(p).action = "PERSIST"
  PROVE  LET v == Decided(p)
         IN /\ v.key \in DOMAIN signals /\ v.fused.dir \in {-1, 1}
            /\ v.status \in {"ANALYSIS", "PAPER", "BLOCKED"}
            /\ v.fused.num \in Int /\ v.fused.den \in Nat /\ v.fused.den > 0
            /\ v.fused.dir = DirectionForScore(v.fused.num, v.fused.den)
            /\ v.status = "PAPER" =>
                 /\ 100 * Loss(realized[now \div DayLen]) < Params.dailyLoss * Account.equity
                 /\ Account.drawdown + 1 <= Params.drawdown
<1> DEFINE v == Decided(p)
           d == Inputs(p)
           c == ComputeDecision(d)
           u == About(<<p, LatestBar(p)>>, c)
           h == ApplyContext(Fuse(d.signals, d.regime), d.context)
           today == Loss(realized[now \div DayLen])
           equity == Account.equity
<1>1. p \in Pairs /\ FreshAgents(p) # {}
  BY DEF Decided, About, Skip
<1>2. InputOk(d) /\ <<p, LatestBar(p)>> \in DOMAIN signals
  BY <1>1, InputsAreOk DEF EngineInv
<1>3. v = IF u.status = "PAPER" /\ Cooldown > 0 /\ LatestDecision(p, now - Cooldown) # {}
          THEN [u EXCEPT !.status = "ANALYSIS", !.veto = "cooldown"] ELSE u
  BY <1>1 DEF Decided
<1>4. /\ u.key = <<p, LatestBar(p)>> /\ u.action = c.action /\ u.status = c.status
      /\ u.fused = c.fused
      /\ u = [key |-> u.key, action |-> u.action, status |-> u.status, veto |-> u.veto,
              fused |-> u.fused, sizing |-> u.sizing]
  BY DEF About
<1> HIDE DEF u, c, d
<1>5. /\ v.key = <<p, LatestBar(p)>> /\ v.fused = c.fused /\ v.action = c.action
      /\ v.status \in {c.status, "ANALYSIS"}
  BY <1>3, <1>4
<1> HIDE DEF v
<1>6. c.action = "PERSIST"
  BY <1>5 DEF v
<1>7. c.fused = h /\ h.dir # 0 /\ c.status \in {"ANALYSIS", "PAPER", "BLOCKED"}
  BY <1>6, VerdictForm DEF c
<1>8. /\ h.num \in Int /\ h.den \in Nat /\ h.den > 0 /\ h.dir = DirectionForScore(h.num, h.den)
      /\ h.dir \in {-1, 0, 1}
  BY <1>2, FinalFacts DEF InputOk
<1> HIDE DEF h
<1>9. ASSUME c.status = "PAPER"
      PROVE  100 * today < Params.dailyLoss * equity /\ Account.drawdown + 1 <= Params.drawdown
  <2> DEFINE l == (100 * today) \div equity
  <2>1. d.gate.dailyLoss + Params.risk <= Params.dailyLoss /\ d.gate.drawdown + Params.risk <= Params.drawdown
    BY <1>2, <1>9, RiskValidated DEF c
  <2>2. d.gate.dailyLoss = l /\ d.gate.drawdown = Account.drawdown
    BY DEF d, Inputs, LedgerGate
  <2>3. today \in Nat
    <3>1. realized[now \div DayLen] \in Int
      BY TodayIsADay DEF EngineInv, AccountOk, TypeOK
    <3> QED BY <3>1 DEF Loss
  <2>4. equity \in Nat /\ equity > 0 /\ Account.drawdown \in Nat
    BY AccountIsRow DEF EngineInv, SnapshotRows
  <2>5. /\ Params.risk \in Nat /\ Params.risk > 0 /\ Params.dailyLoss \in Nat
        /\ Params.drawdown \in Nat
    BY ParamsAssumption DEF Percent
  <2> HIDE DEF today, equity, l
  <2>6. l \in Int /\ 100 * today < l * equity + equity
    BY <2>3, <2>4, DivDown DEF l
  <2>7. l + 1 <= Params.dailyLoss
    BY <2>1, <2>2, <2>5, <2>6
  <2>8. (l + 1) * equity <= Params.dailyLoss * equity
    BY <2>4, <2>5, <2>6, <2>7, TimesMonotone
  <2>9. (l + 1) * equity = l * equity + equity /\ l * equity \in Int /\ Params.dailyLoss * equity \in Int
    BY <2>4, <2>5, <2>6
  <2>10. 100 * today < Params.dailyLoss * equity
    BY <2>3, <2>4, <2>6, <2>8, <2>9
  <2>11. Account.drawdown + 1 <= Params.drawdown
    BY <2>1, <2>2, <2>4, <2>5
  <2> QED BY <2>10, <2>11
<1>10. v.status = "PAPER" => c.status = "PAPER"
  BY <1>5
<1> HIDE DEF today, equity
<1>11. /\ v.key \in DOMAIN signals /\ v.fused.dir \in {-1, 1}
       /\ v.status \in {"ANALYSIS", "PAPER", "BLOCKED"}
       /\ v.fused.num \in Int /\ v.fused.den \in Nat /\ v.fused.den > 0
       /\ v.fused.dir = DirectionForScore(v.fused.num, v.fused.den)
  BY <1>2, <1>5, <1>7, <1>8
<1>12. v.status = "PAPER" =>
         100 * today < Params.dailyLoss * equity /\ Account.drawdown + 1 <= Params.drawdown
  BY <1>9, <1>10
<1> QED BY <1>11, <1>12 DEF v, today, equity

\* The row of a stored verdict: its confidence is at least the threshold.
LEMMA RowFacts ==
  ASSUME NEW v, v.fused.num \in Int, v.fused.den \in Nat, v.fused.den > 0,
         v.fused.dir \in {-1, 1}, v.fused.dir = DirectionForScore(v.fused.num, v.fused.den)
  PROVE  /\ Row(v).dir = v.fused.dir /\ Row(v).status = v.status
         /\ Row(v).conf \in Threshold .. 100
         /\ Row(v).today = realized[now \div DayLen] /\ Row(v).seen = Len(snapshots)
<1> DEFINE n == v.fused.num
           e == v.fused.den
           x == IF n < 0 THEN -n ELSE n
           q == x \div e
           t == Threshold * e
<1>1. Threshold \in 0 .. 100
  BY ThresholdAssumption
<1>2. x \in Nat /\ t \in Nat
  BY <1>1
<1>3. x >= t
  <2>1. v.fused.dir = IF n >= t THEN 1 ELSE IF n <= -t THEN -1 ELSE 0
    BY DEF DirectionForScore
  <2> HIDE DEF t
  <2> QED BY <1>2, <2>1
<1> HIDE DEF x
<1>4. q \in Int /\ x < q * e + e
  BY <1>2, DivDown
<1>5. q >= Threshold
  <2> HIDE DEF q
  <2> SUFFICES ASSUME q + 1 <= Threshold PROVE FALSE
    BY <1>1, <1>4
  <2>1. (q + 1) * e <= Threshold * e
    BY <1>1, <1>4, TimesMonotone
  <2>2. (q + 1) * e = q * e + e /\ q * e \in Int
    BY <1>4
  <2> QED BY <1>2, <1>3, <1>4, <2>1, <2>2
<1>6. Row(v).conf = Min({100, q})
  BY DEF Row, x
<1>7. Min({100, q}) \in Threshold .. 100
  <2> HIDE DEF q
  <2>1. \E y \in {100, q} : \A z \in {100, q} : y <= z
    BY <1>4
  <2>2. Min({100, q}) \in {100, q} /\ Min({100, q}) <= 100
    BY <1>4, <2>1 DEF Min
  <2> QED BY <1>1, <1>4, <1>5, <2>2
<1>8. /\ Row(v).dir = v.fused.dir /\ Row(v).status = v.status
      /\ Row(v).today = realized[now \div DayLen] /\ Row(v).seen = Len(snapshots)
  BY DEF Row
<1> QED BY <1>6, <1>7, <1>8

----------------------------------------------------------------------------
(* Every step keeps the types, and the losses stop PAPER decisions.        *)

LEMMA EngineInit == ASSUME EngineAssumption, Init PROVE EngineInv
<1>1. snapshots = <<>> /\ Len(snapshots) = 0 /\ realized \in [Days -> Int]
  BY DEF Init
<1>2. Account.peak = Params.equity /\ \A i \in 0 .. Len(snapshots) : i = 0 /\ EquityAt(i) = Params.equity
  BY <1>1 DEF Account, EquityAt
<1>3. AccountOk
  <2>1. \A i, j \in 0 .. Len(snapshots) : ~ (i < j)
    BY <1>1
  <2>2. \A i \in 0 .. Len(snapshots) : EquityAt(i) <= Account.peak
    BY <1>2, ParamsAssumption
  <2>3. snapshots \in Seq(SnapshotRows)
    BY <1>1
  <2> QED BY <1>1, <2>1, <2>2, <2>3 DEF AccountOk
<1>4. DOMAIN signals = {} /\ DOMAIN decisions = {} /\ now = 0 /\ todo = <<>> /\ triggers = <<>>
      /\ pc = "idle" /\ faults = 0
  BY DEF Init
<1>5. SignalsNumbered
  BY <1>4, FS_EmptySet DEF SignalsNumbered
<1>6. Reported /\ SeenOk /\ LossesStopPaper
  BY <1>4 DEF Reported, SeenOk, LossesStopPaper
<1>7. TypeOK
  BY <1>4, <1>5 DEF TypeOK, SignalsNumbered, EngineAssumption, ToSet
<1> QED BY <1>3, <1>5, <1>6, <1>7 DEF EngineInv

\* The worker and its streams.
LEMMA WorkerStep ==
  ASSUME EngineAssumption, EngineInv, Next
  PROVE  /\ pc' \in {"idle", "batch", "emit", "brake", "down"} /\ faults' \in 0 .. MaxFaults
         /\ todo' \in Seq(Pairs \cup Foreign) /\ triggers' \in Seq(Pairs \cup Foreign)
         /\ pc' \in {"emit", "brake"} => todo' # <<>>
<1> DEFINE P == Pairs \cup Foreign
           Good == /\ pc' \in {"idle", "batch", "emit", "brake", "down"} /\ faults' \in 0 .. MaxFaults
                   /\ todo' \in Seq(P) /\ triggers' \in Seq(P)
                   /\ pc' \in {"emit", "brake"} => todo' # <<>>
<1>1. /\ todo \in Seq(P) /\ triggers \in Seq(P) /\ faults \in 0 .. MaxFaults
      /\ pc \in {"idle", "batch", "emit", "brake", "down"}
      /\ pc \in {"emit", "brake"} => todo # <<>>
  BY DEF EngineInv, TypeOK, Reported
<1>2. MaxFaults \in Nat /\ PairOrder \in Seq(P)
  BY DEF EngineAssumption
<1>3. todo # <<>> => Tail(todo) \in Seq(P)
  BY <1>1
<1>4. <<>> \in Seq(P)
  OBVIOUS
<1>5. \A p \in P : Append(triggers, p) \in Seq(P)
  BY <1>1
<1> USE DEF store, ledger, work
<1>6. CASE Environment
  <2>1. CASE \E p \in Pairs, b \in Buckets, v \in Bulletins : AgentsReport(p, b, v)
    BY <1>1, <1>5, <2>1 DEF AgentsReport
  <2>2. CASE \E p \in P : ReplayDecision(p)
    BY <1>1, <1>5, <2>2 DEF ReplayDecision
  <2>3. CASE \E i \in DOMAIN orders : LifecycleCancels(i)
    BY <1>1, <2>3 DEF LifecycleCancels
  <2>4. CASE \E p \in Pairs, b \in Buckets : LifecycleBar(p, b)
    BY <1>1, <2>4 DEF LifecycleBar
  <2>5. CASE Tick
    BY <1>1, <2>5 DEF Tick
  <2> QED BY <1>6, <2>1, <2>2, <2>3, <2>4, <2>5 DEF Environment
<1>7. CASE Loop
  <2>1. CASE Poll
    <3>1. todo' \in Seq(P)
      <4> HIDE DEF P
      <4> QED BY <1>1, <2>1, BatchType DEF Poll
    <3> QED BY <1>1, <1>4, <2>1, <3>1 DEF Poll
  <2>2. CASE EndBatch
    BY <1>1, <2>2 DEF EndBatch
  <2>3. CASE EmitDecision
    BY <1>1, <1>3, <2>3 DEF EmitDecision
  <2>4. CASE EmitRiskBrakeAlert
    BY <1>1, <1>3, <2>4 DEF EmitRiskBrakeAlert
  <2>5. CASE Restart
    BY <1>1, <2>5 DEF Restart
  <2> QED BY <1>7, <2>1, <2>2, <2>3, <2>4, <2>5 DEF Loop
<1>8. CASE ProcessPair
  <2> DEFINE v == Decided(Head(todo))
  <2>1. CASE v.action = "PERSIST"
    BY <1>1, <1>8, <2>1 DEF ProcessPair, AfterCommit
  <2>2. CASE v.action # "PERSIST"
    BY <1>1, <1>3, <1>8, <2>2 DEF ProcessPair
  <2> QED BY <2>1, <2>2
<1>9. CASE ScanAll
  BY <1>1, <1>2, <1>9 DEF ScanAll
<1>10. CASE Faults
  <2>1. faults + 1 \in 0 .. MaxFaults \/ ~ (faults < MaxFaults)
    BY <1>1, <1>2
  <2>2. CASE ProcessFails
    BY <1>1, <1>3, <1>4, <2>1, <2>2 DEF ProcessFails, Raises, Stopped
  <2>3. CASE EmitFails
    BY <1>1, <1>3, <1>4, <2>1, <2>3 DEF EmitFails, Raises, Stopped
  <2>4. CASE Crash
    BY <1>1, <1>4, <2>1, <2>4 DEF Crash, Stopped
  <2> QED BY <1>10, <2>2, <2>3, <2>4 DEF Faults
<1> QED BY <1>6, <1>7, <1>8, <1>9, <1>10 DEF Next

\* What the tables hold.
Tables ==
  /\ now \in 0 .. MaxTime /\ SignalsNumbered /\ DOMAIN decisions \subseteq DOMAIN signals
  /\ \A k \in DOMAIN decisions :
       /\ decisions[k].dir \in {-1, 1} /\ decisions[k].status \in {"ANALYSIS", "PAPER", "BLOCKED"}
       /\ decisions[k].conf \in Threshold .. 100
  /\ \A k \in DOMAIN signals : signals[k].votes \in Bulletins
  /\ AccountOk /\ SeenOk /\ LossesStopPaper

LEMMA AccountKept ==
  ASSUME UNCHANGED <<realized, snapshots>>
  PROVE  /\ AccountOk => AccountOk'
         /\ SeenOk /\ UNCHANGED decisions => SeenOk'
         /\ LossesStopPaper /\ UNCHANGED decisions => LossesStopPaper'
<1>1. Account' = Account /\ \A i : EquityAt(i)' = EquityAt(i)
  BY DEF Account, EquityAt
<1>2. AccountOk => AccountOk'
  BY <1>1 DEF AccountOk, Days
<1>3. SeenOk /\ UNCHANGED decisions => SeenOk'
  BY DEF SeenOk
<1>4. LossesStopPaper /\ UNCHANGED decisions => LossesStopPaper'
  BY <1>1 DEF LossesStopPaper
<1> QED BY <1>2, <1>3, <1>4

\* A fall that is covered from a peak is covered from below the peak.
LEMMA FallIsCovered ==
  ASSUME NEW p \in Nat, NEW e \in 0 .. p, NEW q \in Nat, q > 0, NEW d \in Nat,
         100 * (p - q) < (d + 1) * p
  PROVE  100 * (e - q) < (d + 1) * e
<1>1. CASE d + 1 >= 100
  <2>1. 100 * e <= (d + 1) * e
    BY <1>1, TimesMonotone
  <2> QED BY <2>1
<1>2. CASE d + 1 < 100
  <2> DEFINE r == 99 - d
  <2>1. r \in Nat
    BY <1>2
  <2>2. e * r <= p * r
    BY <2>1, TimesMonotone
  <2>3. e * r = 100 * e - (d + 1) * e /\ p * r = 100 * p - (d + 1) * p
    OBVIOUS
  <2> HIDE DEF r
  <2>4. (d + 1) * e \in Int /\ (d + 1) * p \in Int
    OBVIOUS
  <2> QED BY <2>2, <2>3, <2>4
<1> QED BY <1>1, <1>2

\* A snapshot keeps the peak and covers the fall from it.
LEMMA SnapshotCovers ==
  ASSUME Account \in SnapshotRows, NEW ts \in Int, NEW cash \in Int, NEW equity \in Nat \ {0}
  PROVE  LET s == SnapshotOf(ts, cash, equity)
         IN  /\ s \in SnapshotRows /\ s.equity = equity
             /\ s.peak >= Account.peak /\ s.peak >= equity /\ s.drawdown >= Account.drawdown
             /\ 100 * (s.peak - equity) < (s.drawdown + 1) * s.peak
<1> DEFINE peak == IF equity > Account.peak THEN equity ELSE Account.peak
           down == Account.drawdown
           a == 100 * (peak - equity)
           fall == a \div peak
           d == IF fall > down THEN fall ELSE down
           s == SnapshotOf(ts, cash, equity)
<1>1. Account.peak \in Nat \ {0} /\ down \in Nat
  BY DEF SnapshotRows
<1>2. peak \in Nat \ {0} /\ peak >= Account.peak /\ peak >= equity /\ a \in Int
  BY <1>1
<1>3. s = [ts |-> ts, cash |-> cash, equity |-> equity, peak |-> peak, drawdown |-> d]
  BY DEF SnapshotOf
<1> HIDE DEF s, peak, a, down
<1>4. fall \in Int /\ a < fall * peak + peak
  BY <1>2, DivDown
<1> HIDE DEF fall
<1>5. d \in Nat /\ d >= down /\ fall <= d
  BY <1>1, <1>4
<1> HIDE DEF d
<1>6. a < (d + 1) * peak
  <2>1. fall * peak <= d * peak
    BY <1>2, <1>4, <1>5, TimesMonotone
  <2>2. (d + 1) * peak = d * peak + peak /\ d * peak \in Int /\ fall * peak \in Int
    BY <1>2, <1>4, <1>5
  <2> QED BY <1>2, <1>4, <2>1, <2>2
<1>7. s \in SnapshotRows
  BY <1>2, <1>3, <1>5 DEF SnapshotRows
<1> QED BY <1>2, <1>3, <1>5, <1>6, <1>7 DEF s, a, down

\* With one snapshot more the account remembers what it did and the fall to it.
LEMMA SnapshotStep ==
  ASSUME AccountOk, NEW ts \in Int, NEW cash \in Int, NEW equity \in Nat \ {0},
         snapshots' = Append(snapshots, SnapshotOf(ts, cash, equity)), realized' \in [Days -> Int]
  PROVE  /\ AccountOk' /\ Len(snapshots') = Len(snapshots) + 1
         /\ \A i \in 0 .. Len(snapshots) : EquityAt(i)' = EquityAt(i)
<1> DEFINE n == Len(snapshots)
           s == SnapshotOf(ts, cash, equity)
           E(i) == EquityAt(i)
<1>1. Account \in SnapshotRows /\ n \in Nat /\ \A i \in 0 .. n : EquityAt(i) \in Nat \ {0}
  BY AccountIsRow DEF AccountOk
<1>2. /\ s \in SnapshotRows /\ s.equity = equity
      /\ s.peak >= Account.peak /\ s.peak >= equity /\ s.drawdown >= Account.drawdown
      /\ 100 * (s.peak - equity) < (s.drawdown + 1) * s.peak
  BY <1>1, SnapshotCovers
<1>3. /\ Account.peak \in Nat /\ Account.drawdown \in Nat /\ s.peak \in Nat /\ s.drawdown \in Nat
  BY <1>1, <1>2 DEF SnapshotRows
<1> HIDE DEF s
<1>4. /\ snapshots' \in Seq(SnapshotRows) /\ Len(snapshots') = n + 1 /\ snapshots' # <<>>
      /\ snapshots'[n + 1] = s /\ \A i \in 1 .. n : snapshots'[i] = snapshots[i]
  BY <1>2 DEF AccountOk, s
<1>5. Account' = s
  BY <1>4 DEF Account
<1>6. \A i \in 0 .. n : EquityAt(i)' = EquityAt(i)
  <2>1. ASSUME NEW i \in 0 .. n PROVE EquityAt(i)' = EquityAt(i)
    <3>1. CASE i = 0
      BY <3>1 DEF EquityAt
    <3>2. CASE i # 0
      <4>1. i \in 1 .. n
        BY <1>1, <3>2
      <4> QED BY <1>4, <3>2, <4>1 DEF EquityAt
    <3> QED BY <3>1, <3>2
  <2> QED BY <2>1
<1>7. ASSUME NEW j, j = n + 1 PROVE EquityAt(j)' = equity
  <2>1. j # 0 /\ snapshots'[j] = s
    BY <1>1, <1>4, <1>7
  <2> QED BY <1>2, <2>1 DEF EquityAt
<1>8. \A i \in 0 .. Len(snapshots') : i \in 0 .. n \/ i = n + 1
  BY <1>1, <1>4
<1>9. \A i \in 0 .. n : EquityAt(i) <= Account.peak
  BY DEF AccountOk
<1>10. ASSUME NEW i \in 0 .. Len(snapshots') PROVE EquityAt(i)' <= s.peak
  <2>1. CASE i \in 0 .. n
    <3>1. EquityAt(i) \in Nat /\ EquityAt(i) <= Account.peak /\ EquityAt(i)' = EquityAt(i)
      BY <1>1, <1>6, <1>9, <2>1
    <3> QED BY <1>2, <1>3, <3>1
  <2>2. CASE i = n + 1
    BY <1>2, <1>7, <2>2
  <2> QED BY <1>8, <2>1, <2>2
<1>11. ASSUME NEW i \in 0 .. Len(snapshots'), NEW j \in 0 .. Len(snapshots'), i < j
       PROVE  100 * (EquityAt(i)' - EquityAt(j)') < (s.drawdown + 1) * EquityAt(i)'
  <2>1. i \in 0 .. n /\ EquityAt(i)' = EquityAt(i) /\ EquityAt(i) \in Nat
    BY <1>1, <1>4, <1>6, <1>11
  <2> DEFINE e == EquityAt(i)
             q == EquityAt(j)
             x == Account.drawdown + 1
             y == s.drawdown + 1
  <2>2. CASE j \in 0 .. n
    <3>1. q \in Nat /\ EquityAt(j)' = q /\ 100 * (e - q) < x * e
      BY <1>1, <1>6, <1>11, <2>1, <2>2 DEF AccountOk
    <3>2. x \in Nat /\ y \in Nat /\ x <= y
      <4>1. Account.drawdown \in Nat /\ s.drawdown \in Nat /\ Account.drawdown <= s.drawdown
        BY <1>2, <1>3
      <4> QED BY <4>1
    <3>3. e \in Nat
      BY <2>1
    <3> HIDE DEF e, q, x, y
    <3>4. x * e <= y * e /\ x * e \in Int /\ y * e \in Int
      BY <3>2, <3>3, TimesMonotone
    <3>5. 100 * (e - q) < y * e
      BY <3>1, <3>3, <3>4
    <3> QED BY <2>1, <3>1, <3>5 DEF e, y
  <2>3. CASE j = n + 1
    <3> DEFINE top == s.peak
               down == s.drawdown
    <3>1. top \in Nat /\ down \in Nat /\ equity \in Nat /\ equity > 0
      BY <1>3
    <3>2. e \in 0 .. top
      <4>1. e <= Account.peak /\ Account.peak <= top /\ e \in Nat /\ Account.peak \in Nat
        BY <1>2, <1>3, <1>9, <2>1
      <4> QED BY <3>1, <4>1
    <3>3. 100 * (top - equity) < (down + 1) * top
      BY <1>2
    <3> HIDE DEF e, top, down
    <3>4. 100 * (e - equity) < (down + 1) * e
      BY <3>1, <3>2, <3>3, FallIsCovered
    <3>5. EquityAt(j)' = equity
      BY <1>7, <2>3
    <3> QED BY <2>1, <3>4, <3>5 DEF e, down
  <2> QED BY <1>8, <2>2, <2>3
<1>12. AccountOk'
  BY <1>4, <1>5, <1>10, <1>11 DEF AccountOk, Days
<1> QED BY <1>4, <1>6, <1>12

\* A bar books its results and may store a snapshot.
LEMMA AccountStep ==
  ASSUME EngineAssumption, AccountOk, NEW p \in Pairs, NEW b \in Buckets, LifecycleBar(p, b)
  PROVE  /\ AccountOk' /\ Len(snapshots') >= Len(snapshots)
         /\ \A i \in 0 .. Len(snapshots) : EquityAt(i)' = EquityAt(i)
<1>1. PICK flip \in Outcomes, out \in Outcomes, exits \in BOOLEAN : Settles(p, b, flip, out, exits)
  BY DEF LifecycleBar
<1> DEFINE ts == b * Len1(p)
           booked == Booked(p, b, flip, out, exits)
           cash == CashAfter(p, b, booked)
           equity == cash + (IF AtOpen(p, b).side # 0 /\ ~exits THEN out ELSE 0)
<1>2. flip \in Int /\ out \in Int /\ EntryCost \in Nat /\ b \in Nat /\ Len1(p) \in Nat
  <2>1. MaxTime \in Nat
    BY DEF EngineAssumption
  <2> QED BY <2>1 DEF EngineAssumption, Buckets
<1>3. ts \in Int
  BY <1>2, ProductIsNat
<1>4. Account.cash \in Int /\ Len(snapshots) \in Nat
  BY AccountIsRow DEF SnapshotRows, AccountOk
<1>5. booked \in Int
  BY <1>2 DEF Booked
<1> HIDE DEF booked
<1>6. cash \in Int
  BY <1>2, <1>4, <1>5 DEF CashAfter
<1> HIDE DEF cash
<1>7. equity \in Int
  BY <1>2, <1>6
<1> HIDE DEF equity
<1>8. equity \in Nat \ {0} /\ realized' = [realized EXCEPT ![ts \div DayLen] = @ + booked]
  <2>1. equity > 0 /\ realized' = [realized EXCEPT ![ts \div DayLen] = @ + booked]
    BY <1>1 DEF Settles, equity, cash, booked
  <2> QED BY <1>7, <2>1
<1>9. snapshots' = snapshots \/ snapshots' = Append(snapshots, SnapshotOf(ts, cash, equity))
  BY <1>1 DEF Settles, equity, cash, booked, SnapshotsAfter
<1> HIDE DEF ts
<1>10. realized' \in [Days -> Int]
  <2> DEFINE t == ts \div DayLen
  <2>1. realized \in [Days -> Int] /\ realized' = [realized EXCEPT ![t] = realized[t] + booked]
    BY <1>8 DEF AccountOk
  <2> HIDE DEF t
  <2>2. CASE t \in Days
    BY <1>5, <2>1, <2>2
  <2>3. CASE t \notin Days
    BY <2>1, <2>3
  <2> QED BY <2>2, <2>3
<1>11. CASE snapshots' = snapshots
  <2>1. Account' = Account /\ \A i : EquityAt(i)' = EquityAt(i)
    BY <1>11 DEF Account, EquityAt
  <2>2. AccountOk'
    BY <1>10, <1>11, <2>1 DEF AccountOk, Days
  <2> QED BY <1>4, <1>11, <2>1, <2>2
<1>12. CASE snapshots' = Append(snapshots, SnapshotOf(ts, cash, equity))
  <2>1. /\ AccountOk' /\ Len(snapshots') = Len(snapshots) + 1
        /\ \A i \in 0 .. Len(snapshots) : EquityAt(i)' = EquityAt(i)
    BY <1>3, <1>6, <1>8, <1>10, <1>12, SnapshotStep
  <2> QED BY <1>4, <2>1
<1> QED BY <1>9, <1>11, <1>12

LEMMA TablesStep ==
  ASSUME EngineAssumption, Params.risk > 0, EngineInv, Next PROVE Tables'
<1>0. Tables
  BY DEF EngineInv, TypeOK, Reported, Tables
<1>1. CASE UNCHANGED <<now, signals, decisions, realized, snapshots>>
  BY <1>0, <1>1, AccountKept DEF Tables, SignalsNumbered
<1>2. CASE now < MaxTime /\ now' = now + 1 /\ UNCHANGED <<signals, decisions, realized, snapshots>>
  <2>1. now' \in 0 .. MaxTime
    BY <1>0, <1>2 DEF Tables, EngineAssumption
  <2> QED BY <1>0, <1>2, <2>1, AccountKept DEF Tables, SignalsNumbered
<1>3. ASSUME NEW p \in Pairs, NEW b \in Buckets, NEW votes \in Bulletins, AgentsReport(p, b, votes),
             UNCHANGED <<now, decisions, realized, snapshots>>
      PROVE  Tables'
  <2>1. SignalsNumbered'
    BY <1>0, <1>3, ReportIsNumbered DEF Tables
  <2>2. signals' = [k \in DOMAIN signals \cup {<<p, b>>} |->
                      IF k \in DOMAIN signals THEN signals[k]
                      ELSE [votes |-> votes, created |-> Cardinality(DOMAIN signals)]]
    BY <1>3 DEF AgentsReport
  <2>3. DOMAIN signals \subseteq DOMAIN signals' /\ \A k \in DOMAIN signals' : signals'[k].votes \in Bulletins
    BY <1>0, <2>2 DEF Tables
  <2> QED BY <1>0, <1>3, <2>1, <2>3, AccountKept DEF Tables
<1>4. ASSUME NEW p \in Pairs, NEW b \in Buckets, LifecycleBar(p, b), UNCHANGED <<now, signals, decisions>>
      PROVE  Tables'
  <2>1. /\ AccountOk' /\ Len(snapshots') >= Len(snapshots)
        /\ \A i \in 0 .. Len(snapshots) : EquityAt(i)' = EquityAt(i)
    BY <1>0, <1>4, AccountStep DEF Tables
  <2>2. Len(snapshots) \in Nat /\ Len(snapshots') \in Nat
    BY <1>0, <2>1 DEF Tables, AccountOk
  <2>3. SeenOk'
    BY <1>0, <1>4, <2>1, <2>2 DEF Tables, SeenOk
  <2>4. LossesStopPaper'
    <3>1. \A k \in DOMAIN decisions : decisions[k].seen \in 0 .. Len(snapshots)
      BY <1>0 DEF Tables, SeenOk
    <3>2. ASSUME NEW k \in DOMAIN decisions
          PROVE  /\ EquityAt(decisions[k].seen)' = EquityAt(decisions[k].seen)
                 /\ \A i \in 0 .. decisions[k].seen : EquityAt(i)' = EquityAt(i)
      <4>1. \A i \in 0 .. decisions[k].seen : i \in 0 .. Len(snapshots)
        BY <2>2, <3>1
      <4> QED BY <1>4, <2>1, <3>1, <4>1
    <3> QED BY <1>0, <1>4, <3>2 DEF Tables, LossesStopPaper
  <2> QED BY <1>0, <1>4, <2>1, <2>3, <2>4 DEF Tables, SignalsNumbered
<1>5. ASSUME NEW p, Decided(p).action = "PERSIST", SaveDecision(Decided(p)),
             UNCHANGED <<now, signals, realized, snapshots>>
      PROVE  Tables'
  <2> DEFINE v == Decided(p)
             D == DOMAIN decisions \cup {v.key}
             Ok(x) == /\ x.dir \in {-1, 1} /\ x.status \in {"ANALYSIS", "PAPER", "BLOCKED"}
                      /\ x.conf \in Threshold .. 100 /\ x.seen \in 0 .. Len(snapshots)
                      /\ x.status = "PAPER" =>
                           /\ 100 * Loss(x.today) < Params.dailyLoss * EquityAt(x.seen)
                           /\ \A i, j \in 0 .. x.seen : i < j =>
                                100 * (EquityAt(i) - EquityAt(j)) < Params.drawdown * EquityAt(i)
  <2>1. v.key \in DOMAIN signals
    BY <1>5, StoredVerdict
  <2>2. Ok(Row(v))
    <3>1. /\ v.fused.dir \in {-1, 1} /\ v.status \in {"ANALYSIS", "PAPER", "BLOCKED"}
          /\ v.fused.num \in Int /\ v.fused.den \in Nat /\ v.fused.den > 0
          /\ v.fused.dir = DirectionForScore(v.fused.num, v.fused.den)
          /\ v.status = "PAPER" =>
               /\ 100 * Loss(realized[now \div DayLen]) < Params.dailyLoss * Account.equity
               /\ Account.drawdown + 1 <= Params.drawdown
      BY <1>5, StoredVerdict
    <3> HIDE DEF v
    <3>2. /\ Row(v).dir = v.fused.dir /\ Row(v).status = v.status /\ Row(v).conf \in Threshold .. 100
          /\ Row(v).today = realized[now \div DayLen] /\ Row(v).seen = Len(snapshots)
      BY <3>1, RowFacts
    <3>3. /\ Account.equity = EquityAt(Len(snapshots)) /\ Len(snapshots) \in Nat
          /\ \A i \in 0 .. Len(snapshots) : EquityAt(i) \in Nat
      BY <1>0, AccountIsRow DEF Tables, AccountOk
    <3> DEFINE down == Account.drawdown
    <3>4. down \in Nat
      BY <1>0, AccountIsRow DEF Tables, SnapshotRows
    <3>5. Params.drawdown \in Nat
      <4>1. Params.drawdown \in Percent
        BY ParamsAssumption
      <4> QED BY <4>1 DEF Percent
    <3>6. ASSUME Account.drawdown + 1 <= Params.drawdown,
                 NEW i \in 0 .. Len(snapshots), NEW j \in 0 .. Len(snapshots), i < j
          PROVE  100 * (EquityAt(i) - EquityAt(j)) < Params.drawdown * EquityAt(i)
      <4> DEFINE e == EquityAt(i)
                 q == EquityAt(j)
                 x == down + 1
      <4>1. 100 * (e - q) < x * e
        BY <1>0, <3>6 DEF Tables, AccountOk
      <4>2. e \in Nat /\ q \in Nat
        BY <3>3
      <4>3. x \in Nat /\ x <= Params.drawdown
        <5>1. down + 1 <= Params.drawdown
          BY <3>6
        <5> HIDE DEF down
        <5> QED BY <3>4, <5>1
      <4> HIDE DEF e, q, x
      <4>4. x * e <= Params.drawdown * e /\ x * e \in Int /\ Params.drawdown * e \in Int
        BY <3>5, <4>2, <4>3, TimesMonotone
      <4>5. 100 * (e - q) < Params.drawdown * e
        BY <4>1, <4>2, <4>4
      <4> QED BY <4>5 DEF e, q
    <3>7. Row(v).seen \in 0 .. Len(snapshots)
      BY <3>2, <3>3
    <3> QED BY <3>1, <3>2, <3>3, <3>6, <3>7
  <2>3. \A k \in DOMAIN decisions : Ok(decisions[k])
    BY <1>0 DEF Tables, SeenOk, LossesStopPaper
  <2>4. decisions' = [k \in D |-> IF k \in DOMAIN decisions THEN decisions[k] ELSE Row(v)]
    BY <1>5 DEF SaveDecision
  <2> HIDE DEF v, Ok
  <2>5. DOMAIN decisions' = D /\ \A k \in D : Ok(decisions'[k])
    BY <2>2, <2>3, <2>4
  <2>6. DOMAIN decisions' \subseteq DOMAIN signals' /\ \A k \in DOMAIN decisions' : Ok(decisions'[k])
    BY <1>0, <1>5, <2>1, <2>5 DEF Tables
  <2>7. Len(snapshots') = Len(snapshots) /\ \A i : EquityAt(i)' = EquityAt(i)
    BY <1>5 DEF EquityAt
  <2>8. SeenOk' /\ LossesStopPaper'
    BY <2>6, <2>7 DEF SeenOk, LossesStopPaper, Ok
  <2>9. \A k \in DOMAIN decisions' :
          /\ decisions'[k].dir \in {-1, 1} /\ decisions'[k].status \in {"ANALYSIS", "PAPER", "BLOCKED"}
          /\ decisions'[k].conf \in Threshold .. 100
    BY <2>6 DEF Ok
  <2> QED BY <1>0, <1>5, <2>6, <2>8, <2>9, AccountKept DEF Tables, SignalsNumbered
<1> QED BY <1>1, <1>2, <1>3, <1>4, <1>5, StepKinds

LEMMA EngineStep ==
  ASSUME EngineAssumption, Params.risk > 0, EngineInv, [Next]_vars PROVE EngineInv'
<1>1. CASE Next
  <2>1. Tables'
    BY <1>1, TablesStep
  <2>2. /\ pc' \in {"idle", "batch", "emit", "brake", "down"} /\ faults' \in 0 .. MaxFaults
        /\ todo' \in Seq(Pairs \cup Foreign) /\ triggers' \in Seq(Pairs \cup Foreign)
        /\ pc' \in {"emit", "brake"} => todo' # <<>>
    BY <1>1, WorkerStep
  <2>3. ToSet(todo)' \subseteq Pairs \cup Foreign
    BY <2>2 DEF ToSet
  <2> QED BY <2>1, <2>2, <2>3 DEF EngineInv, TypeOK, Reported, Tables, SignalsNumbered
<1>2. CASE UNCHANGED vars
  BY <1>2, AccountKept
  DEF vars, store, ledger, work, EngineInv, TypeOK, Reported, SignalsNumbered, ToSet
<1> QED BY <1>1, <1>2

----------------------------------------------------------------------------
(* The engine by itself.                                                   *)

\* Decisions are about reported bars, take a side with a confidence of at least the
\* threshold.  None is PAPER while the day's closed positions have lost the daily cap, and none after
\* two snapshots between which the account fell by the drawdown cap, whatever happened in between
\* and since (build_ledger_gate, restore_state, equity_snapshot, assess): the account remembers its
\* falls to the percent, and a trade that risks something does not fit under a cap that is used up.
THEOREM LossesStopPaperDecisions ==
  ASSUME EngineAssumption, Params.risk > 0 PROVE Spec => [](TypeOK /\ LossesStopPaper)
<1>1. EngineInv => TypeOK /\ LossesStopPaper
  BY DEF EngineInv
<1> QED BY <1>1, EngineInit, EngineStep, PTL DEF Spec

\* A decision is final and has at most one order (save_decision, _wire_paper_decision).
THEOREM DecisionsAreFinal == Spec => []OneOrderPerDecision /\ DecisionIsFinal
<1> DEFINE Kept == \A k \in DOMAIN decisions : k \in DOMAIN decisions' /\ decisions'[k] = decisions[k]
<1>1. [Next]_vars => [Kept]_vars
  BY DecisionsStay
<1>2. DecisionIsFinal <=> [][Kept]_vars
  BY DEF DecisionIsFinal
<1> HIDE DEF Kept
<1>3. Spec => []OneOrderPerDecision /\ [][Kept]_vars
  BY <1>1, OrdersInit, OrdersStep, PTL DEF Spec
<1> QED BY <1>2, <1>3

\* PAPER decisions of a pair are further apart than the cooldown (decide).
THEOREM PapersKeepTheCooldown ==
  ASSUME EngineAssumption, Cooldown > 0 PROVE Spec => []PapersAreSpaced
<1>1. SpacingInv => PapersAreSpaced
  BY DEF SpacingInv
<1> QED BY <1>1, SpacingInit, SpacingStep, PTL DEF Spec

----------------------------------------------------------------------------
(* The agents by themselves.                                               *)

\* On the mirror image of a chart the technical agent votes the other way; its score is at
\* most 1; without a trend the trend followers alone stay below 0.5 (technical.py).
THEOREM TechnicalAgentIsFair ==
  ASSUME Technical!TechnicalAssumption
  PROVE  Technical!Spec => [](/\ Technical!MirrorImage /\ Technical!ScoreIsAFraction
                              /\ Technical!WeakTrendIsDamped)
<1> DEFINE Valid == reading \in Technical!Readings
           Fair == /\ Technical!MirrorImage /\ Technical!ScoreIsAFraction
                   /\ Technical!WeakTrendIsDamped
<1>1. Technical!Init => Valid
  BY DEF Technical!Init
<1>2. Valid /\ [Technical!Next]_reading => Valid'
  BY DEF Technical!Next
<1>3. Valid => Fair
  BY MirrorIsOpposite, ScoreIsBounded
<1> HIDE DEF Valid, Fair
<1>4. Technical!Spec => []Fair
  BY <1>1, <1>2, <1>3, PTL DEF Technical!Spec
<1> QED BY <1>4 DEF Fair

\* Of EURUSD and of USDEUR, with the same events and stories, the fundamental and the
\* sentiment agent say opposite things; their confidence is between 0 and 1; stories about
\* the pair alone are no opinion (fundamental.py, sentiment.py).
THEOREM ContentAgentsAreFair ==
  ASSUME Readers!ReadersAssumption
  PROVE  Readers!Spec => [](/\ Readers!PairIsSymmetric /\ Readers!ConfidenceIsAFraction
                            /\ Readers!OwnPairIsNeutral)
<1> DEFINE Fair == /\ Readers!PairIsSymmetric /\ Readers!ConfidenceIsAFraction
                   /\ Readers!OwnPairIsNeutral
<1>1. LoadedOK => Fair
  BY ReadersAreFair DEF LoadedOK
<1>2. LoadedOK /\ [Readers!Next]_<<loaded, news>> => LoadedOK'
  BY LoadedStep
<1> HIDE DEF Fair
<1>3. Readers!Spec => []Fair
  BY <1>1, <1>2, LoadedInit, PTL DEF Readers!Spec, Readers!vars
<1> QED BY <1>3 DEF Fair
=============================================================================
