-------------------------------- MODULE Sums --------------------------------
(***************************************************************************)
(* Facts about finite sets of numbers and sums over finite sets, which the *)
(* theorems about the tables of the journal rest on.  MapThenSumSet of the *)
(* community modules is recursive: what it returns is proved from the      *)
(* smallest set it would be wrong for.  Then sums over the pairs of        *)
(* elements that follow one another, as a report counts the errors between *)
(* one reading and the next.                                               *)
(***************************************************************************)
EXTENDS Integers, FiniteSets, FiniteSetsExt, FiniteSetTheorems, TLAPS

(* Of finite sets, one contains no other. *)
LEMMA Smallest ==
    ASSUME NEW F, F # {}, \A s \in F : IsFiniteSet(s)
    PROVE  \E s \in F : \A t \in F : t \subseteq s => t = s
<1> DEFINE S == UNION F
<1>0. F \subseteq SUBSET S
  OBVIOUS
<1> HIDE DEF S
<1>1. F \subseteq FiniteSubsetsOf(S)
  BY <1>0 DEF FiniteSubsetsOf
<1>2. IsWellFoundedOn(StrictSubsetOrdering(S), FiniteSubsetsOf(S))
  BY FS_StrictSubsetOrderingWellFounded
<1>3. PICK s \in F : \A t \in F : ~(<<t, s>> \in StrictSubsetOrdering(S))
  BY <1>1, <1>2, WFMin
<1>4. ASSUME NEW t \in F, t \subseteq s PROVE t = s
  BY <1>0, <1>3, <1>4 DEF StrictSubsetOrdering
<1> QED BY <1>4

LEMMA MaxExists ==
    ASSUME NEW S, S \subseteq Int, IsFiniteSet(S), S # {}
    PROVE  Max(S) \in S /\ \A y \in S : y <= Max(S)
<1> DEFINE Above(x) == {y \in S : x <= y}
           F == {Above(x) : x \in S}
<1>1. F # {}
  OBVIOUS
<1>2. \A s \in F : IsFiniteSet(s)
  <2>1. \A s \in F : s \in SUBSET S
    OBVIOUS
  <2> HIDE DEF F
  <2> QED BY <2>1, FS_Subset
<1>3. PICK s \in F : \A t \in F : t \subseteq s => t = s
  <2> HIDE DEF F
  <2> QED BY <1>1, <1>2, Smallest
<1>4. PICK x \in S : s = Above(x)
  OBVIOUS
<1>5. ASSUME NEW y \in S, ~(y <= x) PROVE FALSE
  <2>1. x \in Int /\ y \in Int /\ x <= y
    BY <1>5
  <2>2. \A z \in S : y <= z => x <= z
    BY <2>1
  <2>3. Above(y) \subseteq Above(x)
    BY <2>2
  <2>4. Above(y) \in F
    OBVIOUS
  <2>5. Above(y) = Above(x)
    BY <1>3, <1>4, <2>3, <2>4
  <2>6. x \in Above(x)
    BY <2>1
  <2>7. x \in Above(y)
    BY <2>5, <2>6
  <2> QED BY <1>5, <2>1, <2>7
<1>6. \E m \in S : \A y \in S : m >= y
  BY <1>5
<1> QED BY <1>6 DEF Max

LEMMA MinExists ==
    ASSUME NEW S, S \subseteq Int, IsFiniteSet(S), S # {}
    PROVE  Min(S) \in S /\ \A y \in S : Min(S) <= y
<1> DEFINE Below(x) == {y \in S : y <= x}
           F == {Below(x) : x \in S}
<1>1. F # {}
  OBVIOUS
<1>2. \A s \in F : IsFiniteSet(s)
  <2>1. \A s \in F : s \in SUBSET S
    OBVIOUS
  <2> HIDE DEF F
  <2> QED BY <2>1, FS_Subset
<1>3. PICK s \in F : \A t \in F : t \subseteq s => t = s
  <2> HIDE DEF F
  <2> QED BY <1>1, <1>2, Smallest
<1>4. PICK x \in S : s = Below(x)
  OBVIOUS
<1>5. ASSUME NEW y \in S, ~(x <= y) PROVE FALSE
  <2>1. x \in Int /\ y \in Int /\ y <= x
    BY <1>5
  <2>2. \A z \in S : z <= y => z <= x
    BY <2>1
  <2>3. Below(y) \subseteq Below(x)
    BY <2>2
  <2>4. Below(y) \in F
    OBVIOUS
  <2>5. Below(y) = Below(x)
    BY <1>3, <1>4, <2>3, <2>4
  <2>6. x \in Below(x)
    BY <2>1
  <2>7. x \in Below(y)
    BY <2>5, <2>6
  <2> QED BY <1>5, <2>1, <2>7
<1>6. \E m \in S : \A y \in S : m =< y
  BY <1>5
<1> QED BY <1>6 DEF Min

(* The extremes of a set are the ones that are. *)
LEMMA MaxIs ==
    ASSUME NEW S, S \subseteq Int, NEW m \in S, \A y \in S : y <= m
    PROVE  Max(S) = m
<1>1. \A x \in S : (\A y \in S : x >= y) <=> x = m
  <2> SUFFICES ASSUME NEW x \in S PROVE (\A y \in S : x >= y) <=> x = m
    OBVIOUS
  <2>1. x \in Int /\ m \in Int /\ x <= m
    OBVIOUS
  <2> QED BY <2>1
<1> QED BY <1>1 DEF Max

LEMMA MinIs ==
    ASSUME NEW S, S \subseteq Int, NEW m \in S, \A y \in S : m <= y
    PROVE  Min(S) = m
<1>1. \A x \in S : (\A y \in S : x =< y) <=> x = m
  <2> SUFFICES ASSUME NEW x \in S PROVE (\A y \in S : x =< y) <=> x = m
    OBVIOUS
  <2>1. x \in Int /\ m \in Int /\ m <= x
    OBVIOUS
  <2> QED BY <2>1
<1> QED BY <1>1 DEF Min

(* Numbers, if any, have a least one. *)
LEMMA Least ==
    ASSUME NEW F, F \subseteq Nat, F # {}
    PROVE  \E n \in F : \A m \in F : n <= m
<1>1. PICK x \in F : TRUE
  OBVIOUS
<1> DEFINE G == {y \in F : y <= x}
<1>2. x \in Nat /\ G \subseteq 0 .. x /\ x \in G
  <2>1. x \in Nat
    BY <1>1
  <2>2. \A y \in F : y \in Nat
    OBVIOUS
  <2>3. \A y \in G : y \in 0 .. x
    BY <2>1, <2>2
  <2>4. x \in G
    BY <2>1
  <2> QED BY <2>1, <2>3, <2>4
<1>3. IsFiniteSet(G)
  <2>1. IsFiniteSet(0 .. x)
    BY <1>2, FS_Interval
  <2> HIDE DEF G
  <2> QED BY <1>2, <2>1, FS_Subset
<1>4. Min(G) \in G /\ \A y \in G : Min(G) <= y
  <2>1. G \subseteq Int /\ G # {}
    BY <1>2
  <2> HIDE DEF G
  <2> QED BY <1>3, <2>1, MinExists
<1>5. ASSUME NEW m \in F PROVE Min(G) <= m
  <2>1. Min(G) \in Nat /\ Min(G) <= x /\ m \in Nat
    BY <1>4
  <2> QED BY <1>4, <2>1, <1>2
<1> QED BY <1>4, <1>5

-----------------------------------------------------------------------------
(* The sum of a function over a set. *)

SumOf(g, S) == MapThenSumSet(LAMBDA x : g[x], S)
Chosen(s) == CHOOSE x \in s : TRUE
Solves(h, g, S) == h = [s \in SUBSET S |-> IF s = {} THEN 0 ELSE g[Chosen(s)] + h[s \ {Chosen(s)}]]

LEMMA SumAsSolution ==
    ASSUME NEW g, NEW S
    PROVE  SumOf(g, S) = (CHOOSE h : Solves(h, g, S))[S]
BY DEF SumOf, MapThenSumSet, MapThenFoldSet, Solves, Chosen

LEMMA SumOfFunction ==
    ASSUME NEW f(_), NEW S
    PROVE  MapThenSumSet(f, S) = SumOf([x \in S |-> f(x)], S)
<1> DEFINE g == [x \in S |-> f(x)]
           A(h) == h = [s \in SUBSET S |-> IF s = {} THEN 0 ELSE f(Chosen(s)) + h[s \ {Chosen(s)}]]
<1>1. ASSUME NEW s \in SUBSET S, s # {}
      PROVE  g[Chosen(s)] = f(Chosen(s))
  <2>1. Chosen(s) \in S BY <1>1 DEF Chosen
  <2> QED BY <2>1
<1>2. ASSUME NEW h
      PROVE  [s \in SUBSET S |-> IF s = {} THEN 0 ELSE f(Chosen(s)) + h[s \ {Chosen(s)}]]
             = [s \in SUBSET S |-> IF s = {} THEN 0 ELSE g[Chosen(s)] + h[s \ {Chosen(s)}]]
  <2> HIDE DEF g
  <2> QED BY <1>1
<1>3. \A h : A(h) <=> Solves(h, g, S)
  <2> HIDE DEF g
  <2> QED BY <1>2 DEF Solves
<1>4. (CHOOSE h : A(h)) = (CHOOSE h : Solves(h, g, S))
  <2> HIDE DEF g, A
  <2> QED BY <1>3
<1>5. MapThenSumSet(f, S) = (CHOOSE h : A(h))[S]
  BY DEF MapThenSumSet, MapThenFoldSet, Chosen
<1>6. SumOf(g, S) = (CHOOSE h : Solves(h, g, S))[S]
  BY SumAsSolution
<1> QED BY <1>4, <1>5, <1>6

LEMMA Lesser ==
    ASSUME NEW s, s # {}
    PROVE  Chosen(s) \in s /\ s \ {Chosen(s)} \subseteq s /\ s \ {Chosen(s)} # s
<1>1. Chosen(s) \in s BY DEF Chosen
<1> QED BY <1>1

LEMMA SolutionValue ==
    ASSUME NEW g, NEW S, NEW h, Solves(h, g, S), NEW s \in SUBSET S
    PROVE  h[s] = IF s = {} THEN 0 ELSE g[Chosen(s)] + h[s \ {Chosen(s)}]
BY DEF Solves

LEMMA SolutionsAgree ==
    ASSUME NEW g, NEW S, NEW T, NEW h, NEW k, IsFiniteSet(S),
           Solves(h, g, S), Solves(k, g, T)
    PROVE  \A u \in SUBSET S : u \subseteq T => h[u] = k[u]
<1> DEFINE F == {u \in SUBSET S : u \subseteq T /\ h[u] # k[u]}
<1>1. SUFFICES ASSUME F # {} PROVE FALSE
  OBVIOUS
<1>2. F \subseteq SUBSET S /\ \A s \in F : IsFiniteSet(s)
  BY FS_Subset
<1>3. PICK u \in F : \A t \in F : t \subseteq u => t = u
  <2> HIDE DEF F
  <2> QED BY <1>1, <1>2, Smallest
<1>4. u # {}
  <2>1. h[{}] = 0 /\ k[{}] = 0
    BY SolutionValue
  <2> QED BY <1>3, <2>1
<1>5. DEFINE v == u \ {Chosen(u)}
<1>6. v \subseteq u /\ v # u
  BY <1>4, Lesser
<1>7. h[v] = k[v]
  <2> HIDE DEF v
  <2> QED BY <1>3, <1>6
<1>8. h[u] = g[Chosen(u)] + h[v] /\ k[u] = g[Chosen(u)] + k[v]
  <2>1. u \in SUBSET S /\ u \in SUBSET T
    OBVIOUS
  <2> HIDE DEF F
  <2>2. h[u] = g[Chosen(u)] + h[v]
    BY <1>4, <2>1, SolutionValue
  <2>3. k[u] = g[Chosen(u)] + k[v]
    BY <1>4, <2>1, SolutionValue
  <2> QED BY <2>2, <2>3
<1> QED BY <1>3, <1>7, <1>8

LEMMA SolutionExists ==
    ASSUME NEW g, NEW S, IsFiniteSet(S)
    PROVE  \E h : Solves(h, g, S)
<1> DEFINE F == {s \in SUBSET S : ~ \E h : Solves(h, g, s)}
<1>1. SUFFICES ASSUME F # {} PROVE FALSE
  <2>1. S \in SUBSET S OBVIOUS
  <2> QED BY <2>1
<1>2. F \subseteq SUBSET S /\ \A s \in F : IsFiniteSet(s)
  BY FS_Subset
<1>3. PICK s \in F : \A t \in F : t \subseteq s => t = s
  <2> HIDE DEF F
  <2> QED BY <1>1, <1>2, Smallest
<1> DEFINE H(t) == CHOOSE h : Solves(h, g, t)
           k == [t \in SUBSET s |-> IF t = {} THEN 0 ELSE g[Chosen(t)] + H(t \ {Chosen(t)})[t \ {Chosen(t)}]]
<1>4. ASSUME NEW t \in SUBSET s, t # s
      PROVE  Solves(H(t), g, t)
  <2>1. \E h : Solves(h, g, t)
    BY <1>3, <1>4
  <2> QED BY <2>1
<1>5. ASSUME NEW t \in SUBSET s, t # {}
      PROVE  k[t \ {Chosen(t)}] = H(t \ {Chosen(t)})[t \ {Chosen(t)}]
  <2> DEFINE u == t \ {Chosen(t)}
             v == u \ {Chosen(u)}
  <2>1. u \in SUBSET s /\ u # s
    BY <1>5, Lesser
  <2>2. Solves(H(u), g, u) /\ IsFiniteSet(u)
    <3> HIDE DEF u, H
    <3> QED BY <1>2, <1>3, <1>4, <2>1, FS_Subset
  <2>3. CASE u = {}
    <3>1. H(u)[u] = 0
      BY <2>2, <2>3, SolutionValue
    <3>2. k[u] = 0
      BY <2>1, <2>3
    <3> QED BY <3>1, <3>2
  <2>4. CASE u # {}
    <3>1. v \subseteq u /\ v \in SUBSET s /\ v # s
      <4> HIDE DEF u
      <4> QED BY <2>1, <2>4, Lesser
    <3>2. Solves(H(v), g, v)
      <4> HIDE DEF u, v, H
      <4> QED BY <1>4, <3>1
    <3>3. H(u)[v] = H(v)[v]
      <4> HIDE DEF u, v, H
      <4> QED BY <2>2, <3>1, <3>2, SolutionsAgree
    <3>4. H(u)[u] = g[Chosen(u)] + H(u)[v]
      <4> HIDE DEF u, H
      <4> QED BY <2>2, <2>4, SolutionValue
    <3>5. k[u] = g[Chosen(u)] + H(v)[v]
      <4> HIDE DEF u, H
      <4> QED BY <2>1, <2>4
    <3> QED BY <3>3, <3>4, <3>5
  <2> QED BY <2>3, <2>4
<1>6. Solves(k, g, s)
  <2>1. \A t \in SUBSET s :
          (IF t = {} THEN 0 ELSE g[Chosen(t)] + H(t \ {Chosen(t)})[t \ {Chosen(t)}])
          = (IF t = {} THEN 0 ELSE g[Chosen(t)] + k[t \ {Chosen(t)}])
    <3> HIDE DEF k, H
    <3> QED BY <1>5
  <2>2. k = [t \in SUBSET s |-> IF t = {} THEN 0 ELSE g[Chosen(t)] + k[t \ {Chosen(t)}]]
    <3> HIDE DEF H
    <3> QED BY <2>1
  <2> QED BY <2>2 DEF Solves
<1> QED BY <1>3, <1>6

LEMMA SumUnfolds ==
    ASSUME NEW g, NEW S, IsFiniteSet(S)
    PROVE  SumOf(g, S) = IF S = {} THEN 0 ELSE g[Chosen(S)] + SumOf(g, S \ {Chosen(S)})
<1> DEFINE H(t) == CHOOSE h : Solves(h, g, t)
           T == S \ {Chosen(S)}
<1>1. Solves(H(S), g, S)
  BY SolutionExists
<1>2. IsFiniteSet(T)
  BY FS_Subset
<1>3. Solves(H(T), g, T)
  BY <1>2, SolutionExists
<1>4. H(S)[S] = IF S = {} THEN 0 ELSE g[Chosen(S)] + H(S)[T]
  <2>1. S \in SUBSET S
    OBVIOUS
  <2>2. \A h : Solves(h, g, S) => h[S] = IF S = {} THEN 0 ELSE g[Chosen(S)] + h[T]
    BY <2>1, SolutionValue
  <2> HIDE DEF H
  <2> QED BY <1>1, <2>2
<1>5. H(S)[T] = H(T)[T]
  <2>1. T \in SUBSET S OBVIOUS
  <2> HIDE DEF H, T
  <2> QED BY <1>1, <1>3, <2>1, SolutionsAgree
<1>6. SumOf(g, S) = H(S)[S] /\ SumOf(g, T) = H(T)[T]
  BY SumAsSolution
<1> QED BY <1>4, <1>5, <1>6

LEMMA SumTakesOut ==
    ASSUME NEW g, NEW S, IsFiniteSet(S), \A x \in S : g[x] \in Int
    PROVE  /\ SumOf(g, {}) = 0 /\ SumOf(g, S) \in Int
           /\ \A x \in S : SumOf(g, S) = g[x] + SumOf(g, S \ {x})
<1> DEFINE Unfolds(s) == /\ SumOf(g, s) \in Int
                      /\ \A x \in s : SumOf(g, s) = g[x] + SumOf(g, s \ {x})
           F == {s \in SUBSET S : ~Unfolds(s)}
<1>0. SumOf(g, {}) = 0
  BY SumUnfolds, FS_EmptySet
<1>1. SUFFICES ASSUME F # {} PROVE FALSE
  <2>1. S \in SUBSET S OBVIOUS
  <2> QED BY <1>0, <2>1
<1>2. F \subseteq SUBSET S /\ \A s \in F : IsFiniteSet(s)
  BY FS_Subset
<1>3. PICK s \in F : \A t \in F : t \subseteq s => t = s
  <2> HIDE DEF F
  <2> QED BY <1>1, <1>2, Smallest
<1>4. \A t \in SUBSET s : t # s => Unfolds(t)
  <2> HIDE DEF Unfolds
  <2> QED BY <1>3
<1>5. s # {}
  <2>1. Unfolds({})
    BY <1>0
  <2> QED BY <1>3, <2>1
<1> DEFINE p == Chosen(s)
<1>6. p \in s /\ s \ {p} \in SUBSET s /\ s \ {p} # s
  BY <1>5, Lesser
<1>7. SumOf(g, s) = g[p] + SumOf(g, s \ {p})
  BY <1>2, <1>3, <1>5, SumUnfolds
<1> HIDE DEF p
<1>8. SumOf(g, s) \in Int
  BY <1>4, <1>6, <1>7
<1>9. ASSUME NEW x \in s, x # p
      PROVE  SumOf(g, s) = g[x] + SumOf(g, s \ {x})
  <2> DEFINE a == s \ {p}
             b == s \ {x}
             c == a \ {x}
  <2>1. c = b \ {p} /\ x \in a /\ p \in b
    BY <1>6, <1>9
  <2>2. a \in SUBSET s /\ a # s /\ b \in SUBSET s /\ b # s /\ c \in SUBSET s /\ c # s
    BY <1>6
  <2>3. SumOf(g, a) = g[x] + SumOf(g, c)
    <3> HIDE DEF a, b
    <3> QED BY <1>4, <2>1, <2>2
  <2>4. SumOf(g, b) = g[p] + SumOf(g, c)
    <3> HIDE DEF a, b, c
    <3> QED BY <1>4, <2>1, <2>2
  <2>5. SumOf(g, c) \in Int /\ g[x] \in Int /\ g[p] \in Int
    <3> HIDE DEF a, b, c
    <3> QED BY <1>4, <1>6, <2>2
  <2> HIDE DEF c
  <2> QED BY <1>7, <2>3, <2>4, <2>5
<1> QED BY <1>3, <1>7, <1>8, <1>9

(* The sum over one element is what the function gives there. *)
LEMMA SumOfOne ==
    ASSUME NEW g, NEW x, g[x] \in Int
    PROVE  SumOf(g, {x}) = g[x]
<1> DEFINE S == {x}
<1>1. IsFiniteSet(S)  BY FS_Singleton
<1>2. x \in S /\ S \ {x} = {} /\ \A y \in S : g[y] \in Int  OBVIOUS
<1> HIDE DEF S
<1>3. SumOf(g, {}) = 0 /\ SumOf(g, S) = g[x] + SumOf(g, S \ {x})  BY <1>1, <1>2, SumTakesOut
<1>4. SumOf(g, S) = g[x] + 0  BY <1>2, <1>3
<1>5. g[x] + 0 = g[x]  OBVIOUS
<1> QED  BY <1>4, <1>5 DEF S

LEMMA SumIsInt ==
    ASSUME NEW g, NEW S, IsFiniteSet(S), \A x \in S : g[x] \in Int
    PROVE  SumOf(g, S) \in Int /\ SumOf(g, {}) = 0
BY SumTakesOut

LEMMA SumEqual ==
    ASSUME NEW g, NEW h, NEW S, IsFiniteSet(S), \A x \in S : g[x] \in Int /\ g[x] = h[x]
    PROVE  SumOf(g, S) = SumOf(h, S)
<1> DEFINE F == {s \in SUBSET S : SumOf(g, s) # SumOf(h, s)}
<1>1. SUFFICES ASSUME F # {} PROVE FALSE
  <2>1. S \in SUBSET S OBVIOUS
  <2> QED BY <2>1
<1>2. \A s \in F : s \in SUBSET S /\ IsFiniteSet(s)
  BY FS_Subset
<1>3. PICK s \in F : \A t \in F : t \subseteq s => t = s
  <2> HIDE DEF F
  <2> QED BY <1>1, <1>2, Smallest
<1>4. IsFiniteSet(s) /\ s \in SUBSET S
  BY <1>2
<1>5. SumOf(g, {}) = 0 /\ SumOf(h, {}) = 0
  BY SumUnfolds, FS_EmptySet
<1>6. PICK x \in s : TRUE
  <2>1. {} \notin F
    BY <1>5
  <2> HIDE DEF F
  <2> QED BY <1>3, <2>1
<1> DEFINE t == s \ {x}
<1>7. SumOf(g, s) = g[x] + SumOf(g, t) /\ SumOf(h, s) = h[x] + SumOf(h, t)
  <2>1. \A y \in s : g[y] \in Int
    BY <1>4
  <2>2. \A y \in s : h[y] \in Int
    BY <1>4
  <2>3. SumOf(g, s) = g[x] + SumOf(g, t)
    BY <1>4, <2>1, SumTakesOut
  <2>4. SumOf(h, s) = h[x] + SumOf(h, t)
    BY <1>4, <2>2, SumTakesOut
  <2> QED BY <2>3, <2>4
<1>8. SumOf(g, t) = SumOf(h, t)
  <2>1. t \in SUBSET S /\ t \subseteq s /\ t # s
    BY <1>4
  <2> HIDE DEF t
  <2> QED BY <1>3, <2>1
<1> QED BY <1>3, <1>4, <1>7, <1>8

LEMMA SumDisjoint ==
    ASSUME NEW g, NEW S, NEW T, IsFiniteSet(S), IsFiniteSet(T), S \cap T = {},
           \A x \in S \cup T : g[x] \in Int
    PROVE  SumOf(g, S \cup T) = SumOf(g, S) + SumOf(g, T)
<1> DEFINE F == {s \in SUBSET T : SumOf(g, S \cup s) # SumOf(g, S) + SumOf(g, s)}
<1>1. SUFFICES ASSUME F # {} PROVE FALSE
  <2>1. T \in SUBSET T OBVIOUS
  <2> QED BY <2>1
<1>2. \A s \in F : s \in SUBSET T /\ IsFiniteSet(s)
  BY FS_Subset
<1>3. PICK s \in F : \A t \in F : t \subseteq s => t = s
  <2> HIDE DEF F
  <2> QED BY <1>1, <1>2, Smallest
<1>4. IsFiniteSet(s) /\ s \in SUBSET T
  BY <1>2
<1>5. SumOf(g, S) \in Int /\ SumOf(g, {}) = 0
  BY SumTakesOut
<1>6. PICK x \in s : TRUE
  <2>1. {} \notin F
    <3>1. S \cup {} = S
      OBVIOUS
    <3> QED BY <1>5, <3>1
  <2> HIDE DEF F
  <2> QED BY <1>3, <2>1
<1> DEFINE t == s \ {x}
<1>7. SumOf(g, s) = g[x] + SumOf(g, t) /\ SumOf(g, t) \in Int /\ g[x] \in Int
  <2>1. \A y \in s : g[y] \in Int
    BY <1>4
  <2>2. IsFiniteSet(t) /\ \A y \in t : g[y] \in Int
    BY <1>4, FS_Subset
  <2> QED BY <1>4, <2>1, <2>2, SumTakesOut
<1>8. SumOf(g, S \cup s) = g[x] + SumOf(g, S \cup t)
  <2>1. IsFiniteSet(S \cup s) /\ x \in S \cup s
    BY <1>4, FS_Union
  <2>2. \A y \in S \cup s : g[y] \in Int
    BY <1>4
  <2>3. (S \cup s) \ {x} = S \cup t
    BY <1>4
  <2> HIDE DEF t
  <2> QED BY <2>1, <2>2, <2>3, SumTakesOut
<1>9. SumOf(g, S \cup t) = SumOf(g, S) + SumOf(g, t)
  <2>1. t \in SUBSET T /\ t \subseteq s /\ t # s
    BY <1>4
  <2> HIDE DEF t
  <2> QED BY <1>3, <2>1
<1> HIDE DEF t
<1>10. SumOf(g, S \cup s) = SumOf(g, S) + SumOf(g, s)
  BY <1>5, <1>7, <1>8, <1>9
<1> QED BY <1>3, <1>10

(* What is in both is counted twice. *)
LEMMA SumOverlap ==
    ASSUME NEW g, NEW S, NEW T, IsFiniteSet(S), IsFiniteSet(T),
           \A x \in S \cup T : g[x] \in Int
    PROVE  SumOf(g, S) + SumOf(g, T) = SumOf(g, S \cup T) + SumOf(g, S \cap T)
<1> DEFINE A == S \ T
           B == T \ S
           C == S \cap T
<1>1. IsFiniteSet(A) /\ IsFiniteSet(B) /\ IsFiniteSet(C)
  BY FS_Subset
<1>2. /\ \A x \in A : g[x] \in Int
      /\ \A x \in B : g[x] \in Int
      /\ \A x \in C : g[x] \in Int
  OBVIOUS
<1>3. A \cap C = {} /\ B \cap C = {} /\ S \cap B = {} /\ S = A \cup C /\ T = B \cup C /\ S \cup T = S \cup B
  OBVIOUS
<1>4. /\ \A x \in A \cup C : g[x] \in Int
      /\ \A x \in B \cup C : g[x] \in Int
      /\ \A x \in S \cup B : g[x] \in Int
  OBVIOUS
<1> HIDE DEF A, B, C
<1>5. SumOf(g, S) = SumOf(g, A) + SumOf(g, C)
  BY <1>1, <1>3, <1>4, SumDisjoint
<1>6. SumOf(g, T) = SumOf(g, B) + SumOf(g, C)
  BY <1>1, <1>3, <1>4, SumDisjoint
<1>7. SumOf(g, S \cup T) = SumOf(g, S) + SumOf(g, B)
  BY <1>1, <1>3, <1>4, SumDisjoint
<1>8. SumOf(g, A) \in Int /\ SumOf(g, B) \in Int /\ SumOf(g, C) \in Int
  BY <1>1, <1>2, SumTakesOut
<1> QED BY <1>5, <1>6, <1>7, <1>8 DEF C

LEMMA SumPlus ==
    ASSUME NEW g, NEW h, NEW k, NEW S, IsFiniteSet(S),
           \A x \in S : g[x] \in Int /\ h[x] \in Int /\ k[x] = g[x] + h[x]
    PROVE  SumOf(k, S) = SumOf(g, S) + SumOf(h, S)
<1> DEFINE F == {s \in SUBSET S : SumOf(k, s) # SumOf(g, s) + SumOf(h, s)}
<1>1. SUFFICES ASSUME F # {} PROVE FALSE
  <2>1. S \in SUBSET S OBVIOUS
  <2> QED BY <2>1
<1>2. \A s \in F : s \in SUBSET S /\ IsFiniteSet(s)
  BY FS_Subset
<1>3. PICK s \in F : \A t \in F : t \subseteq s => t = s
  <2> HIDE DEF F
  <2> QED BY <1>1, <1>2, Smallest
<1>4. IsFiniteSet(s) /\ s \in SUBSET S
  BY <1>2
<1>5. SumOf(g, {}) = 0 /\ SumOf(h, {}) = 0 /\ SumOf(k, {}) = 0
  BY SumUnfolds, FS_EmptySet
<1>6. PICK x \in s : TRUE
  <2>1. {} \notin F
    BY <1>5
  <2> HIDE DEF F
  <2> QED BY <1>3, <2>1
<1> DEFINE t == s \ {x}
<1>7. /\ \A y \in s : g[y] \in Int /\ h[y] \in Int /\ k[y] \in Int
      /\ \A y \in t : g[y] \in Int /\ h[y] \in Int /\ k[y] \in Int
      /\ IsFiniteSet(t)
  BY <1>4, FS_Subset
<1>8. /\ SumOf(g, s) = g[x] + SumOf(g, t) /\ SumOf(h, s) = h[x] + SumOf(h, t)
      /\ SumOf(k, s) = k[x] + SumOf(k, t)
  BY <1>4, <1>7, SumTakesOut
<1>9. SumOf(g, t) \in Int /\ SumOf(h, t) \in Int
  <2> HIDE DEF t
  <2> QED BY <1>7, SumTakesOut
<1>10. SumOf(k, t) = SumOf(g, t) + SumOf(h, t)
  <2>1. t \in SUBSET S /\ t \subseteq s /\ t # s
    BY <1>4
  <2> HIDE DEF t
  <2> QED BY <1>3, <2>1
<1>11. g[x] \in Int /\ h[x] \in Int /\ k[x] = g[x] + h[x]
  BY <1>4
<1> HIDE DEF t
<1>12. SumOf(k, s) = SumOf(g, s) + SumOf(h, s)
  BY <1>8, <1>9, <1>10, <1>11
<1> QED BY <1>3, <1>12

LEMMA SumAtMost ==
    ASSUME NEW g, NEW h, NEW S, IsFiniteSet(S),
           \A x \in S : g[x] \in Int /\ h[x] \in Int /\ g[x] <= h[x]
    PROVE  SumOf(g, S) <= SumOf(h, S)
<1> DEFINE F == {s \in SUBSET S : ~(SumOf(g, s) <= SumOf(h, s))}
<1>1. SUFFICES ASSUME F # {} PROVE FALSE
  <2>1. S \in SUBSET S OBVIOUS
  <2> QED BY <2>1
<1>2. \A s \in F : s \in SUBSET S /\ IsFiniteSet(s)
  BY FS_Subset
<1>3. PICK s \in F : \A t \in F : t \subseteq s => t = s
  <2> HIDE DEF F
  <2> QED BY <1>1, <1>2, Smallest
<1>4. IsFiniteSet(s) /\ s \in SUBSET S
  BY <1>2
<1>5. SumOf(g, {}) = 0 /\ SumOf(h, {}) = 0
  BY SumUnfolds, FS_EmptySet
<1>6. PICK x \in s : TRUE
  <2>1. {} \notin F
    BY <1>5
  <2> HIDE DEF F
  <2> QED BY <1>3, <2>1
<1> DEFINE t == s \ {x}
<1>7. /\ \A y \in s : g[y] \in Int /\ h[y] \in Int
      /\ \A y \in t : g[y] \in Int /\ h[y] \in Int
      /\ IsFiniteSet(t)
  BY <1>4, FS_Subset
<1>8. SumOf(g, s) = g[x] + SumOf(g, t) /\ SumOf(h, s) = h[x] + SumOf(h, t)
  BY <1>4, <1>7, SumTakesOut
<1>9. SumOf(g, t) \in Int /\ SumOf(h, t) \in Int
  <2> HIDE DEF t
  <2> QED BY <1>7, SumTakesOut
<1>10. SumOf(g, t) <= SumOf(h, t)
  <2>1. t \in SUBSET S /\ t \subseteq s /\ t # s
    BY <1>4
  <2> HIDE DEF t
  <2> QED BY <1>3, <2>1
<1>11. g[x] \in Int /\ h[x] \in Int /\ g[x] <= h[x]
  BY <1>4
<1> HIDE DEF t
<1>12. SumOf(g, s) <= SumOf(h, s)
  BY <1>8, <1>9, <1>10, <1>11
<1> QED BY <1>3, <1>12

LEMMA SumOfZeros ==
    ASSUME NEW g, NEW S, IsFiniteSet(S), \A x \in S : g[x] = 0
    PROVE  SumOf(g, S) = 0
<1>1. \A x \in S : g[x] \in Int /\ g[x] \in Int /\ g[x] = g[x] + g[x]
  OBVIOUS
<1>2. SumOf(g, S) = SumOf(g, S) + SumOf(g, S)
  BY <1>1, SumPlus
<1>3. PICK n \in Int : n = SumOf(g, S)
  BY <1>1, SumTakesOut
<1>4. n = n + n
  BY <1>2, <1>3
<1>5. n = 0
  BY <1>4
<1> QED BY <1>3, <1>5

LEMMA SumOfPart ==
    ASSUME NEW g, NEW T, NEW S \in SUBSET T, IsFiniteSet(T), \A x \in T : g[x] \in Int, \A x \in T \ S : g[x] = 0
    PROVE  SumOf(g, S) = SumOf(g, T)
<1> DEFINE R == T \ S
<1>1. IsFiniteSet(S) /\ IsFiniteSet(R)
  BY FS_Subset
<1>2. S \cap R = {} /\ S \cup R = T
  OBVIOUS
<1>3. SumOf(g, R) = 0
  BY <1>1, SumOfZeros
<1>4. /\ \A x \in S \cup R : g[x] \in Int
      /\ \A x \in S : g[x] \in Int
  OBVIOUS
<1> HIDE DEF R
<1>5. SumOf(g, S \cup R) = SumOf(g, S) + SumOf(g, R)
  BY <1>1, <1>2, <1>4, SumDisjoint
<1>6. PICK n \in Int : n = SumOf(g, S)
  BY <1>1, <1>4, SumTakesOut
<1>7. SumOf(g, S \cup R) = n + 0
  BY <1>3, <1>5, <1>6
<1>8. SumOf(g, T) = n + 0
  BY <1>2, <1>7
<1> QED BY <1>6, <1>8

LEMMA SumOfMore ==
    ASSUME NEW g, NEW T, NEW S \in SUBSET T, IsFiniteSet(T), \A x \in T : g[x] \in Nat
    PROVE  SumOf(g, S) <= SumOf(g, T)
<1> DEFINE R == T \ S
           z == [x \in R |-> 0]
<1>1. IsFiniteSet(S) /\ IsFiniteSet(R) /\ S \cap R = {} /\ S \cup R = T
  BY FS_Subset
<1>2. \A x \in R : z[x] = 0 /\ z[x] \in Int /\ g[x] \in Int /\ z[x] <= g[x]
  OBVIOUS
<1>3. (\A x \in S : g[x] \in Int) /\ (\A x \in S \cup R : g[x] \in Int)
  OBVIOUS
<1> HIDE DEF R, z
<1>4. SumOf(z, R) = 0
  BY <1>1, <1>2, SumOfZeros
<1>5. SumOf(z, R) <= SumOf(g, R)
  BY <1>1, <1>2, SumAtMost
<1>6. SumOf(g, T) = SumOf(g, S) + SumOf(g, R)
  BY <1>1, <1>3, SumDisjoint
<1>7. SumOf(g, S) \in Int /\ SumOf(g, R) \in Int
  BY <1>1, <1>2, <1>3, SumTakesOut
<1> QED BY <1>4, <1>5, <1>6, <1>7

(* A table of numbers sums the same by rows and by columns. *)
LEMMA SumSwaps ==
    ASSUME NEW B, NEW C, IsFiniteSet(B), IsFiniteSet(C), NEW m, \A i \in B : \A c \in C : m[i][c] \in Int
    PROVE  SumOf([i \in B |-> SumOf(m[i], C)], B) = SumOf([c \in C |-> SumOf([i \in B |-> m[i][c]], B)], C)
<1> DEFINE rows == [i \in B |-> SumOf(m[i], C)]
           col == [c \in C |-> [i \in B |-> m[i][c]]]
           cols(s) == [c \in C |-> SumOf(col[c], s)]
           F == {s \in SUBSET B : SumOf(rows, s) # SumOf(cols(s), C)}
<1>1. SUFFICES ASSUME F # {} PROVE FALSE
  <2>1. B \in SUBSET B /\ cols(B) = [c \in C |-> SumOf([i \in B |-> m[i][c]], B)]
    OBVIOUS
  <2> QED BY <2>1
<1>2. \A i \in B : rows[i] = SumOf(m[i], C) /\ rows[i] \in Int
  BY SumTakesOut
<1>3. \A c \in C : \A i \in B : col[c][i] = m[i][c] /\ col[c][i] \in Int
  OBVIOUS
<1>4. \A s \in SUBSET B : IsFiniteSet(s)
  BY FS_Subset
<1>5. \A s \in SUBSET B : \A c \in C : cols(s)[c] = SumOf(col[c], s)
  OBVIOUS
<1>6. \A s \in SUBSET B : s \notin F => SumOf(rows, s) = SumOf(cols(s), C)
  OBVIOUS
<1>7. F \in SUBSET SUBSET B /\ \A s \in F : SumOf(rows, s) # SumOf(cols(s), C)
  OBVIOUS
<1> HIDE DEF F, rows, col, cols
<1>8. \A s \in SUBSET B : \A c \in C : cols(s)[c] \in Int
  BY <1>3, <1>4, <1>5, SumTakesOut
<1>9. PICK s \in F : \A t \in F : t \subseteq s => t = s
  BY <1>1, <1>4, <1>7, Smallest
<1>10. s \in SUBSET B /\ IsFiniteSet(s)
  BY <1>4, <1>7
<1>11. s # {}
  <2>1. SumOf(rows, {}) = 0 /\ \A c \in C : SumOf(col[c], {}) = 0
    BY SumUnfolds, FS_EmptySet
  <2>2. \A c \in C : cols({})[c] = 0
    BY <1>5, <2>1
  <2>3. SumOf(cols({}), C) = 0
    BY <2>2, SumOfZeros
  <2> QED BY <1>7, <1>9, <2>1, <2>3
<1>12. PICK x \in s : TRUE
  BY <1>11
<1> DEFINE t == s \ {x}
<1>13. t \in SUBSET B /\ SumOf(rows, t) = SumOf(cols(t), C)
  <2>1. t \in SUBSET B /\ t \subseteq s /\ t # s
    BY <1>10
  <2>2. t \notin F
    BY <1>9, <2>1
  <2> HIDE DEF t
  <2> QED BY <1>6, <2>1, <2>2
<1>14. SumOf(rows, s) = rows[x] + SumOf(rows, t)
  <2>1. \A i \in s : rows[i] \in Int
    BY <1>2, <1>10
  <2> QED BY <1>10, <2>1, SumTakesOut
<1>15. \A c \in C : cols(s)[c] = m[x][c] + cols(t)[c] /\ m[x][c] \in Int /\ cols(t)[c] \in Int
  <2> TAKE c \in C
  <2>1. \A i \in s : col[c][i] \in Int
    BY <1>3, <1>10
  <2>2. SumOf(col[c], s) = col[c][x] + SumOf(col[c], t)
    BY <1>10, <2>1, SumTakesOut
  <2>3. x \in B /\ col[c][x] = m[x][c] /\ col[c][x] \in Int
    BY <1>3, <1>10
  <2> HIDE DEF t
  <2> QED BY <1>5, <1>8, <1>10, <1>13, <2>2, <2>3
<1>16. SumOf(cols(s), C) = SumOf(m[x], C) + SumOf(cols(t), C)
  <2> HIDE DEF t
  <2> QED BY <1>15, SumPlus
<1>17. rows[x] = SumOf(m[x], C)
  BY <1>2, <1>10
<1> HIDE DEF t
<1> QED BY <1>7, <1>9, <1>13, <1>14, <1>16, <1>17

-----------------------------------------------------------------------------
(* Sums over the pairs of elements of a set that follow one another. *)

Pairs(S) == {p \in S \X S : p[1] < p[2] /\ \A k \in S : ~(p[1] < k /\ k < p[2])}

LEMMA PairFacts ==
    ASSUME NEW S, NEW p \in Pairs(S)
    PROVE  /\ p[1] \in S /\ p[2] \in S /\ p = <<p[1], p[2]>> /\ p[1] < p[2]
           /\ \A k \in S : ~(p[1] < k /\ k < p[2])
<1>1. p \in S \X S  BY DEF Pairs
<1>2. p[1] \in S /\ p[2] \in S /\ p = <<p[1], p[2]>>  BY <1>1
<1> QED  BY <1>2 DEF Pairs

LEMMA PairsOfOne ==
    ASSUME NEW m \in Int
    PROVE  Pairs({m}) = {}
BY DEF Pairs

LEMMA PairsAreFinite ==
    ASSUME NEW S, IsFiniteSet(S)
    PROVE  IsFiniteSet(Pairs(S))
<1>1. IsFiniteSet(S \X S)  BY FS_Product
<1>2. Pairs(S) \subseteq S \X S  BY DEF Pairs
<1> QED  BY <1>1, <1>2, FS_Subset

LEMMA PairsFromTheTop ==
    ASSUME NEW S, S \subseteq Int, NEW m \in S, NEW k \in S, k < m, \A y \in S : y = m \/ y <= k
    PROVE  Pairs(S) = Pairs(S \ {m}) \cup {<<k, m>>} /\ <<k, m>> \notin Pairs(S \ {m})
<1> DEFINE T == S \ {m}
<1>1. m \in Int /\ k \in Int /\ \A y \in S : y \in Int  OBVIOUS
<1>2. ASSUME NEW p \in Pairs(S)
      PROVE  p \in Pairs(T) \/ p = <<k, m>>
  <2>1. PICK a \in S, b \in S : p = <<a, b>>  BY PairFacts
  <2>2. a < b /\ \A y \in S : ~(a < y /\ y < b)  BY <2>1 DEF Pairs
  <2>3. a # m  BY <1>1, <2>2
  <2>4. CASE b # m
    <3>1. a \in T /\ b \in T  BY <2>3, <2>4
    <3> QED  BY <2>1, <2>2, <3>1 DEF Pairs
  <2>5. CASE b = m
    <3>1. a <= k /\ ~(a < k)  BY <1>1, <2>2, <2>3, <2>5
    <3> QED  BY <1>1, <2>1, <2>5, <3>1
  <2> QED  BY <2>4, <2>5
<1>3. ASSUME NEW p \in Pairs(T)
      PROVE  p \in Pairs(S)
  <2>1. PICK a \in T, b \in T : p = <<a, b>>  BY PairFacts
  <2>2. a < b /\ \A y \in T : ~(a < y /\ y < b)  BY <2>1 DEF Pairs
  <2>3. b <= k /\ ~(m < b)  BY <1>1
  <2>4. \A y \in S : ~(a < y /\ y < b)  BY <1>1, <2>2, <2>3
  <2> QED  BY <2>1, <2>2, <2>4 DEF Pairs
<1>4. <<k, m>> \in Pairs(S)
  <2>1. \A y \in S : ~(k < y /\ y < m)  BY <1>1
  <2> QED  BY <2>1 DEF Pairs
<1>5. <<k, m>> \notin Pairs(T)  BY DEF Pairs
<1> QED  BY <1>2, <1>3, <1>4, <1>5

(* A set of sets of numbers has one of a single number, or one that is not *)
(* in it any more without its greatest.                                    *)
LEMMA FromTheTop ==
    ASSUME NEW F, F # {}, \A s \in F : IsFiniteSet(s) /\ s \subseteq Int /\ s # {}
    PROVE  \E s \in F : \/ \E m \in s : s = {m}
                        \/ \E m \in s : \E k \in s : /\ k < m /\ \A y \in s : y = m \/ y <= k
                                                     /\ s \ {m} \notin F
<1>1. PICK s \in F : \A t \in F : t \subseteq s => t = s
  BY Smallest
<1>2. PICK m \in s : m = Max(s) /\ \A y \in s : y <= m
  BY MaxExists
<1> DEFINE T == s \ {m}
<1>3. T \notin F
  <2>1. T \subseteq s /\ T # s  OBVIOUS
  <2> QED  BY <1>1, <2>1
<1>4. CASE T = {}
  <2>1. s = {m}  BY <1>4
  <2> QED  BY <2>1
<1>5. CASE T # {}
  <2>1. IsFiniteSet(T) /\ T \subseteq Int  BY FS_Subset
  <2>2. PICK k \in T : \A y \in T : y <= k
    <3> HIDE DEF T
    <3> QED  BY <1>5, <2>1, MaxExists
  <2>3. k \in s /\ k # m /\ k \in Int /\ m \in Int /\ k <= m  BY <1>2
  <2>4. k < m  BY <2>3
  <2>5. \A y \in s : y = m \/ y <= k  BY <2>2
  <2> QED  BY <1>3, <2>3, <2>4, <2>5
<1> QED  BY <1>4, <1>5

(* The sum of differences is the difference of the ends. *)
LEMMA Telescope ==
    ASSUME NEW S, S \subseteq Int, IsFiniteSet(S), S # {}, NEW f, \A x \in S : f[x] \in Int
    PROVE  SumOf([p \in S \X S |-> f[p[2]] - f[p[1]]], Pairs(S)) = f[Max(S)] - f[Min(S)]
<1> DEFINE g == [p \in S \X S |-> f[p[2]] - f[p[1]]]
           F == {s \in SUBSET S : s # {} /\ SumOf(g, Pairs(s)) # f[Max(s)] - f[Min(s)]}
<1>1. SUFFICES ASSUME F # {} PROVE FALSE
  OBVIOUS
<1>2. \A s \in F : s \in SUBSET S /\ s # {}  OBVIOUS
<1>3. \A s \in F : IsFiniteSet(s) /\ s \subseteq Int /\ s # {}
  <2> HIDE DEF F
  <2> QED  BY <1>2, FS_Subset
<1>4. PICK s \in F : \/ \E m \in s : s = {m}
                     \/ \E m \in s : \E k \in s : /\ k < m /\ \A y \in s : y = m \/ y <= k
                                                  /\ s \ {m} \notin F
  <2> HIDE DEF F
  <2> QED  BY <1>1, <1>3, FromTheTop
<1>5. ASSUME NEW m \in s, s = {m} PROVE FALSE
  <2>1. m \in Int /\ f[m] \in Int  BY <1>2, <1>3
  <2>2. Max(s) = m /\ Min(s) = m
    <3>1. m <= m  BY <2>1
    <3>2. \A y \in s : y <= m /\ m <= y  BY <1>5, <3>1
    <3>3. s \subseteq Int  BY <1>3
    <3> QED  BY <3>2, <3>3, MaxIs, MinIs
  <2>3. Pairs(s) = {}  BY <1>5, <2>1, PairsOfOne
  <2>4. SumOf(g, {}) = 0  BY SumUnfolds, FS_EmptySet
  <2>5. SumOf(g, Pairs(s)) = 0 /\ f[Max(s)] - f[Min(s)] = 0
    <3> HIDE DEF g
    <3> QED  BY <2>1, <2>2, <2>3, <2>4
  <2> QED  BY <2>5
<1>6. ASSUME NEW m \in s, NEW k \in s, k < m, \A y \in s : y = m \/ y <= k, s \ {m} \notin F
      PROVE  FALSE
  <2> DEFINE T == s \ {m}
  <2>1. s \subseteq Int /\ s \subseteq S /\ IsFiniteSet(s) /\ IsFiniteSet(T) /\ T \subseteq Int /\ T \subseteq S /\ T # {}
        /\ m \in Int /\ k \in Int /\ k \in T
    <3>1. s \subseteq Int /\ s \subseteq S /\ IsFiniteSet(s) /\ m \in Int /\ k \in Int
      <4> HIDE DEF F
      <4> QED  BY <1>2, <1>3
    <3>2. k \in T  BY <1>6, <3>1
    <3>3. IsFiniteSet(T)  BY <3>1, FS_Subset
    <3> HIDE DEF F
    <3> QED  BY <3>1, <3>2, <3>3
  <2>2. Max(s) = m
    <3>1. \A y \in s : y <= m  BY <1>6, <2>1
    <3> QED  BY <2>1, <3>1, MaxIs
  <2>3. Max(T) = k
    <3>1. \A y \in T : y <= k  BY <1>6
    <3> HIDE DEF T
    <3> QED  BY <2>1, <3>1, MaxIs
  <2>4. Min(s) = Min(T)
    <3>1. PICK n \in T : n = Min(T) /\ \A y \in T : n <= y
      <4> HIDE DEF T
      <4> QED  BY <2>1, MinExists
    <3>2. n \in s /\ n <= k  BY <2>1, <3>1
    <3>3. \A y \in s : n <= y
      <4>1. n \in Int /\ n <= m  BY <1>6, <2>1, <3>2
      <4> QED  BY <3>1, <4>1
    <3> QED  BY <2>1, <3>1, <3>2, <3>3, MinIs
  <2>5. Pairs(s) = Pairs(T) \cup {<<k, m>>} /\ <<k, m>> \notin Pairs(T)
    BY <1>6, <2>1, PairsFromTheTop
  <2>6. IsFiniteSet(Pairs(s)) /\ \A p \in Pairs(s) : p \in s \X s
    BY <2>1, PairsAreFinite DEF Pairs
  <2>7. \A p \in Pairs(s) : g[p] \in Int
    <3>1. \A p \in s \X s : p \in S \X S /\ f[p[1]] \in Int /\ f[p[2]] \in Int  BY <2>1
    <3> QED  BY <2>6, <3>1
  <2>8. g[<<k, m>>] = f[m] - f[k]  BY <2>1
  <2>9. SumOf(g, Pairs(s)) = g[<<k, m>>] + SumOf(g, Pairs(T))
    <3>1. Pairs(s) \ {<<k, m>>} = Pairs(T)  BY <2>5
    <3>2. <<k, m>> \in Pairs(s)  BY <2>5
    <3> HIDE DEF g, T
    <3> QED  BY <2>6, <2>7, <3>1, <3>2, SumTakesOut
  <2>10. SumOf(g, Pairs(T)) = f[k] - f[Min(T)]
    BY <1>6, <2>1, <2>3
  <2>11. f[m] \in Int /\ f[k] \in Int /\ f[Min(T)] \in Int
    <3>1. Min(T) \in T
      <4> HIDE DEF T
      <4> QED  BY <2>1, MinExists
    <3> QED  BY <2>1, <3>1
  <2>12. SumOf(g, Pairs(s)) = f[Max(s)] - f[Min(s)]
    <3> HIDE DEF g, T
    <3> QED  BY <2>2, <2>4, <2>8, <2>9, <2>10, <2>11
  <2> QED  BY <2>12
<1> QED  BY <1>4, <1>5, <1>6

(* What is at most the differences sums to at most the difference of the   *)
(* ends, and what is them to it.                                           *)
LEMMA AtMostTheEnds ==
    ASSUME NEW S, S \subseteq Int, IsFiniteSet(S), S # {}, NEW f, NEW g,
           \A x \in S : f[x] \in Int,
           \A p \in Pairs(S) : g[p] \in Int /\ g[p] <= f[p[2]] - f[p[1]]
    PROVE  /\ SumOf(g, Pairs(S)) <= f[Max(S)] - f[Min(S)]
           /\ (\A p \in Pairs(S) : g[p] = f[p[2]] - f[p[1]]) => SumOf(g, Pairs(S)) = f[Max(S)] - f[Min(S)]
<1> DEFINE h == [p \in S \X S |-> f[p[2]] - f[p[1]]]
<1>1. \A p \in Pairs(S) : h[p] \in Int /\ h[p] = f[p[2]] - f[p[1]]
  <2> TAKE p \in Pairs(S)
  <2>1. p[1] \in S /\ p[2] \in S /\ p = <<p[1], p[2]>>  BY PairFacts
  <2>2. p \in S \X S  BY <2>1
  <2>3. f[p[1]] \in Int /\ f[p[2]] \in Int  BY <2>1
  <2> QED  BY <2>2, <2>3
<1>2. SumOf(h, Pairs(S)) = f[Max(S)] - f[Min(S)]  BY Telescope
<1>3. IsFiniteSet(Pairs(S))  BY PairsAreFinite
<1> HIDE DEF h
<1>4. SumOf(g, Pairs(S)) <= SumOf(h, Pairs(S))
  <2>1. \A p \in Pairs(S) : g[p] \in Int /\ h[p] \in Int /\ g[p] <= h[p]  BY <1>1
  <2> QED  BY <1>3, <2>1, SumAtMost
<1>5. ASSUME \A p \in Pairs(S) : g[p] = f[p[2]] - f[p[1]]
      PROVE  SumOf(g, Pairs(S)) = SumOf(h, Pairs(S))
  <2>1. \A p \in Pairs(S) : g[p] \in Int /\ g[p] = h[p]  BY <1>1, <1>5
  <2> QED  BY <1>3, <2>1, SumEqual
<1> QED  BY <1>2, <1>4, <1>5

(* A sum over pairs that depends on their ends only. *)
LEMMA SumByEnds ==
    ASSUME NEW S, S \subseteq Int, IsFiniteSet(S), S # {}, NEW g, NEW h,
           \A p \in Pairs(S) : g[p] \in Int /\ h[p[2]] = g[p]
    PROVE  SumOf(g, Pairs(S)) = SumOf(h, S \ {Min(S)})
<1> DEFINE F == {s \in SUBSET S : s # {} /\ Pairs(s) \subseteq Pairs(S) /\ SumOf(g, Pairs(s)) # SumOf(h, s \ {Min(s)})}
<1>1. SUFFICES ASSUME F # {} PROVE FALSE
  OBVIOUS
<1>2. \A s \in F : s \in SUBSET S /\ s # {} /\ Pairs(s) \subseteq Pairs(S) /\ SumOf(g, Pairs(s)) # SumOf(h, s \ {Min(s)})
  OBVIOUS
<1>2a. \A s \in SUBSET S : s # {} /\ Pairs(s) \subseteq Pairs(S) /\ s \notin F => SumOf(g, Pairs(s)) = SumOf(h, s \ {Min(s)})
  OBVIOUS
<1> HIDE DEF F
<1>3. \A s \in F : IsFiniteSet(s) /\ s \subseteq Int /\ s # {}
  BY <1>2, FS_Subset
<1>4. PICK s \in F : \/ \E m \in s : s = {m}
                     \/ \E m \in s : \E k \in s : /\ k < m /\ \A y \in s : y = m \/ y <= k
                                                  /\ s \ {m} \notin F
  BY <1>1, <1>3, FromTheTop
<1>5. SumOf(g, {}) = 0 /\ SumOf(h, {}) = 0  BY SumUnfolds, FS_EmptySet
<1>6. ASSUME NEW m \in s, s = {m} PROVE FALSE
  <2>1. m \in Int  BY <1>3
  <2>2. Min(s) = m
    <3>1. m <= m  BY <2>1
    <3>2. \A y \in s : m <= y  BY <1>6, <3>1
    <3>3. s \subseteq Int  BY <1>3
    <3> QED  BY <3>2, <3>3, MinIs
  <2>3. Pairs(s) = {}  BY <1>6, <2>1, PairsOfOne
  <2>4. s \ {Min(s)} = {}  BY <1>6, <2>2
  <2> QED  BY <1>2, <1>5, <2>3, <2>4
<1>7. ASSUME NEW m \in s, NEW k \in s, k < m, \A y \in s : y = m \/ y <= k, s \ {m} \notin F
      PROVE  FALSE
  <2> DEFINE T == s \ {m}
  <2>1. s \subseteq Int /\ s \in SUBSET S /\ IsFiniteSet(s) /\ m \in Int /\ k \in Int
        /\ Pairs(s) \subseteq Pairs(S)
    BY <1>2, <1>3
  <2>2. k \in T /\ T \subseteq Int /\ T \in SUBSET S  BY <1>7, <2>1
  <2>3. IsFiniteSet(T)  BY <2>1, FS_Subset
  <2>4. PICK n \in T : n = Min(T) /\ \A y \in T : n <= y
    <3> HIDE DEF T
    <3> QED  BY <2>2, <2>3, MinExists
  <2>5. n \in s /\ n <= k /\ n < m /\ n \in Int
    <3>1. n \in Int /\ n <= k  BY <2>1, <2>2, <2>4
    <3> QED  BY <1>7, <2>1, <3>1
  <2>6. Min(s) = n
    <3>1. \A y \in s : n <= y
      <4>1. n <= m  BY <2>1, <2>5
      <4> QED  BY <2>4, <4>1
    <3> QED  BY <2>1, <2>5, <3>1, MinIs
  <2>7. Pairs(s) = Pairs(T) \cup {<<k, m>>} /\ <<k, m>> \notin Pairs(T)
    BY <1>7, <2>1, PairsFromTheTop
  <2>8. SumOf(g, Pairs(T)) = SumOf(h, T \ {n})
    <3>1. Pairs(T) \subseteq Pairs(S) /\ T # {}  BY <2>1, <2>2, <2>7
    <3>2. T \notin F  BY <1>7
    <3> HIDE DEF T
    <3> QED  BY <1>2a, <2>2, <2>4, <3>1, <3>2
  <2>9. SumOf(g, Pairs(s)) = g[<<k, m>>] + SumOf(g, Pairs(T))
    <3>1. Pairs(s) \ {<<k, m>>} = Pairs(T) /\ <<k, m>> \in Pairs(s)  BY <2>7
    <3>2. IsFiniteSet(Pairs(s)) /\ \A p \in Pairs(s) : g[p] \in Int  BY <2>1, PairsAreFinite
    <3> HIDE DEF T
    <3> QED  BY <3>1, <3>2, SumTakesOut
  <2>10. h[m] = g[<<k, m>>] /\ h[m] \in Int
    <3>1. <<k, m>> \in Pairs(S)  BY <2>1, <2>7
    <3>2. g[<<k, m>>] \in Int /\ h[<<k, m>>[2]] = g[<<k, m>>]  BY <3>1
    <3> QED  BY <3>2
  <2>11. \A y \in s \ {n} : h[y] \in Int
    <3>1. ASSUME NEW y \in s, y # n
          PROVE  \E x \in s : <<x, y>> \in Pairs(s)
      <4> DEFINE B == {x \in s : x < y}
      <4>1. n < y
        <5>1. n <= y /\ n \in Int /\ y \in Int  BY <2>1, <2>4, <2>5, <3>1
        <5> QED  BY <3>1, <5>1
      <4>2. n \in B /\ B \subseteq Int /\ IsFiniteSet(B)
        <5>1. IsFiniteSet(B)  BY <2>1, FS_Subset
        <5> QED  BY <2>1, <2>5, <4>1, <5>1
      <4>3. PICK x \in B : \A z \in B : z <= x
        <5> HIDE DEF B
        <5> QED  BY <4>2, MaxExists
      <4>4. x \in s /\ x < y  OBVIOUS
      <4>5. \A z \in s : ~(x < z /\ z < y)
        <5> TAKE z \in s
        <5>1. z < y => z <= x  BY <4>3
        <5>2. z \in Int /\ x \in Int  BY <2>1
        <5> QED  BY <5>1, <5>2
      <4> QED  BY <4>4, <4>5 DEF Pairs
    <3> TAKE y \in s \ {n}
    <3>2. PICK x \in s : <<x, y>> \in Pairs(S)  BY <2>1, <3>1
    <3>3. g[<<x, y>>] \in Int /\ h[<<x, y>>[2]] = g[<<x, y>>]  BY <3>2
    <3> QED  BY <3>3
  <2>12. SumOf(h, s \ {n}) = h[m] + SumOf(h, T \ {n})
    <3>1. IsFiniteSet(s \ {n}) /\ m \in s \ {n} /\ (s \ {n}) \ {m} = T \ {n}
      BY <2>1, <2>5, FS_Subset
    <3> HIDE DEF T
    <3> QED  BY <2>11, <3>1, SumTakesOut
  <2>13. SumOf(g, Pairs(s)) = SumOf(h, s \ {n})
    <3> HIDE DEF T
    <3> QED  BY <2>8, <2>9, <2>10, <2>12
  <2> QED  BY <1>2, <2>6, <2>13
<1> QED  BY <1>4, <1>6, <1>7
=============================================================================
