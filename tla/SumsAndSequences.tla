-------------------------- MODULE SumsAndSequences --------------------------
(***************************************************************************)
(* What the proofs use again and again of sequences of any elements, of    *)
(* sums over finite sets and of induction over them.  A sum is defined by  *)
(* a recursion over the subsets of a set; it has exactly one solution on   *)
(* every finite set, and any element can be the one that is taken out.     *)
(***************************************************************************)
EXTENDS Integers, Sequences, FiniteSets, Functions, FiniteSetTheorems, TLAPS

\* A sequence, whatever its elements are.
Sequence(q) == q \in Seq({q[c] : c \in 1..Len(q)})

LEMMA SeqOfItself ==
    ASSUME NEW S, NEW q \in Seq(S)
    PROVE  Sequence(q)
BY DEF Sequence

More(r, q, row) == r = Append(q, row)

Changed(r, q, i, row) == r = [q EXCEPT ![i] = row]

\* A row more, and a row changed.
LEMMA OneMore ==
    ASSUME NEW q, Sequence(q), NEW row, NEW r, More(r, q, row)
    PROVE  /\ Sequence(r) /\ Len(q) \in Nat /\ Len(r) = Len(q) + 1 /\ r[Len(q) + 1] = row
           /\ \A c \in 1..Len(q) : r[c] = q[c]
<1> DEFINE S == {q[c] : c \in 1..Len(q)} \cup {row}
<1>1. q \in Seq(S) /\ Len(q) \in Nat
  BY DEF Sequence
<1>2. row \in S
  OBVIOUS
<1> HIDE DEF S
<1>3. /\ r \in Seq(S) /\ Len(r) = Len(q) + 1 /\ r[Len(q) + 1] = row
      /\ \A c \in 1..Len(q) : r[c] = q[c]
  BY <1>1, <1>2 DEF More
<1> QED BY <1>1, <1>3, SeqOfItself

LEMMA OneChanged ==
    ASSUME NEW q, Sequence(q), NEW row, NEW i \in 1..Len(q), NEW r,
           Changed(r, q, i, row)
    PROVE  /\ Sequence(r) /\ Len(r) = Len(q)
           /\ \A c \in 1..Len(q) : r[c] = IF c = i THEN row ELSE q[c]
<1> DEFINE S == {q[c] : c \in 1..Len(q)} \cup {row}
<1>1. q \in Seq(S) /\ Len(q) \in Nat /\ DOMAIN q = 1..Len(q)
  BY DEF Sequence
<1>2. row \in S
  OBVIOUS
<1> HIDE DEF S
<1>3. r \in Seq(S) /\ Len(r) = Len(q)
  BY <1>1, <1>2 DEF Changed
<1>4. \A c \in 1..Len(q) : r[c] = IF c = i THEN row ELSE q[c]
  BY <1>1 DEF Changed
<1>5. Sequence(r)
  BY <1>3, SeqOfItself
<1> QED BY <1>3, <1>4, <1>5

-----------------------------------------------------------------------------

\* A family of finite sets has a smallest one: induction over subsets.
LEMMA SmallestSet ==
    ASSUME NEW S, IsFiniteSet(S), NEW F, F \subseteq SUBSET S, F # {}
    PROVE  \E s \in F : \A t \in F : t \subseteq s => t = s
<1>1. F \subseteq FiniteSubsetsOf(S)
  BY FS_FiniteSubsetsOfFinite
<1>2. IsWellFoundedOn(StrictSubsetOrdering(S), FiniteSubsetsOf(S))
  BY FS_StrictSubsetOrderingWellFounded
<1>3. PICK s \in F : \A t \in F : <<t, s>> \notin StrictSubsetOrdering(S)
  BY <1>1, <1>2, WFMin
<1>4. ASSUME NEW t \in F, t \subseteq s, t # s PROVE FALSE
  <2>1. <<t, s>> \in StrictSubsetOrdering(S)
    BY <1>4 DEF StrictSubsetOrdering
  <2> QED BY <1>3, <2>1
<1> QED BY <1>3, <1>4

\* The recursion a sum is defined by.
First(s) == CHOOSE x \in s : TRUE

Summing(f, S, g) ==
    g = [s \in SUBSET S |-> IF s = {} THEN 0 ELSE f[First(s)] + g[s \ {First(s)}]]

LEMMA SumDef ==
    ASSUME NEW f, NEW S
    PROVE  SumFunctionOnSet(f, S) = (CHOOSE g : Summing(f, S, g))[S]
BY DEF SumFunctionOnSet, FoldFunctionOnSet, MapThenFoldSet, Summing, First

LEMMA FirstOf == ASSUME NEW s, s # {} PROVE First(s) \in s
BY DEF First

LEMMA SummingOf ==
    ASSUME NEW f, NEW S, NEW g, Summing(f, S, g), NEW s \in SUBSET S
    PROVE  g[s] = IF s = {} THEN 0 ELSE f[First(s)] + g[s \ {First(s)}]
BY DEF Summing

\* Two solutions agree wherever both are defined, and there is one.
LEMMA SummingUnique ==
    ASSUME NEW f, NEW S, NEW T, IsFiniteSet(S), NEW g, NEW h,
           Summing(f, S, g), Summing(f, T, h), NEW u \in SUBSET (S \cap T)
    PROVE  g[u] = h[u]
<1> DEFINE F == {s \in SUBSET S : s \subseteq T /\ g[s] # h[s]}
<1> SUFFICES ASSUME F # {} PROVE FALSE
  OBVIOUS
<1>1. PICK s \in F : \A t \in F : t \subseteq s => t = s
  <2>1. F \subseteq SUBSET S
    OBVIOUS
  <2> HIDE DEF F
  <2> QED BY <2>1, SmallestSet
<1>2. /\ g[s] = IF s = {} THEN 0 ELSE f[First(s)] + g[s \ {First(s)}]
      /\ h[s] = IF s = {} THEN 0 ELSE f[First(s)] + h[s \ {First(s)}]
  BY SummingOf
<1>3. s # {} /\ First(s) \in s
  BY <1>2, FirstOf
<1>4. s \ {First(s)} \notin F
  BY <1>1, <1>3
<1>5. g[s \ {First(s)}] = h[s \ {First(s)}]
  BY <1>4
<1> QED BY <1>2, <1>5

LEMMA SummingExists ==
    ASSUME NEW f, NEW S, IsFiniteSet(S)
    PROVE  Summing(f, S, CHOOSE g : Summing(f, S, g))
<1> DEFINE Sol(s) == CHOOSE g : Summing(f, s, g)
           F == {s \in SUBSET S : ~ Summing(f, s, Sol(s))}
<1> SUFFICES ASSUME F # {} PROVE FALSE
  OBVIOUS
<1>1. PICK s \in F : \A t \in F : t \subseteq s => t = s
  <2>1. F \subseteq SUBSET S
    OBVIOUS
  <2> HIDE DEF F
  <2> QED BY <2>1, SmallestSet
<1>2. \A t \in SUBSET s : t # s => Summing(f, t, Sol(t))
  BY <1>1
<1> DEFINE g == [t \in SUBSET s |-> IF t = {} THEN 0
                   ELSE f[First(t)] + Sol(t \ {First(t)})[t \ {First(t)}]]
<1> HIDE DEF Sol
<1>3. \A t \in SUBSET s : g[t] = IF t = {} THEN 0
                             ELSE f[First(t)] + Sol(t \ {First(t)})[t \ {First(t)}]
  OBVIOUS
<1> HIDE DEF g
<1>4. ASSUME NEW t \in SUBSET s, t # s PROVE g[t] = Sol(t)[t]
  <2>1. Sol(t)[t] = IF t = {} THEN 0 ELSE f[First(t)] + Sol(t)[t \ {First(t)}]
    BY <1>2, <1>4, SummingOf
  <2>2. CASE t = {}
    BY <1>3, <2>1, <2>2
  <2>3. CASE t # {}
    <3> DEFINE u == t \ {First(t)}
    <3>1. u \subseteq t /\ u # t
      BY <2>3, FirstOf
    <3>2. Summing(f, u, Sol(u)) /\ Summing(f, t, Sol(t))
      BY <1>2, <1>4, <3>1
    <3>3. IsFiniteSet(u)
      BY <1>1, <1>4, <3>1, FS_Subset
    <3>4. u \in SUBSET (u \cap t)
      BY <3>1
    <3> HIDE DEF u
    <3>5. Sol(u)[u] = Sol(t)[u]
      BY <3>2, <3>3, <3>4, SummingUnique
    <3> QED BY <1>3, <2>1, <2>3, <3>5 DEF u
  <2> QED BY <2>2, <2>3
<1>5. Summing(f, s, g)
  <2>1. ASSUME NEW t \in SUBSET s, t # {}
        PROVE  g[t] = f[First(t)] + g[t \ {First(t)}]
    <3>1. t \ {First(t)} \in SUBSET s /\ t \ {First(t)} # s
      BY <2>1, FirstOf
    <3> QED BY <1>3, <1>4, <2>1, <3>1
  <2>2. \A t \in SUBSET s : g[t] = IF t = {} THEN 0 ELSE f[First(t)] + g[t \ {First(t)}]
    BY <1>3, <2>1
  <2>3. g = [t \in SUBSET s |-> g[t]]
    BY DEF g
  <2> QED BY <2>2, <2>3 DEF Summing
<1> QED BY <1>1, <1>5 DEF Sol

\* A sum in steps, the first element taken out first.
LEMMA SumStep ==
    ASSUME NEW f, NEW S, IsFiniteSet(S)
    PROVE  SumFunctionOnSet(f, S) =
              IF S = {} THEN 0
              ELSE f[First(S)] + SumFunctionOnSet(f, S \ {First(S)})
<1> DEFINE Sol(s) == CHOOSE g : Summing(f, s, g)
           T == S \ {First(S)}
<1>1. IsFiniteSet(T)
  BY FS_RemoveElement
<1>2. Summing(f, S, Sol(S)) /\ Summing(f, T, Sol(T))
  BY <1>1, SummingExists
<1>3. SumFunctionOnSet(f, S) = Sol(S)[S] /\ SumFunctionOnSet(f, T) = Sol(T)[T]
  BY SumDef
<1> HIDE DEF Sol
<1>4. Sol(S)[S] = IF S = {} THEN 0 ELSE f[First(S)] + Sol(S)[T]
  BY <1>2, SummingOf
<1>5. Sol(S)[T] = Sol(T)[T]
  <2>1. T \in SUBSET (S \cap T)
    OBVIOUS
  <2> HIDE DEF T
  <2> QED BY <1>2, <2>1, SummingUnique
<1> QED BY <1>3, <1>4, <1>5

LEMMA SumInt ==
    ASSUME NEW f, NEW S, IsFiniteSet(S), \A x \in S : f[x] \in Int
    PROVE  SumFunctionOnSet(f, S) \in Int
<1> DEFINE F == {s \in SUBSET S : SumFunctionOnSet(f, s) \notin Int}
<1> SUFFICES ASSUME F # {} PROVE FALSE
  OBVIOUS
<1>1. PICK s \in F : \A t \in F : t \subseteq s => t = s
  <2>1. F \subseteq SUBSET S
    OBVIOUS
  <2> HIDE DEF F
  <2> QED BY <2>1, SmallestSet
<1>2. SumFunctionOnSet(f, s) = IF s = {} THEN 0
                               ELSE f[First(s)] + SumFunctionOnSet(f, s \ {First(s)})
  BY <1>1, FS_Subset, SumStep
<1>3. s # {} /\ First(s) \in s
  BY <1>2, FirstOf
<1>4. SumFunctionOnSet(f, s \ {First(s)}) \in Int
  BY <1>1, <1>3
<1> QED BY <1>2, <1>3, <1>4

\* Which element is taken out of a sum does not matter.
LEMMA SumOut ==
    ASSUME NEW f, NEW S, IsFiniteSet(S), \A x \in S : f[x] \in Int, NEW x \in S
    PROVE  SumFunctionOnSet(f, S) = f[x] + SumFunctionOnSet(f, S \ {x})
<1> DEFINE Sum(s) == SumFunctionOnSet(f, s)
           F == {s \in SUBSET S : \E y \in s : Sum(s) # f[y] + Sum(s \ {y})}
<1> HIDE DEF Sum
<1>0. \A s \in SUBSET S : /\ IsFiniteSet(s) /\ Sum(s) \in Int
                          /\ s # {} => /\ First(s) \in s
                                       /\ Sum(s) = f[First(s)] + Sum(s \ {First(s)})
  BY FS_Subset, SumInt, SumStep, FirstOf DEF Sum
<1>1. ASSUME F # {} PROVE FALSE
  <2>1. PICK s \in F : \A t \in F : t \subseteq s => t = s
    <3>1. F \subseteq SUBSET S
      OBVIOUS
    <3> HIDE DEF F
    <3> QED BY <1>1, <3>1, SmallestSet
  <2>2. PICK y \in s : Sum(s) # f[y] + Sum(s \ {y})
    BY <2>1
  <2> DEFINE z == First(s)
  <2>3. z \in s /\ Sum(s) = f[z] + Sum(s \ {z})
    BY <1>0, <2>1, <2>2
  <2> HIDE DEF z
  <2>4. y # z
    BY <2>2, <2>3
  <2>5. s \ {z} \notin F /\ s \ {y} \notin F /\ s \ {z} \in SUBSET S /\ s \ {y} \in SUBSET S
    BY <2>1, <2>2, <2>3
  <2>6. Sum(s \ {z}) = f[y] + Sum((s \ {z}) \ {y})
    BY <2>2, <2>4, <2>5
  <2>7. Sum(s \ {y}) = f[z] + Sum((s \ {y}) \ {z})
    BY <2>3, <2>4, <2>5
  <2>8. (s \ {z}) \ {y} = (s \ {y}) \ {z}
    OBVIOUS
  <2>9. f[y] \in Int /\ f[z] \in Int /\ Sum((s \ {y}) \ {z}) \in Int
    BY <1>0, <2>1, <2>2, <2>3
  <2> DEFINE rest == Sum((s \ {y}) \ {z})
  <2>10. Sum(s) = f[z] + (f[y] + rest) /\ f[y] + Sum(s \ {y}) = f[y] + (f[z] + rest)
    BY <2>3, <2>6, <2>7, <2>8
  <2>11. rest \in Int
    BY <2>9
  <2> HIDE DEF rest
  <2>12. f[z] + (f[y] + rest) = f[y] + (f[z] + rest)
    BY <2>9, <2>11
  <2> QED BY <2>2, <2>10, <2>12
<1>2. S \notin F
  BY <1>1
<1> QED BY <1>2 DEF Sum

LEMMA SumIn ==
    ASSUME NEW f, NEW S, IsFiniteSet(S), \A x \in S : f[x] \in Int, NEW x, x \notin S,
           f[x] \in Int
    PROVE  SumFunctionOnSet(f, S \cup {x}) = SumFunctionOnSet(f, S) + f[x]
<1>1. IsFiniteSet(S \cup {x}) /\ (S \cup {x}) \ {x} = S
  BY FS_AddElement
<1>2. SumFunctionOnSet(f, S \cup {x}) = f[x] + SumFunctionOnSet(f, S)
  BY <1>1, SumOut
<1> QED BY <1>2, SumInt

LEMMA SumEmpty == ASSUME NEW f PROVE SumFunctionOnSet(f, {}) = 0
BY SumStep, FS_EmptySet

\* Only the values on the set count.
LEMMA SumSame ==
    ASSUME NEW f, NEW g, NEW S, IsFiniteSet(S), \A x \in S : f[x] = g[x]
    PROVE  SumFunctionOnSet(f, S) = SumFunctionOnSet(g, S)
<1> DEFINE F == {s \in SUBSET S : SumFunctionOnSet(f, s) # SumFunctionOnSet(g, s)}
<1> SUFFICES ASSUME F # {} PROVE FALSE
  OBVIOUS
<1>1. PICK s \in F : \A t \in F : t \subseteq s => t = s
  <2>1. F \subseteq SUBSET S
    OBVIOUS
  <2> HIDE DEF F
  <2> QED BY <2>1, SmallestSet
<1>2. /\ SumFunctionOnSet(f, s) = IF s = {} THEN 0
                                  ELSE f[First(s)] + SumFunctionOnSet(f, s \ {First(s)})
      /\ SumFunctionOnSet(g, s) = IF s = {} THEN 0
                                  ELSE g[First(s)] + SumFunctionOnSet(g, s \ {First(s)})
  BY <1>1, FS_Subset, SumStep
<1>3. s # {} /\ First(s) \in s
  BY <1>1, <1>2, FirstOf
<1>4. SumFunctionOnSet(f, s \ {First(s)}) = SumFunctionOnSet(g, s \ {First(s)})
  BY <1>1, <1>3
<1> QED BY <1>1, <1>2, <1>3, <1>4

\* Sums of what is not negative.
LEMMA SumNat ==
    ASSUME NEW f, NEW S, IsFiniteSet(S), \A x \in S : f[x] \in Nat
    PROVE  SumFunctionOnSet(f, S) \in Nat
<1> DEFINE F == {s \in SUBSET S : SumFunctionOnSet(f, s) \notin Nat}
<1> SUFFICES ASSUME F # {} PROVE FALSE
  OBVIOUS
<1>1. PICK s \in F : \A t \in F : t \subseteq s => t = s
  <2>1. F \subseteq SUBSET S
    OBVIOUS
  <2> HIDE DEF F
  <2> QED BY <2>1, SmallestSet
<1>2. SumFunctionOnSet(f, s) = IF s = {} THEN 0
                               ELSE f[First(s)] + SumFunctionOnSet(f, s \ {First(s)})
  BY <1>1, FS_Subset, SumStep
<1>3. s # {} /\ First(s) \in s
  BY <1>1, <1>2, FirstOf
<1>4. SumFunctionOnSet(f, s \ {First(s)}) \in Nat
  BY <1>1, <1>3
<1> QED BY <1>1, <1>2, <1>3, <1>4

\* The sum over two sets that are disjoint.
LEMMA SumUnion ==
    ASSUME NEW f, NEW S, NEW T, IsFiniteSet(S), IsFiniteSet(T), S \cap T = {},
           \A x \in S \cup T : f[x] \in Int
    PROVE  SumFunctionOnSet(f, S \cup T) = SumFunctionOnSet(f, S) + SumFunctionOnSet(f, T)
<1> DEFINE Sum(s) == SumFunctionOnSet(f, s)
           F == {s \in SUBSET T : Sum(S \cup s) # Sum(S) + Sum(s)}
<1>0. ASSUME NEW s \in SUBSET T
      PROVE  /\ IsFiniteSet(s) /\ Sum(s) \in Int
             /\ Sum(s) = IF s = {} THEN 0 ELSE f[First(s)] + Sum(s \ {First(s)})
             /\ s # {} => First(s) \in s
  BY FS_Subset, SumInt, SumStep, FirstOf
<1>1. Sum(S) \in Int
  BY SumInt
<1>2. ASSUME NEW s \in SUBSET T, NEW x \in s
      PROVE  Sum(S \cup s) = f[x] + Sum(S \cup (s \ {x}))
  <2>1. IsFiniteSet(S \cup s) /\ (S \cup s) \ {x} = S \cup (s \ {x})
    BY <1>0, FS_Union
  <2>2. x \in S \cup s /\ \A y \in S \cup s : f[y] \in Int
    OBVIOUS
  <2> DEFINE U == S \cup s
  <2> HIDE DEF U
  <2>3. Sum(U) = f[x] + Sum(U \ {x})
    BY <2>1, <2>2, SumOut DEF U
  <2> QED BY <2>1, <2>3 DEF U
<1> SUFFICES ASSUME F # {} PROVE FALSE
  OBVIOUS
<1> HIDE DEF Sum
<1>3. PICK s \in F : \A t \in F : t \subseteq s => t = s
  <2>1. F \subseteq SUBSET T
    OBVIOUS
  <2> HIDE DEF F
  <2> QED BY <2>1, SmallestSet
<1>4. CASE s = {}
  <2>1. S \cup s = S
    BY <1>4
  <2>2. Sum(s) = 0 /\ Sum(S \cup s) = Sum(S)
    BY <1>0, <1>3, <1>4, <2>1
  <2> QED BY <1>1, <1>3, <2>2
<1>5. CASE s # {}
  <2> DEFINE x == First(s)
  <2>1. x \in s /\ s \in SUBSET T
    BY <1>0, <1>3, <1>5
  <2>2. Sum(s) = f[x] + Sum(s \ {x}) /\ Sum(S \cup s) = f[x] + Sum(S \cup (s \ {x}))
    BY <1>0, <1>2, <1>5, <2>1
  <2> HIDE DEF x
  <2>3. s \ {x} \notin F /\ s \ {x} \in SUBSET T
    BY <1>3, <2>1
  <2>4. Sum(S \cup (s \ {x})) = Sum(S) + Sum(s \ {x}) /\ Sum(s \ {x}) \in Int /\ f[x] \in Int
    BY <1>0, <2>1, <2>3
  <2> QED BY <1>1, <1>3, <2>2, <2>4
<1> QED BY <1>4, <1>5

\* The sum of the opposites.
LEMMA SumOpposite ==
    ASSUME NEW f, NEW g, NEW S, IsFiniteSet(S), \A x \in S : f[x] \in Int /\ g[x] = 0 - f[x]
    PROVE  SumFunctionOnSet(g, S) = 0 - SumFunctionOnSet(f, S)
<1> DEFINE F == {s \in SUBSET S : SumFunctionOnSet(g, s) # 0 - SumFunctionOnSet(f, s)}
<1> SUFFICES ASSUME F # {} PROVE FALSE
  OBVIOUS
<1>1. PICK s \in F : \A t \in F : t \subseteq s => t = s
  <2>1. F \subseteq SUBSET S
    OBVIOUS
  <2> HIDE DEF F
  <2> QED BY <2>1, SmallestSet
<1>2. IsFiniteSet(s) /\ s \in SUBSET S
  BY <1>1, FS_Subset
<1>3. /\ SumFunctionOnSet(f, s) = IF s = {} THEN 0
                                  ELSE f[First(s)] + SumFunctionOnSet(f, s \ {First(s)})
      /\ SumFunctionOnSet(g, s) = IF s = {} THEN 0
                                  ELSE g[First(s)] + SumFunctionOnSet(g, s \ {First(s)})
  BY <1>2, SumStep
<1>4. s # {} /\ First(s) \in s
  BY <1>1, <1>3, FirstOf
<1> DEFINE r == s \ {First(s)}
<1>5. SumFunctionOnSet(g, r) = 0 - SumFunctionOnSet(f, r) /\ r \in SUBSET S
  BY <1>1, <1>4
<1>6. SumFunctionOnSet(f, r) \in Int
  BY <1>2, <1>5, FS_Subset, SumInt
<1> QED BY <1>1, <1>2, <1>3, <1>4, <1>5, <1>6

\* More to add, and nothing of it negative.
LEMMA SumGrows ==
    ASSUME NEW f, NEW g, NEW S, NEW T, IsFiniteSet(T), S \subseteq T,
           \A x \in S : f[x] = g[x], \A x \in T : g[x] \in Nat
    PROVE  /\ SumFunctionOnSet(f, S) \in Nat /\ SumFunctionOnSet(g, T) \in Nat
           /\ SumFunctionOnSet(f, S) <= SumFunctionOnSet(g, T)
<1> DEFINE R == T \ S
<1>1. IsFiniteSet(S) /\ IsFiniteSet(R) /\ S \cap R = {} /\ S \cup R = T
  BY FS_Subset
<1> HIDE DEF R
<1>2. SumFunctionOnSet(f, S) = SumFunctionOnSet(g, S)
  BY <1>1, SumSame
<1>3. SumFunctionOnSet(g, S \cup R) = SumFunctionOnSet(g, S) + SumFunctionOnSet(g, R)
  BY <1>1, SumUnion
<1>4. SumFunctionOnSet(g, S) \in Nat /\ SumFunctionOnSet(g, R) \in Nat
  BY <1>1, SumNat
<1> QED BY <1>1, <1>2, <1>3, <1>4

\* The sum over the image of a set under a function that takes no value twice.
LEMMA SumImage ==
    ASSUME NEW f, NEW g, NEW b, NEW S, IsFiniteSet(S),
           \A x, y \in S : b[x] = b[y] => x = y,
           \A x \in S : f[b[x]] = g[x] /\ g[x] \in Int
    PROVE  SumFunctionOnSet(f, {b[x] : x \in S}) = SumFunctionOnSet(g, S)
<1> DEFINE Im(s) == {b[x] : x \in s}
           F == {s \in SUBSET S : SumFunctionOnSet(f, Im(s)) # SumFunctionOnSet(g, s)}
<1> SUFFICES ASSUME F # {} PROVE FALSE
  OBVIOUS
<1>1. PICK s \in F : \A t \in F : t \subseteq s => t = s
  <2>1. F \subseteq SUBSET S
    OBVIOUS
  <2> HIDE DEF F
  <2> QED BY <2>1, SmallestSet
<1>2. IsFiniteSet(s) /\ s \in SUBSET S
  BY <1>1, FS_Subset
<1>3. CASE s = {}
  <2>1. Im(s) = {}
    BY <1>3
  <2> HIDE DEF Im
  <2> QED BY <1>1, <1>3, <2>1, SumEmpty
<1>4. CASE s # {}
  <2> PICK x \in s : TRUE
    BY <1>4
  <2> DEFINE r == s \ {x}
  <2>1. Im(r) = Im(s) \ {b[x]} /\ b[x] \in Im(s)
    BY <1>2
  <2>2. IsFiniteSet(Im(s))
    <3> DEFINE c == [y \in s |-> b[y]]
    <3>1. c \in Surjection(s, Im(s))
      BY DEF Surjection
    <3> QED BY <1>2, <3>1, FS_Surjection
  <2>3. \A y \in Im(s) : f[y] \in Int
    BY <1>2
  <2>4. r \notin F /\ r \in SUBSET S
    BY <1>1
  <2>5. SumFunctionOnSet(f, Im(r)) = SumFunctionOnSet(g, r)
    BY <2>4
  <2>6. SumFunctionOnSet(g, s) = g[x] + SumFunctionOnSet(g, r)
    BY <1>2, SumOut
  <2> DEFINE I == Im(s)
  <2> HIDE DEF I, Im, r
  <2>7. SumFunctionOnSet(f, I) = f[b[x]] + SumFunctionOnSet(f, I \ {b[x]})
    BY <2>1, <2>2, <2>3, SumOut DEF I
  <2> QED BY <1>1, <1>2, <2>1, <2>5, <2>6, <2>7 DEF I
<1> QED BY <1>3, <1>4
=============================================================================
