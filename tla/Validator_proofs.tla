--------------------------- MODULE Validator_proofs ---------------------------
(* Proofs about Validator, for descriptions and data of every size and depth:   *)
(* what conforms to the schema of a spec conforms to its kind and has no value  *)
(* for a status-only field, a status that is merged deeply conforms as well as  *)
(* the shallow merge that was validated, and what the documentation of a spec   *)
(* leaves out is what its validation leaves out.                                *)
(*                                                                              *)
(* All of these go by induction over a tree.  A function that is defined by     *)
(* recursion is some function that solves its equation: that there is one is    *)
(* proved first, of every equation that asks only for values of lower rank.     *)
EXTENDS Validator, WellFoundedInduction, TLAPS

------------------------------------------------------------------------------
(* Recursion on a rank                                                          *)

\* Some numbers have a smallest one.
LEMMA SmallestOf ==
    ASSUME NEW T \in SUBSET Nat, T # {}
    PROVE  \E m \in T : \A n \in T : m <= n
  <1>1. PICK m \in T : \A n \in T : ~ (<<n, m>> \in OpToRel(<, Nat))
    BY WFMin, NatLessThanWellFounded
  <1>2. \A n \in T : n < m => <<n, m>> \in OpToRel(<, Nat)
    BY DEF OpToRel
  <1>3. \A n \in T : ~ (n < m)
    BY <1>1, <1>2
  <1> QED BY ONLY <1>3, T \in SUBSET Nat, m \in T

\* Mathematical induction, of the members of a set.
LEMMA SetInduction ==
    ASSUME NEW S \in SUBSET Nat, 0 \in S, \A n \in S : n + 1 \in S
    PROVE  S = Nat
  <1>1. SUFFICES ASSUME Nat \ S # {} PROVE FALSE
    OBVIOUS
  <1>2. PICK m \in Nat \ S : \A n \in Nat \ S : m <= n
    BY <1>1, SmallestOf
  <1>3. m - 1 \in Nat
    BY <1>2
  <1>4. m - 1 \in S
    BY <1>2, <1>3
  <1> QED BY <1>4, <1>2

\* What D makes of a function at x depends on its values at lower ranks
Contracts(D, S, T, rank) ==
    /\ rank \in [S -> Nat]
    /\ D \in [[S -> T] -> [S -> T]]
    /\ \A g, h \in [S -> T], x \in S :
        (\A y \in S : rank[y] < rank[x] => g[y] = h[y]) => D[g][x] = D[h][x]

\* Induction on a rank: what holds of a member when it holds of all of lower
\* rank holds of all.
LEMMA RankInduction ==
    ASSUME NEW S, NEW rank \in [S -> Nat], NEW G \in SUBSET S,
           \A x \in S : (\A y \in S : rank[y] < rank[x] => y \in G) => x \in G
    PROVE  G = S
  <1> DEFINE R == {rank[x] : x \in S \ G}
  <1>1. SUFFICES ASSUME S \ G # {} PROVE FALSE
    OBVIOUS
  <1>2. R \in SUBSET Nat /\ R # {}
    BY <1>1
  <1>3. PICK m \in R : \A n \in R : m <= n
    BY <1>2, SmallestOf
  <1>4. PICK x \in S \ G : rank[x] = m
    BY <1>3
  <1>5. ASSUME NEW y \in S, rank[y] < rank[x] PROVE y \in G
    <2>1. SUFFICES ASSUME y \notin G PROVE FALSE
      OBVIOUS
    <2>2. rank[y] \in R /\ rank[y] \in Nat /\ rank[x] \in Nat
      BY <2>1
    <2>3. rank[x] <= rank[y]
      BY <1>3, <1>4, <2>2
    <2> QED BY <1>5, <2>2, <2>3
  <1> QED BY <1>4, <1>5

\* The functions that solve the equation below rank n
Solves(D, S, T, rank, n) ==
    {g \in [S -> T] : \A x \in S : rank[x] < n => g[x] = D[g][x]}

\* Two solutions agree where both solve.
LEMMA SolutionsAgree ==
    ASSUME NEW S, NEW T, NEW rank, NEW D, Contracts(D, S, T, rank),
           NEW n \in Nat, NEW m \in Nat, n <= m,
           NEW g \in Solves(D, S, T, rank, n), NEW h \in Solves(D, S, T, rank, m)
    PROVE  \A x \in S : rank[x] < n => g[x] = h[x]
  <1> rank \in [S -> Nat] /\ D \in [[S -> T] -> [S -> T]]
    BY DEF Contracts
  <1> DEFINE G == {x \in S : rank[x] < n => g[x] = h[x]}
  <1>1. SUFFICES ASSUME NEW x \in S, \A y \in S : rank[y] < rank[x] => y \in G, rank[x] < n
                 PROVE  g[x] = h[x]
    <2>1. \A x \in S : (\A y \in S : rank[y] < rank[x] => y \in G) => x \in G
      BY <1>1
    <2>2. G \in SUBSET S
      OBVIOUS
    <2>3. G = S
      <3> HIDE DEF G
      <3> QED BY <2>1, <2>2, RankInduction
    <2> QED BY <2>3
  <1>3. g \in [S -> T] /\ h \in [S -> T]
    BY DEF Solves
  <1>7. rank[x] < n /\ rank[x] < m
    BY <1>1
  <1>4. \A y \in S : rank[y] < rank[x] => rank[y] < n
    BY <1>1
  <1>5. \A y \in S : rank[y] < rank[x] => g[y] = h[y]
    BY <1>1, <1>4
  <1>6. D[g][x] = D[h][x]
    BY <1>3, <1>5 DEF Contracts
  <1>8. g[x] = D[g][x] /\ h[x] = D[h][x]
    BY <1>7 DEF Solves
  <1> QED BY <1>6, <1>8

\* Up to every rank there is a solution.
LEMMA SolutionsExist ==
    ASSUME NEW S, NEW T, T # {}, NEW rank, NEW D, Contracts(D, S, T, rank)
    PROVE  \A n \in Nat : Solves(D, S, T, rank, n) # {}
  <1> rank \in [S -> Nat] /\ D \in [[S -> T] -> [S -> T]]
    BY DEF Contracts
  <1> DEFINE N == {n \in Nat : Solves(D, S, T, rank, n) # {}}
  <1>1. 0 \in N
    <2>1. PICK t \in T : TRUE
      OBVIOUS
    <2>2. [x \in S |-> t] \in Solves(D, S, T, rank, 0)
      BY DEF Solves
    <2> QED BY <2>2
  <1>2. ASSUME NEW n \in N PROVE n + 1 \in N
    <2>1. PICK g \in [S -> T] : \A x \in S : rank[x] < n => g[x] = D[g][x]
      BY DEF Solves
    <2>2. D[g] \in [S -> T]
      OBVIOUS
    <2>3. ASSUME NEW x \in S, rank[x] < n + 1 PROVE D[g][x] = D[D[g]][x]
      <3>1. \A y \in S : rank[y] < rank[x] => rank[y] < n
        BY <2>3
      <3>2. \A y \in S : rank[y] < rank[x] => g[y] = D[g][y]
        BY <3>1, <2>1
      <3> QED BY <2>2, <3>2 DEF Contracts
    <2>4. D[g] \in Solves(D, S, T, rank, n + 1)
      BY <2>2, <2>3 DEF Solves
    <2> QED BY <2>4
  <1>3. N = Nat
    BY <1>1, <1>2, SetInduction
  <1> QED BY <1>3

\* An equation that contracts has a solution, so that the function that is
\* defined by it satisfies it.
LEMMA SolutionExists ==
    ASSUME NEW S, NEW T, T # {}, NEW rank, NEW D, Contracts(D, S, T, rank)
    PROVE  \E f \in [S -> T] : f = D[f]
  <1> rank \in [S -> Nat] /\ D \in [[S -> T] -> [S -> T]]
    BY DEF Contracts
  <1> DEFINE sol == [n \in Nat |-> CHOOSE g \in Solves(D, S, T, rank, n) : TRUE]
           f == [x \in S |-> sol[rank[x] + 1][x]]
  <1>1. ASSUME NEW n \in Nat PROVE sol[n] \in Solves(D, S, T, rank, n)
    <2>1. sol[n] = CHOOSE g \in Solves(D, S, T, rank, n) : TRUE
      OBVIOUS
    <2>2. Solves(D, S, T, rank, n) # {}
      BY SolutionsExist
    <2> QED BY <2>1, <2>2
  <1>a. \A n \in Nat : sol[n] \in [S -> T]
    BY <1>1 DEF Solves
  <1> HIDE DEF sol
  <1>2. f \in [S -> T]
    BY <1>a
  <1>3. ASSUME NEW x \in S PROVE f[x] = D[f][x]
    <2>1. rank[x] + 1 \in Nat /\ rank[x] < rank[x] + 1
      OBVIOUS
    <2> DEFINE g == sol[rank[x] + 1]
    <2>2. g \in Solves(D, S, T, rank, rank[x] + 1)
      BY <1>1, <2>1
    <2>3. ASSUME NEW y \in S, rank[y] < rank[x] PROVE f[y] = g[y]
      <3>1. rank[y] + 1 \in Nat /\ rank[y] < rank[y] + 1 /\ rank[y] + 1 <= rank[x] + 1
        BY <2>3
      <3>2. sol[rank[y] + 1] \in Solves(D, S, T, rank, rank[y] + 1)
        BY <1>1, <3>1
      <3>3. sol[rank[y] + 1][y] = g[y]
        <4> DEFINE j == rank[y] + 1  k == rank[x] + 1
        <4>1. j \in Nat /\ k \in Nat /\ j <= k
          BY <2>1, <3>1
        <4>2. sol[j] \in Solves(D, S, T, rank, j) /\ sol[k] \in Solves(D, S, T, rank, k)
          BY <2>2, <3>2
        <4>3. rank[y] < j
          BY <3>1
        <4>4. j \in Nat /\ k \in Nat /\ j <= k => \A z \in S : rank[z] < j => sol[j][z] = sol[k][z]
          <5> HIDE DEF j, k
          <5> QED BY <4>2, SolutionsAgree
        <4> QED BY <4>1, <4>3, <4>4
      <3> QED BY <3>3
    <2>4. f[x] = g[x]
      OBVIOUS
    <2>5. g[x] = D[g][x]
      BY <2>2, <2>1 DEF Solves
    <2>6. g \in [S -> T]
      BY <2>2 DEF Solves
    <2>7. D[f][x] = D[g][x]
      BY <1>2, <2>3, <2>6 DEF Contracts
    <2> QED BY <2>4, <2>5, <2>7
  <1>4. D[f] \in [S -> T]
    BY <1>2
  <1>5. f = D[f]
    BY <1>2, <1>3, <1>4
  <1> QED BY <1>2, <1>5

------------------------------------------------------------------------------
(* Descriptions                                                                 *)

\* What is under a node is lower, with or without what is removed
Tree(s) ==
    \A n \in Node :
        /\ \A f \in Names(s, n) : /\ s[n].fields[f] \in Node
                                  /\ Height[s[n].fields[f]] < Height[n]
        /\ s[n].items # NoNode => s[n].items \in Node /\ Height[s[n].items] < Height[n]

\* A description that may be registered is a tree.
LEMMA SchemaIsTree ==
    ASSUME NEW s \in Schemas
    PROVE  Tree(s)
  <1> SUFFICES ASSUME NEW n \in Node
               PROVE  /\ \A f \in Names(s, n) : /\ s[n].fields[f] \in Node
                                                /\ Height[s[n].fields[f]] < Height[n]
                      /\ s[n].items # NoNode => s[n].items \in Node /\ Height[s[n].items] < Height[n]
    BY DEF Tree
  <1>1. s[n] \in Object /\ \A m \in Under(s, n) : Height[m] < Height[n]
    BY SchemasAssumption
  <1>2. s[n].items \in Node \cup {NoNode}
    BY <1>1 DEF Object
  <1>3. PICK names \in SUBSET Name : s[n].fields \in [names -> Node]
    BY <1>1 DEF Object
  <1>4. \A f \in Names(s, n) : s[n].fields[f] \in Node /\ s[n].fields[f] \in Under(s, n)
    BY <1>3 DEF Names, Under, FieldNodes
  <1>5. s[n].items # NoNode => s[n].items \in Under(s, n)
    BY <1>2 DEF Under
  <1> QED BY <1>1, <1>2, <1>4, <1>5

\* What the removal changes in a node.
LEMMA RemovedIs ==
    ASSUME NEW s \in Schemas, NEW n \in Node, NEW t, t = RemoveStatusOnly(s)
    PROVE  /\ t[n].type = s[n].type /\ t[n].required = s[n].required
           /\ t[n].papiea = s[n].papiea
           /\ t[n].fields = KeptFields(s, n)
           /\ Names(t, n) = Kept(s, n)
           /\ t[n].items = IF s[n].items # NoNode /\ IsStatusOnly(s, s[n].items) THEN NoNode
                           ELSE s[n].items
  <1>1. s[n] \in Object
    BY SchemasAssumption
  <1>2. t[n] = [s[n] EXCEPT
                    !.fields = KeptFields(s, n),
                    !.items = IF @ # NoNode /\ IsStatusOnly(s, @) THEN NoNode ELSE @]
    BY DEF RemoveStatusOnly
  <1>3. /\ t[n].type = s[n].type /\ t[n].required = s[n].required
        /\ t[n].papiea = s[n].papiea
        /\ t[n].fields = KeptFields(s, n)
        /\ t[n].items = IF s[n].items # NoNode /\ IsStatusOnly(s, s[n].items) THEN NoNode
                        ELSE s[n].items
    BY <1>1, <1>2 DEF Object
  <1>4. DOMAIN KeptFields(s, n) = Kept(s, n)
    BY DEF KeptFields
  <1> QED BY <1>3, <1>4 DEF Names

\* What is left of a description is a tree.
LEMMA RemovedIsTree ==
    ASSUME NEW s \in Schemas
    PROVE  Tree(RemoveStatusOnly(s))
  <1> DEFINE t == RemoveStatusOnly(s)
  <1>1. ASSUME NEW n \in Node
        PROVE  /\ \A f \in Names(t, n) : t[n].fields[f] \in Node /\ Height[t[n].fields[f]] < Height[n]
               /\ t[n].items # NoNode => t[n].items \in Node /\ Height[t[n].items] < Height[n]
    <2>1. /\ t[n].fields = KeptFields(s, n) /\ Names(t, n) = Kept(s, n)
          /\ t[n].items = IF s[n].items # NoNode /\ IsStatusOnly(s, s[n].items) THEN NoNode
                          ELSE s[n].items
      BY RemovedIs
    <2>2. \A f \in Kept(s, n) : f \in Names(s, n) /\ KeptFields(s, n)[f] = s[n].fields[f]
      BY DEF Kept, KeptFields
    <2>3. Tree(s)
      BY SchemaIsTree
    <2> HIDE DEF t
    <2> QED BY <2>1, <2>2, <2>3 DEF Tree
  <1> QED BY <1>1 DEF Tree

\* What conformance asks of a value at a node, c that of its parts
ConformsAt(c, s, extra, n, d) ==
    CASE s[n].type = "object" ->
            /\ d.is = "object"
            /\ s[n].required \subseteq DOMAIN d.of
            /\ extra \/ DOMAIN d.of \subseteq Names(s, n)
            /\ \A f \in DOMAIN d.of \cap Names(s, n) : c[<<s[n].fields[f], d.of[f]>>]
      [] s[n].type = "array" ->
            /\ d.is = "list"
            /\ s[n].items # NoNode => \A i \in DOMAIN d.of : c[<<s[n].items, d.of[i]>>]
      [] OTHER -> d.is = "value"

\* The definition of conformance, which goes by what it asks of the parts.
LEMMA ConformanceIs ==
    ASSUME NEW s, Tree(s), NEW extra \in BOOLEAN, NEW c, c = Conformance(s, extra)
    PROVE  /\ c \in [Node \X Values -> BOOLEAN]
           /\ \A n \in Node, d \in Values :
                c[<<n, d>>] = ConformsAt(c, s, extra, n, d)
  <1> DEFINE S == Node \X Values
             At(g, n, d) == ConformsAt(g, s, extra, n, d)
             Step(g) == [place \in S |-> At(g, place[1], place[2])]
             D == [g \in [S -> BOOLEAN] |-> Step(g)]
             rank == [place \in S |-> Height[place[1]]]
  <1>1. rank \in [S -> Nat]
    BY NodesAssumption
  <1>2. ASSUME NEW g, NEW n \in Node, NEW d \in Values
        PROVE  At(g, n, d) \in BOOLEAN
    BY DEF ConformsAt
  <1>3. ASSUME NEW g PROVE Step(g) \in [S -> BOOLEAN]
    <2>1. \A place \in S : At(g, place[1], place[2]) \in BOOLEAN
      <3> HIDE DEF At
      <3> QED BY <1>2
    <2> HIDE DEF At
    <2> QED BY <2>1
  <1>4. D \in [[S -> BOOLEAN] -> [S -> BOOLEAN]]
    <2> HIDE DEF Step, S
    <2> QED BY <1>3
  <1>5. ASSUME NEW g \in [S -> BOOLEAN], NEW h \in [S -> BOOLEAN], NEW n \in Node, NEW d \in Values,
               \A p \in S : rank[p] < Height[n] => g[p] = h[p]
        PROVE  At(g, n, d) = At(h, n, d)
    <2>1. ASSUME s[n].type = "object", d.is = "object"
          PROVE  \A f \in DOMAIN d.of \cap Names(s, n) :
                     g[<<s[n].fields[f], d.of[f]>>] = h[<<s[n].fields[f], d.of[f]>>]
      <3> SUFFICES ASSUME NEW f \in DOMAIN d.of \cap Names(s, n)
                   PROVE  g[<<s[n].fields[f], d.of[f]>>] = h[<<s[n].fields[f], d.of[f]>>]
        OBVIOUS
      <3>1. s[n].fields[f] \in Node /\ Height[s[n].fields[f]] < Height[n]
        BY DEF Tree
      <3>2. d.of[f] \in Values
        BY <2>1, ValuesAssumption
      <3>3. rank[<<s[n].fields[f], d.of[f]>>] = Height[s[n].fields[f]]
        BY <3>1, <3>2
      <3> HIDE DEF rank
      <3> QED BY <1>5, <3>1, <3>2, <3>3
    <2>2. ASSUME s[n].type = "array", d.is = "list", s[n].items # NoNode
          PROVE  \A i \in DOMAIN d.of : g[<<s[n].items, d.of[i]>>] = h[<<s[n].items, d.of[i]>>]
      <3> SUFFICES ASSUME NEW i \in DOMAIN d.of
                   PROVE  g[<<s[n].items, d.of[i]>>] = h[<<s[n].items, d.of[i]>>]
        OBVIOUS
      <3>1. s[n].items \in Node /\ Height[s[n].items] < Height[n]
        BY <2>2 DEF Tree
      <3>2. d.of[i] \in Values
        BY <2>2, ValuesAssumption
      <3>3. rank[<<s[n].items, d.of[i]>>] = Height[s[n].items]
        BY <3>1, <3>2
      <3> HIDE DEF rank
      <3> QED BY <1>5, <3>1, <3>2, <3>3
    <2>3. At(g, n, d) <=> At(h, n, d)
      BY <2>1, <2>2 DEF ConformsAt
    <2> HIDE DEF At
    <2> QED BY <1>2, <2>3
  <1>6. Contracts(D, S, BOOLEAN, rank)
    <2>1. ASSUME NEW g \in [S -> BOOLEAN], NEW h \in [S -> BOOLEAN], NEW x \in S,
                 \A y \in S : rank[y] < rank[x] => g[y] = h[y]
          PROVE  D[g][x] = D[h][x]
      <3>1. x[1] \in Node /\ x[2] \in Values /\ rank[x] = Height[x[1]]
        OBVIOUS
      <3>2. D[g][x] = At(g, x[1], x[2]) /\ D[h][x] = At(h, x[1], x[2])
        <4> HIDE DEF At
        <4> QED OBVIOUS
      <3> HIDE DEF At, D, S, rank
      <3> QED BY <1>5, <2>1, <3>1, <3>2
    <2> HIDE DEF D, S, rank
    <2> QED BY <1>1, <1>4, <2>1 DEF Contracts
  <1>7. PICK f \in [S -> BOOLEAN] : f = D[f]
    <2>1. BOOLEAN # {}
      OBVIOUS
    <2> HIDE DEF D, S, rank
    <2> QED BY <1>6, <2>1, SolutionExists
  <1>8. f = Step(f)
    <2> HIDE DEF Step
    <2> QED BY <1>7
  <1>9. c = CHOOSE g : g = Step(g)
    BY DEF Conformance, ConformsAt
  <1>10. c = Step(c)
    <2> HIDE DEF Step
    <2> QED BY <1>8, <1>9
  <1>11. c \in [S -> BOOLEAN]
    <2> HIDE DEF Step, S
    <2> QED BY <1>3, <1>10
  <1> QED BY <1>10, <1>11

\* What freedom from status-only fields asks at a node, c that of the parts
FreeAt(c, s, n, d) ==
    /\ s[n].type = "object" /\ d.is = "object" =>
            \A f \in DOMAIN d.of \cap Names(s, n) :
                f \in Kept(s, n) /\ c[<<s[n].fields[f], d.of[f]>>]
    /\ s[n].type = "array" /\ d.is = "list" /\ s[n].items # NoNode =>
            \A i \in DOMAIN d.of : c[<<s[n].items, d.of[i]>>]

\* The definition of freedom from status-only fields, likewise.
LEMMA StatusOnlyFreeIs ==
    ASSUME NEW s, Tree(s), NEW c, c = StatusOnlyFree(s)
    PROVE  /\ c \in [Node \X Values -> BOOLEAN]
           /\ \A n \in Node, d \in Values :
                c[<<n, d>>] = FreeAt(c, s, n, d)
  <1> DEFINE S == Node \X Values
             At(g, n, d) == FreeAt(g, s, n, d)
             Step(g) == [place \in S |-> At(g, place[1], place[2])]
             D == [g \in [S -> BOOLEAN] |-> Step(g)]
             rank == [place \in S |-> Height[place[1]]]
  <1>1. rank \in [S -> Nat]
    BY NodesAssumption
  <1>2. ASSUME NEW g, NEW n \in Node, NEW d \in Values
        PROVE  At(g, n, d) \in BOOLEAN
    BY DEF FreeAt
  <1>3. ASSUME NEW g PROVE Step(g) \in [S -> BOOLEAN]
    <2>1. \A place \in S : At(g, place[1], place[2]) \in BOOLEAN
      <3> HIDE DEF At
      <3> QED BY <1>2
    <2> HIDE DEF At
    <2> QED BY <2>1
  <1>4. D \in [[S -> BOOLEAN] -> [S -> BOOLEAN]]
    <2> HIDE DEF Step, S
    <2> QED BY <1>3
  <1>5. ASSUME NEW g \in [S -> BOOLEAN], NEW h \in [S -> BOOLEAN], NEW n \in Node, NEW d \in Values,
               \A p \in S : rank[p] < Height[n] => g[p] = h[p]
        PROVE  At(g, n, d) = At(h, n, d)
    <2>1. ASSUME s[n].type = "object", d.is = "object"
          PROVE  \A f \in DOMAIN d.of \cap Names(s, n) :
                     g[<<s[n].fields[f], d.of[f]>>] = h[<<s[n].fields[f], d.of[f]>>]
      <3> SUFFICES ASSUME NEW f \in DOMAIN d.of \cap Names(s, n)
                   PROVE  g[<<s[n].fields[f], d.of[f]>>] = h[<<s[n].fields[f], d.of[f]>>]
        OBVIOUS
      <3>1. s[n].fields[f] \in Node /\ Height[s[n].fields[f]] < Height[n]
        BY DEF Tree
      <3>2. d.of[f] \in Values
        BY <2>1, ValuesAssumption
      <3>3. rank[<<s[n].fields[f], d.of[f]>>] = Height[s[n].fields[f]]
        BY <3>1, <3>2
      <3> HIDE DEF rank
      <3> QED BY <1>5, <3>1, <3>2, <3>3
    <2>2. ASSUME s[n].type = "array", d.is = "list", s[n].items # NoNode
          PROVE  \A i \in DOMAIN d.of : g[<<s[n].items, d.of[i]>>] = h[<<s[n].items, d.of[i]>>]
      <3> SUFFICES ASSUME NEW i \in DOMAIN d.of
                   PROVE  g[<<s[n].items, d.of[i]>>] = h[<<s[n].items, d.of[i]>>]
        OBVIOUS
      <3>1. s[n].items \in Node /\ Height[s[n].items] < Height[n]
        BY <2>2 DEF Tree
      <3>2. d.of[i] \in Values
        BY <2>2, ValuesAssumption
      <3>3. rank[<<s[n].items, d.of[i]>>] = Height[s[n].items]
        BY <3>1, <3>2
      <3> HIDE DEF rank
      <3> QED BY <1>5, <3>1, <3>2, <3>3
    <2>3. At(g, n, d) <=> At(h, n, d)
      BY <2>1, <2>2 DEF FreeAt
    <2> HIDE DEF At
    <2> QED BY <1>2, <2>3
  <1>6. Contracts(D, S, BOOLEAN, rank)
    <2>1. ASSUME NEW g \in [S -> BOOLEAN], NEW h \in [S -> BOOLEAN], NEW x \in S,
                 \A y \in S : rank[y] < rank[x] => g[y] = h[y]
          PROVE  D[g][x] = D[h][x]
      <3>1. x[1] \in Node /\ x[2] \in Values /\ rank[x] = Height[x[1]]
        OBVIOUS
      <3>2. D[g][x] = At(g, x[1], x[2]) /\ D[h][x] = At(h, x[1], x[2])
        <4> HIDE DEF At
        <4> QED OBVIOUS
      <3> HIDE DEF At, D, S, rank
      <3> QED BY <1>5, <2>1, <3>1, <3>2
    <2> HIDE DEF D, S, rank
    <2> QED BY <1>1, <1>4, <2>1 DEF Contracts
  <1>7. PICK f \in [S -> BOOLEAN] : f = D[f]
    <2>1. BOOLEAN # {}
      OBVIOUS
    <2> HIDE DEF D, S, rank
    <2> QED BY <1>6, <2>1, SolutionExists
  <1>8. f = Step(f)
    <2> HIDE DEF Step
    <2> QED BY <1>7
  <1>9. c = CHOOSE g : g = Step(g)
    BY DEF StatusOnlyFree, FreeAt
  <1>10. c = Step(c)
    <2> HIDE DEF Step
    <2> QED BY <1>8, <1>9
  <1>11. c \in [S -> BOOLEAN]
    <2> HIDE DEF Step, S
    <2> QED BY <1>3, <1>10
  <1> QED BY <1>10, <1>11

\* The definition of what is required and status-only, likewise.
LEMMA StatusOnlyRequiredIs ==
    ASSUME NEW s, Tree(s), NEW c, c = StatusOnlyRequired(s)
    PROVE  /\ c \in [Node -> BOOLEAN]
           /\ \A n \in Node :
                c[n] = \E m \in LookedInto(s, n) :
                          RequiresStatusOnly(s, m) \/ \E k \in FieldNodes(s, m) : c[k]
  <1> DEFINE At(g, n) == \E m \in LookedInto(s, n) :
                            RequiresStatusOnly(s, m) \/ \E k \in FieldNodes(s, m) : g[k]
             Step(g) == [n \in Node |-> At(g, n)]
             D == [g \in [Node -> BOOLEAN] |-> Step(g)]
  <1>1. Height \in [Node -> Nat] /\ NoNode \notin Node
    BY NodesAssumption
  <1>2. ASSUME NEW g PROVE Step(g) \in [Node -> BOOLEAN]
    OBVIOUS
  <1>3. D \in [[Node -> BOOLEAN] -> [Node -> BOOLEAN]]
    <2> HIDE DEF Step
    <2> QED BY <1>2
  <1>4. ASSUME NEW n \in Node, NEW m \in LookedInto(s, n), NEW k \in FieldNodes(s, m)
        PROVE  k \in Node /\ Height[k] < Height[n]
    <2>1. m = n \/ (m = s[n].items /\ s[n].items # NoNode)
      BY DEF LookedInto
    <2>2. m \in Node /\ (m = n \/ Height[m] < Height[n])
      BY <2>1 DEF Tree
    <2>3. k \in Node /\ Height[k] < Height[m]
      BY <2>2 DEF Tree, FieldNodes
    <2>4. Height[k] \in Nat /\ Height[m] \in Nat /\ Height[n] \in Nat
      BY <1>1, <2>2, <2>3
    <2> QED BY <2>2, <2>3, <2>4
  <1>5. Contracts(D, Node, BOOLEAN, Height)
    <2>1. ASSUME NEW g \in [Node -> BOOLEAN], NEW h \in [Node -> BOOLEAN], NEW n \in Node,
                 \A y \in Node : Height[y] < Height[n] => g[y] = h[y]
          PROVE  D[g][n] = D[h][n]
      <3>1. \A m \in LookedInto(s, n) : \A k \in FieldNodes(s, m) : g[k] = h[k]
        BY <1>4, <2>1
      <3>2. At(g, n) <=> At(h, n)
        BY <3>1
      <3>3. D[g][n] = At(g, n) /\ D[h][n] = At(h, n)
        <4> HIDE DEF At
        <4> QED OBVIOUS
      <3>4. At(g, n) \in BOOLEAN /\ At(h, n) \in BOOLEAN
        OBVIOUS
      <3> HIDE DEF At, D
      <3> QED BY <3>2, <3>3, <3>4
    <2> HIDE DEF D
    <2> QED BY <1>1, <1>3, <2>1 DEF Contracts
  <1>6. PICK f \in [Node -> BOOLEAN] : f = D[f]
    <2>1. BOOLEAN # {}
      OBVIOUS
    <2> HIDE DEF D
    <2> QED BY <1>5, <2>1, SolutionExists
  <1>7. f = Step(f)
    <2> HIDE DEF Step
    <2> QED BY <1>6
  <1>8. c = CHOOSE g : g = Step(g)
    BY DEF StatusOnlyRequired
  <1>9. c = Step(c)
    <2> HIDE DEF Step
    <2> QED BY <1>7, <1>8
  <1> QED BY <1>2, <1>9

\* The definition of what is below a node, likewise.
LEMMA BelowIs ==
    ASSUME NEW s, Tree(s), NEW c, c = Below(s)
    PROVE  /\ c \in [Node -> SUBSET Node]
           /\ \A n \in Node : c[n] = {n} \cup UNION {c[m] : m \in Under(s, n)}
           /\ \A n \in Node : \A m \in Under(s, n) : m \in Node /\ Height[m] < Height[n]
  <1> DEFINE At(g, n) == {n} \cup UNION {g[m] : m \in Under(s, n)}
             Step(g) == [n \in Node |-> At(g, n)]
             T == [Node -> SUBSET Node]
             D == [g \in T |-> Step(g)]
  <1>1. Height \in [Node -> Nat] /\ NoNode \notin Node
    BY NodesAssumption
  <1>2. ASSUME NEW n \in Node, NEW m \in Under(s, n)
        PROVE  m \in Node /\ Height[m] < Height[n]
    BY DEF Tree, Under, FieldNodes
  <1>3. ASSUME NEW g \in T PROVE Step(g) \in T
    <2>1. ASSUME NEW n \in Node PROVE At(g, n) \in SUBSET Node
      BY <1>2
    <2> HIDE DEF At
    <2> QED BY <2>1
  <1>4. D \in [T -> T]
    <2> HIDE DEF Step, T
    <2> QED BY <1>3
  <1>5. Contracts(D, Node, SUBSET Node, Height)
    <2>1. ASSUME NEW g \in T, NEW h \in T, NEW n \in Node,
                 \A y \in Node : Height[y] < Height[n] => g[y] = h[y]
          PROVE  D[g][n] = D[h][n]
      <3>1. \A m \in Under(s, n) : g[m] = h[m]
        BY <1>2, <2>1
      <3>2. At(g, n) = At(h, n)
        BY <3>1
      <3>3. D[g][n] = At(g, n) /\ D[h][n] = At(h, n)
        <4> HIDE DEF At
        <4> QED OBVIOUS
      <3> HIDE DEF At, D
      <3> QED BY <3>2, <3>3
    <2> HIDE DEF D
    <2> QED BY <1>1, <1>4, <2>1 DEF Contracts
  <1>6. PICK f \in T : f = D[f]
    <2>1. SUBSET Node # {}
      OBVIOUS
    <2> HIDE DEF D
    <2> QED BY <1>5, <2>1, SolutionExists
  <1>7. f = Step(f)
    <2> HIDE DEF Step
    <2> QED BY <1>6
  <1>8. c = CHOOSE g : g = Step(g)
    BY DEF Below
  <1>9. c = Step(c)
    <2> HIDE DEF Step
    <2> QED BY <1>7, <1>8
  <1>10. c \in T
    <2> DEFINE G == {n \in Node : c[n] \subseteq Node}
    <2>1. \A n \in Node : c[n] = {n} \cup UNION {c[m] : m \in Under(s, n)}
      BY <1>9
    <2>2. \A n \in Node : (\A y \in Node : Height[y] < Height[n] => y \in G) => n \in G
      BY <1>2, <2>1
    <2>3. G \in SUBSET Node
      OBVIOUS
    <2>4. G = Node
      <3> HIDE DEF G
      <3> QED BY <1>1, <2>2, <2>3, RankInduction
    <2> QED BY <1>9, <2>4
  <1> QED BY <1>2, <1>9, <1>10

\* The definition of what makes a path, which goes by the nesting of a value.
LEMMA EmitsIs ==
    /\ Emits \in [Values -> BOOLEAN]
    /\ \A d \in Values : Emits[d] = (d.is = "object" => \E f \in Fields(d) : Emits[d.of[f]])
  <1> DEFINE At(g, d) == d.is = "object" => \E f \in Fields(d) : g[d.of[f]]
             Step(g) == [d \in Values |-> At(g, d)]
             D == [g \in [Values -> BOOLEAN] |-> Step(g)]
  <1>1. Nesting \in [Values -> Nat]
    BY ValuesAssumption
  <1>2. ASSUME NEW g PROVE Step(g) \in [Values -> BOOLEAN]
    OBVIOUS
  <1>3. D \in [[Values -> BOOLEAN] -> [Values -> BOOLEAN]]
    <2> HIDE DEF Step
    <2> QED BY <1>2
  <1>4. ASSUME NEW d \in Values, d.is = "object", NEW f \in Fields(d)
        PROVE  f \in DOMAIN d.of /\ d.of[f] \in Values /\ Nesting[d.of[f]] < Nesting[d]
    BY <1>4, ValuesAssumption DEF Fields
  <1>5. Contracts(D, Values, BOOLEAN, Nesting)
    <2>1. ASSUME NEW g \in [Values -> BOOLEAN], NEW h \in [Values -> BOOLEAN], NEW d \in Values,
                 \A y \in Values : Nesting[y] < Nesting[d] => g[y] = h[y]
          PROVE  D[g][d] = D[h][d]
      <3>1. d.is = "object" => \A f \in Fields(d) : g[d.of[f]] = h[d.of[f]]
        BY <1>4, <2>1
      <3>2. d.is = "object" => Fields(d) = DOMAIN d.of
        BY ValuesAssumption DEF Fields
      <3>3. At(g, d) <=> At(h, d)
        BY <3>1, <3>2
      <3>4. D[g][d] = At(g, d) /\ D[h][d] = At(h, d)
        <4> HIDE DEF At
        <4> QED OBVIOUS
      <3>5. At(g, d) \in BOOLEAN /\ At(h, d) \in BOOLEAN
        OBVIOUS
      <3> HIDE DEF At, D
      <3> QED BY <3>3, <3>4, <3>5
    <2> HIDE DEF D
    <2> QED BY <1>1, <1>3, <2>1 DEF Contracts
  <1>6. PICK f \in [Values -> BOOLEAN] : f = D[f]
    <2>1. BOOLEAN # {}
      OBVIOUS
    <2> HIDE DEF D
    <2> QED BY <1>5, <2>1, SolutionExists
  <1>7. f = Step(f)
    <2> HIDE DEF Step
    <2> QED BY <1>6
  <1>8. Emits = CHOOSE g : g = Step(g)
    BY DEF Emits
  <1>9. Emits = Step(Emits)
    <2> HIDE DEF Step
    <2> QED BY <1>7, <1>8
  <1> DEFINE m == Emits
  <1>10. m = Step(m)
    BY <1>9
  <1> HIDE DEF m
  <1>11. m \in [Values -> BOOLEAN] /\ \A d \in Values : m[d] = At(m, d)
    BY <1>10
  <1> QED BY <1>11 DEF m

\* The definition of what has no object without fields, likewise.
LEMMA FullIs ==
    /\ Full \in [Values -> BOOLEAN]
    /\ \A d \in Values : Full[d] = (d.is = "object" => DOMAIN d.of # {} /\ \A f \in DOMAIN d.of : Full[d.of[f]])
  <1> DEFINE At(g, d) == d.is = "object" => DOMAIN d.of # {} /\ \A f \in DOMAIN d.of : g[d.of[f]]
             Step(g) == [d \in Values |-> At(g, d)]
             D == [g \in [Values -> BOOLEAN] |-> Step(g)]
  <1>1. Nesting \in [Values -> Nat]
    BY ValuesAssumption
  <1>2. ASSUME NEW g PROVE Step(g) \in [Values -> BOOLEAN]
    OBVIOUS
  <1>3. D \in [[Values -> BOOLEAN] -> [Values -> BOOLEAN]]
    <2> HIDE DEF Step
    <2> QED BY <1>2
  <1>4. ASSUME NEW d \in Values, d.is = "object", NEW f \in Fields(d)
        PROVE  f \in DOMAIN d.of /\ d.of[f] \in Values /\ Nesting[d.of[f]] < Nesting[d]
    BY <1>4, ValuesAssumption DEF Fields
  <1>5. Contracts(D, Values, BOOLEAN, Nesting)
    <2>1. ASSUME NEW g \in [Values -> BOOLEAN], NEW h \in [Values -> BOOLEAN], NEW d \in Values,
                 \A y \in Values : Nesting[y] < Nesting[d] => g[y] = h[y]
          PROVE  D[g][d] = D[h][d]
      <3>1. d.is = "object" => \A f \in Fields(d) : g[d.of[f]] = h[d.of[f]]
        BY <1>4, <2>1
      <3>2. d.is = "object" => Fields(d) = DOMAIN d.of
        BY ValuesAssumption DEF Fields
      <3>3. At(g, d) <=> At(h, d)
        BY <3>1, <3>2
      <3>4. D[g][d] = At(g, d) /\ D[h][d] = At(h, d)
        <4> HIDE DEF At
        <4> QED OBVIOUS
      <3>5. At(g, d) \in BOOLEAN /\ At(h, d) \in BOOLEAN
        OBVIOUS
      <3> HIDE DEF At, D
      <3> QED BY <3>3, <3>4, <3>5
    <2> HIDE DEF D
    <2> QED BY <1>1, <1>3, <2>1 DEF Contracts
  <1>6. PICK f \in [Values -> BOOLEAN] : f = D[f]
    <2>1. BOOLEAN # {}
      OBVIOUS
    <2> HIDE DEF D
    <2> QED BY <1>5, <2>1, SolutionExists
  <1>7. f = Step(f)
    <2> HIDE DEF Step
    <2> QED BY <1>6
  <1>8. Full = CHOOSE g : g = Step(g)
    BY DEF Full
  <1>9. Full = Step(Full)
    <2> HIDE DEF Step
    <2> QED BY <1>7, <1>8
  <1> DEFINE m == Full
  <1>10. m = Step(m)
    BY <1>9
  <1> HIDE DEF m
  <1>11. m \in [Values -> BOOLEAN] /\ \A d \in Values : m[d] = At(m, d)
    BY <1>10
  <1> QED BY <1>11 DEF m

\* All that is in such a value makes a path.
LEMMA FullEmits ==
    ASSUME NEW d \in Values, Full[d]
    PROVE  Emits[d] /\ (d.is = "object" => Emitted(d) = DOMAIN d.of)
  <1> DEFINE G == {e \in Values : Full[e] => Emits[e]}
  <1>1. \A e \in Values : e.is = "object" =>
            /\ Fields(e) = DOMAIN e.of
            /\ \A f \in DOMAIN e.of : e.of[f] \in Values /\ Nesting[e.of[f]] < Nesting[e]
    BY ValuesAssumption DEF Fields
  <1>2. ASSUME NEW e \in Values, \A y \in Values : Nesting[y] < Nesting[e] => y \in G
        PROVE  e \in G
    <2> SUFFICES ASSUME Full[e] PROVE Emits[e]
      OBVIOUS
    <2>1. CASE e.is # "object"
      BY <2>1, EmitsIs
    <2>2. CASE e.is = "object"
      <3>1. DOMAIN e.of # {} /\ \A f \in DOMAIN e.of : Full[e.of[f]]
        BY <2>2, FullIs
      <3>2. PICK f \in DOMAIN e.of : TRUE
        BY <3>1
      <3>3. Emits[e.of[f]] /\ f \in Fields(e)
        BY <1>1, <1>2, <2>2, <3>1
      <3> QED BY <2>2, <3>3, EmitsIs
    <2> QED BY <2>1, <2>2
  <1>3. G = Values
    <2>1. G \in SUBSET Values /\ Nesting \in [Values -> Nat]
      BY ValuesAssumption
    <2> HIDE DEF G
    <2> QED BY <1>2, <2>1, RankInduction
  <1>4. ASSUME d.is = "object" PROVE Emitted(d) = DOMAIN d.of
    <2>1. \A f \in DOMAIN d.of : Full[d.of[f]]
      BY <1>4, FullIs
    <2> QED BY <1>1, <1>3, <1>4, <2>1 DEF Emitted
  <1> QED BY <1>3, <1>4

\* What the stored merge of two values is, m that of their parts
MergeAt(m, merged, old, new) ==
    IF new.is # "object" THEN merged = new
    ELSE IF IsList(old)
    THEN /\ merged.is = "list"
         /\ DOMAIN merged.of = DOMAIN old.of
         /\ \A i \in DOMAIN merged.of : m[<<merged.of[i], old.of[i], new>>]
    ELSE /\ merged.is = "object"
         /\ DOMAIN merged.of = Fields(old) \cup Emitted(new)
         /\ \A f \in DOMAIN merged.of :
                IF f \notin Emitted(new) THEN merged.of[f] = old.of[f]
                ELSE m[<<merged.of[f], IF f \in Fields(old) THEN old.of[f] ELSE Unset, new.of[f]>>]

\* The definition of that merge, which goes by the nesting of its result.
LEMMA MergeIs ==
    \A merged \in Values, old \in Values \cup {Unset}, new \in Values :
        IsMerge[<<merged, old, new>>] = MergeAt(IsMerge, merged, old, new)
  <1> DEFINE Old == Values \cup {Unset}
             S == Values \X Old \X Values
             At(g, merged, old, new) == MergeAt(g, merged, old, new)
             Step(g) == [three \in S |-> At(g, three[1], three[2], three[3])]
             D == [g \in [S -> BOOLEAN] |-> Step(g)]
             rank == [three \in S |-> Nesting[three[1]]]
  <1>1. rank \in [S -> Nat]
    BY ValuesAssumption
  <1>2. ASSUME NEW g, NEW merged \in Values, NEW old \in Old, NEW new \in Values
        PROVE  At(g, merged, old, new) \in BOOLEAN
    BY DEF MergeAt
  <1>3. ASSUME NEW g PROVE Step(g) \in [S -> BOOLEAN]
    <2>1. \A three \in S : At(g, three[1], three[2], three[3]) \in BOOLEAN
      <3> HIDE DEF At
      <3> QED BY <1>2
    <2> HIDE DEF At
    <2> QED BY <2>1
  <1>4. D \in [[S -> BOOLEAN] -> [S -> BOOLEAN]]
    <2> HIDE DEF Step, S
    <2> QED BY <1>3
  <1>5. ASSUME NEW g \in [S -> BOOLEAN], NEW h \in [S -> BOOLEAN],
               NEW merged \in Values, NEW old \in Old, NEW new \in Values,
               \A p \in S : rank[p] < Nesting[merged] => g[p] = h[p]
        PROVE  At(g, merged, old, new) = At(h, merged, old, new)
    <2>1. ASSUME merged.is # "value", NEW k \in DOMAIN merged.of, NEW o \in Old, NEW w \in Values
          PROVE  g[<<merged.of[k], o, w>>] = h[<<merged.of[k], o, w>>]
      <3>1. merged.of[k] \in Values /\ Nesting[merged.of[k]] < Nesting[merged]
        BY <2>1, ValuesAssumption
      <3>2. rank[<<merged.of[k], o, w>>] = Nesting[merged.of[k]] /\ <<merged.of[k], o, w>> \in S
        BY <3>1
      <3> HIDE DEF rank, S
      <3> QED BY <1>5, <3>1, <3>2
    <2>3. \A k \in DOMAIN old.of : IsList(old) => old.of[k] \in Old
      BY ValuesAssumption DEF IsList
    <2>4. \A k \in Fields(old) : old.of[k] \in Old
      BY ValuesAssumption DEF Fields
    <2>5. \A k \in Emitted(new) : new.of[k] \in Values
      BY ValuesAssumption DEF Fields, Emitted
    <2>6. ASSUME new.is = "object", IsList(old), merged.is = "list", DOMAIN merged.of = DOMAIN old.of,
                 NEW k \in DOMAIN merged.of
          PROVE  g[<<merged.of[k], old.of[k], new>>] = h[<<merged.of[k], old.of[k], new>>]
      BY <2>1, <2>3, <2>6
    <2>7. ASSUME new.is = "object", merged.is = "object", NEW k \in DOMAIN merged.of, k \in Emitted(new)
          PROVE  LET o == IF k \in Fields(old) THEN old.of[k] ELSE Unset
                 IN  g[<<merged.of[k], o, new.of[k]>>] = h[<<merged.of[k], o, new.of[k]>>]
      <3> DEFINE o == IF k \in Fields(old) THEN old.of[k] ELSE Unset
      <3>1. o \in Old
        BY <2>4
      <3>2. new.of[k] \in Values
        BY <2>5, <2>7
      <3> HIDE DEF o
      <3>3. g[<<merged.of[k], o, new.of[k]>>] = h[<<merged.of[k], o, new.of[k]>>]
        BY <2>1, <2>7, <3>1, <3>2
      <3> QED BY <3>3 DEF o
    <2>2. At(g, merged, old, new) <=> At(h, merged, old, new)
      BY <2>6, <2>7 DEF MergeAt
    <2> HIDE DEF At
    <2> QED BY <1>2, <2>2
  <1>6. Contracts(D, S, BOOLEAN, rank)
    <2>1. ASSUME NEW g \in [S -> BOOLEAN], NEW h \in [S -> BOOLEAN], NEW x \in S,
                 \A y \in S : rank[y] < rank[x] => g[y] = h[y]
          PROVE  D[g][x] = D[h][x]
      <3>1. x[1] \in Values /\ x[2] \in Old /\ x[3] \in Values /\ rank[x] = Nesting[x[1]]
        OBVIOUS
      <3>2. D[g][x] = At(g, x[1], x[2], x[3]) /\ D[h][x] = At(h, x[1], x[2], x[3])
        <4> HIDE DEF At
        <4> QED OBVIOUS
      <3> HIDE DEF At, D, S, rank
      <3> QED BY <1>5, <2>1, <3>1, <3>2
    <2> HIDE DEF D, S, rank
    <2> QED BY <1>1, <1>4, <2>1 DEF Contracts
  <1>7. PICK f \in [S -> BOOLEAN] : f = D[f]
    <2>1. BOOLEAN # {}
      OBVIOUS
    <2> HIDE DEF D, S, rank
    <2> QED BY <1>6, <2>1, SolutionExists
  <1>8. f = Step(f)
    <2> HIDE DEF Step
    <2> QED BY <1>7
  <1>9. IsMerge = CHOOSE g : g = Step(g)
    BY DEF IsMerge, MergeAt
  <1>10. IsMerge = Step(IsMerge)
    <2> HIDE DEF Step
    <2> QED BY <1>8, <1>9
  <1> DEFINE m == IsMerge
  <1>11. m = Step(m)
    BY <1>10
  <1> HIDE DEF m
  <1>12. \A merged \in Values, old \in Old, new \in Values :
            m[<<merged, old, new>>] = At(m, merged, old, new)
    <2> HIDE DEF At
    <2> QED BY <1>11
  <1> QED BY <1>12 DEF m

------------------------------------------------------------------------------
(* What conforms                                                                *)

\* With the items of arrays left as they are, what conforms to the schema of a
\* spec conforms to the kind, and leads through no status-only field.
LEMMA SpecConforms ==
    ASSUME NEW s \in Schemas, ~ StatusOnlyItems(s), NEW n \in Node, NEW d \in Values,
           Conformance(SpecModel(s), FALSE)[<<n, d>>]
    PROVE  Conformance(s, FALSE)[<<n, d>>] /\ StatusOnlyFree(s)[<<n, d>>]
  <1> DEFINE t == SpecModel(s)
             ct == Conformance(t, FALSE)
             cs == Conformance(s, FALSE)
             free == StatusOnlyFree(s)
             G == {m \in Node : \A e \in Values :
                        ct[<<m, e>>] => cs[<<m, e>>] /\ free[<<m, e>>]}
  <1>1. Tree(s) /\ Tree(t)
    BY SchemaIsTree, RemovedIsTree DEF SpecModel
  <1>2. \A m \in Node :
            /\ t[m].type = s[m].type /\ t[m].required = s[m].required
            /\ t[m].fields = KeptFields(s, m) /\ Names(t, m) = Kept(s, m)
            /\ t[m].items = s[m].items
    BY RemovedIs DEF SpecModel, StatusOnlyItems
  <1> HIDE DEF t
  <1>3. \A m \in Node, e \in Values : ct[<<m, e>>] = ConformsAt(ct, t, FALSE, m, e)
    BY <1>1, ConformanceIs
  <1>4. \A m \in Node, e \in Values : cs[<<m, e>>] = ConformsAt(cs, s, FALSE, m, e)
    BY <1>1, ConformanceIs
  <1>5. \A m \in Node, e \in Values : free[<<m, e>>] = FreeAt(free, s, m, e)
    BY <1>1, StatusOnlyFreeIs
  <1> HIDE DEF ct, cs, free
  <1>6. ASSUME NEW m \in Node, \A k \in Node : Height[k] < Height[m] => k \in G
        PROVE  m \in G
    <2> SUFFICES ASSUME NEW e \in Values, ct[<<m, e>>]
                 PROVE  cs[<<m, e>>] /\ free[<<m, e>>]
      OBVIOUS
    <2>0. ConformsAt(ct, t, FALSE, m, e)
      BY <1>3
    <2>1. CASE s[m].type = "object"
      <3>0. t[m].type = "object" /\ t[m].required = s[m].required /\ Names(t, m) = Kept(s, m)
        BY <1>2, <2>1
      <3>1. /\ e.is = "object" /\ s[m].required \subseteq DOMAIN e.of
            /\ DOMAIN e.of \subseteq Kept(s, m)
            /\ \A f \in DOMAIN e.of \cap Kept(s, m) : ct[<<t[m].fields[f], e.of[f]>>]
        BY <2>0, <3>0 DEF ConformsAt
      <3>2. ASSUME NEW f \in DOMAIN e.of
            PROVE  /\ f \in Names(s, m) /\ f \in Kept(s, m)
                   /\ cs[<<s[m].fields[f], e.of[f]>>] /\ free[<<s[m].fields[f], e.of[f]>>]
        <4>1. f \in Kept(s, m) /\ f \in Names(s, m)
          BY <3>1 DEF Kept
        <4>2. t[m].fields[f] = s[m].fields[f]
          BY <1>2, <4>1 DEF KeptFields
        <4>3. s[m].fields[f] \in Node /\ Height[s[m].fields[f]] < Height[m]
          BY <1>1, <4>1 DEF Tree
        <4>4. e.of[f] \in Values
          BY <3>1, ValuesAssumption
        <4> QED BY <1>6, <3>1, <4>1, <4>2, <4>3, <4>4
      <3>3. cs[<<m, e>>]
        BY <1>4, <2>1, <3>1, <3>2 DEF ConformsAt
      <3>4. free[<<m, e>>]
        BY <1>5, <2>1, <3>1, <3>2 DEF FreeAt
      <3> QED BY <3>3, <3>4
    <2>2. CASE s[m].type = "array"
      <3>1. /\ e.is = "list"
            /\ s[m].items # NoNode => \A i \in DOMAIN e.of : ct[<<s[m].items, e.of[i]>>]
        BY <1>2, <1>3, <2>2 DEF ConformsAt
      <3>2. ASSUME s[m].items # NoNode, NEW i \in DOMAIN e.of
            PROVE  cs[<<s[m].items, e.of[i]>>] /\ free[<<s[m].items, e.of[i]>>]
        <4>1. s[m].items \in Node /\ Height[s[m].items] < Height[m]
          BY <1>1, <3>2 DEF Tree
        <4>2. e.of[i] \in Values
          BY <3>1, ValuesAssumption
        <4> QED BY <1>6, <3>1, <3>2, <4>1, <4>2
      <3>3. cs[<<m, e>>]
        BY <1>4, <2>2, <3>1, <3>2 DEF ConformsAt
      <3>4. free[<<m, e>>]
        BY <1>5, <2>2, <3>1, <3>2 DEF FreeAt
      <3> QED BY <3>3, <3>4
    <2>3. CASE s[m].type \notin {"object", "array"}
      <3>0. t[m].type \notin {"object", "array"}
        BY <1>2, <2>3
      <3>1. e.is = "value"
        BY <2>0, <3>0 DEF ConformsAt
      <3> QED BY <1>4, <1>5, <2>3, <3>1 DEF ConformsAt, FreeAt
    <2> QED BY <2>1, <2>2, <2>3
  <1>7. G = Node
    <2>1. G \in SUBSET Node /\ Height \in [Node -> Nat]
      BY NodesAssumption
    <2> HIDE DEF G
    <2> QED BY <1>6, <2>1, RankInduction
  <1> QED BY <1>7 DEF ct, cs, free, t

\* When two values conform, or one where there was none, so does what the one
\* makes of the other, if it has no object without fields.
LEMMA MergeConforms ==
    ASSUME NEW s \in Schemas, NEW n \in Node,
           NEW merged \in Values, NEW old \in Values \cup {Unset}, NEW new \in Values,
           IsMerge[<<merged, old, new>>], Full[new],
           old # Unset => Conformance(s, FALSE)[<<n, old>>], Conformance(s, FALSE)[<<n, new>>]
    PROVE  Conformance(s, FALSE)[<<n, merged>>]
  <1> DEFINE cs == Conformance(s, FALSE)
             Old == Values \cup {Unset}
             G == {m \in Node : \A x \in Values, o \in Old, w \in Values :
                        IsMerge[<<x, o, w>>] /\ Full[w] /\ (o # Unset => cs[<<m, o>>])
                            /\ cs[<<m, w>>] => cs[<<m, x>>]}
  <1>1. Tree(s) /\ Unset \notin Values
    BY SchemaIsTree, ValuesAssumption
  <1>2. \A m \in Node, e \in Values : cs[<<m, e>>] = ConformsAt(cs, s, FALSE, m, e)
    BY <1>1, ConformanceIs
  <1> HIDE DEF cs
  <1>3. ASSUME NEW m \in Node, \A k \in Node : Height[k] < Height[m] => k \in G
        PROVE  m \in G
    <2> SUFFICES ASSUME NEW x \in Values, NEW o \in Old, NEW w \in Values,
                        IsMerge[<<x, o, w>>], Full[w], o # Unset => cs[<<m, o>>], cs[<<m, w>>]
                 PROVE  cs[<<m, x>>]
      OBVIOUS
    <2>1. (o # Unset => ConformsAt(cs, s, FALSE, m, o)) /\ ConformsAt(cs, s, FALSE, m, w)
      BY <1>2
    <2>2. MergeAt(IsMerge, x, o, w)
      BY MergeIs
    <2>3. CASE w.is # "object"
      BY <2>2, <2>3 DEF MergeAt
    <2>4. CASE w.is = "object"
      <3>1. s[m].type = "object"
        BY <2>1, <2>4 DEF ConformsAt
      <3>2. o # Unset => o.is = "object"
        BY <2>1, <3>1 DEF ConformsAt
      <3>3. ~ IsList(o) /\ Emitted(w) = DOMAIN w.of /\ \A f \in DOMAIN w.of : Full[w.of[f]]
        BY <2>4, <3>2, FullEmits, FullIs DEF IsList
      <3>4. /\ x.is = "object" /\ DOMAIN x.of = Fields(o) \cup DOMAIN w.of
            /\ \A f \in DOMAIN x.of :
                    IF f \notin DOMAIN w.of THEN x.of[f] = o.of[f]
                    ELSE IsMerge[<<x.of[f], IF f \in Fields(o) THEN o.of[f] ELSE Unset, w.of[f]>>]
        BY <2>2, <2>4, <3>3 DEF MergeAt
      <3>5. /\ s[m].required \subseteq DOMAIN w.of
            /\ Fields(o) \subseteq Names(s, m) /\ DOMAIN w.of \subseteq Names(s, m)
            /\ \A f \in Fields(o) : cs[<<s[m].fields[f], o.of[f]>>]
            /\ \A f \in DOMAIN w.of : cs[<<s[m].fields[f], w.of[f]>>]
        BY <2>1, <3>1 DEF ConformsAt, Fields
      <3>6. ASSUME NEW f \in DOMAIN x.of PROVE cs[<<s[m].fields[f], x.of[f]>>]
        <4>1. CASE f \notin DOMAIN w.of
          BY <3>4, <3>5, <4>1
        <4>2. CASE f \in DOMAIN w.of
          <5> DEFINE p == IF f \in Fields(o) THEN o.of[f] ELSE Unset
          <5>1. x.of[f] \in Values /\ w.of[f] \in Values
            BY <2>4, <3>4, <4>2, ValuesAssumption
          <5>2. f \in Fields(o) => o.of[f] \in Values
            BY ValuesAssumption DEF Fields
          <5>3. p \in Old /\ (p # Unset => cs[<<s[m].fields[f], p>>])
            BY <3>5, <5>2
          <5>4. s[m].fields[f] \in Node /\ Height[s[m].fields[f]] < Height[m]
            BY <1>1, <3>5, <4>2 DEF Tree
          <5>5. IsMerge[<<x.of[f], p, w.of[f]>>]
            BY <3>4, <4>2
          <5>6. Full[w.of[f]] /\ cs[<<s[m].fields[f], w.of[f]>>]
            BY <3>3, <3>5, <4>2
          <5> HIDE DEF p
          <5> QED BY <1>3, <5>1, <5>3, <5>4, <5>5, <5>6
        <4> QED BY <4>1, <4>2
      <3>7. ConformsAt(cs, s, FALSE, m, x)
        BY <3>1, <3>4, <3>5, <3>6 DEF ConformsAt
      <3> QED BY <1>2, <3>7
    <2> QED BY <2>3, <2>4
  <1>4. G = Node
    <2>1. G \in SUBSET Node /\ Height \in [Node -> Nat]
      BY NodesAssumption
    <2> HIDE DEF G
    <2> QED BY <1>3, <2>1, RankInduction
  <1> QED BY <1>4 DEF cs

\* The deep merge of a status conforms, or is a number, when the shallow one
\* conforms, which is what is validated.
LEMMA DeepConforms ==
    ASSUME NEW s \in Schemas, NEW merged \in Values, NEW old \in Values \cup {Unset},
           NEW new \in Values, IsList(old) = IsList(new), Shallow(old, new) \in Values,
           IsMerge[<<merged, old, new>>], Full[new],
           old # Unset => IsEmpty(old) \/ Conforms(old, s, FALSE), Conforms(Shallow(old, new), s, FALSE)
    PROVE  IsEmpty(merged) \/ Conforms(merged, s, FALSE)
  <1> DEFINE cs == Conformance(s, FALSE)
             sh == Shallow(old, new)
  <1>0. Tree(s) /\ Root \in Node /\ Unset \notin Values /\ new # Unset
    BY SchemaIsTree, NodesAssumption, ValuesAssumption
  <1>1. \A e \in Values : cs[<<Root, e>>] = ConformsAt(cs, s, FALSE, Root, e)
    BY <1>0, ConformanceIs
  <1>2. cs[<<Root, sh>>] /\ (old # Unset => IsEmpty(old) \/ cs[<<Root, old>>])
    BY DEF Conforms
  <1>3. MergeAt(IsMerge, merged, old, new)
    BY MergeIs
  <1>4. CASE new.is = "value"
    BY <1>3, <1>4 DEF MergeAt, IsEmpty
  <1>5. CASE new.is = "list"
    <2>1. merged = new /\ sh = new
      BY <1>0, <1>3, <1>5 DEF MergeAt, Shallow, IsList
    <2> QED BY <2>1
  <1>6. CASE new.is = "object"
    <2>1. ~ IsList(old) /\ ~ IsList(new) /\ Fields(new) = DOMAIN new.of
      BY <1>0, <1>6 DEF IsList, Fields
    <2>2. Emitted(new) = DOMAIN new.of /\ \A f \in DOMAIN new.of : Full[new.of[f]]
      BY <1>6, FullEmits, FullIs
    <2>3. /\ sh.is = "object" /\ DOMAIN sh.of = Fields(old) \cup DOMAIN new.of
          /\ \A f \in DOMAIN sh.of : sh.of[f] = IF f \in DOMAIN new.of THEN new.of[f] ELSE old.of[f]
      BY <2>1 DEF Shallow
    <2>4. /\ merged.is = "object" /\ DOMAIN merged.of = Fields(old) \cup DOMAIN new.of
          /\ \A f \in DOMAIN merged.of :
                IF f \notin DOMAIN new.of THEN merged.of[f] = old.of[f]
                ELSE IsMerge[<<merged.of[f], IF f \in Fields(old) THEN old.of[f] ELSE Unset, new.of[f]>>]
      BY <1>3, <1>6, <2>1, <2>2 DEF MergeAt
    <2> HIDE DEF cs, sh
    <2>5. /\ ConformsAt(cs, s, FALSE, Root, sh)
          /\ old # Unset => IsEmpty(old) \/ ConformsAt(cs, s, FALSE, Root, old)
      BY <1>1, <1>2 DEF sh
    <2>6. s[Root].type = "object"
      BY <2>3, <2>5 DEF ConformsAt
    <2>7. /\ s[Root].required \subseteq DOMAIN sh.of /\ DOMAIN sh.of \subseteq Names(s, Root)
          /\ \A f \in DOMAIN sh.of : cs[<<s[Root].fields[f], sh.of[f]>>]
      BY <2>5, <2>6 DEF ConformsAt
    <2>8. \A f \in Fields(old) : old.of[f] \in Values /\ cs[<<s[Root].fields[f], old.of[f]>>]
      <3>1. CASE old = Unset
        BY <3>1 DEF Fields
      <3>2. CASE old # Unset /\ IsEmpty(old)
        BY <3>2 DEF IsEmpty, Fields
      <3>3. CASE old # Unset /\ ~ IsEmpty(old)
        BY <2>5, <2>6, <3>3, ValuesAssumption DEF ConformsAt, Fields
      <3> QED BY <3>1, <3>2, <3>3
    <2>9. ASSUME NEW f \in DOMAIN merged.of PROVE cs[<<s[Root].fields[f], merged.of[f]>>]
      <3>1. f \in DOMAIN sh.of /\ f \in Names(s, Root)
        BY <2>3, <2>4, <2>7
      <3>2. CASE f \notin DOMAIN new.of
        BY <2>3, <2>4, <2>7, <3>1, <3>2
      <3>3. CASE f \in DOMAIN new.of
        <4> DEFINE p == IF f \in Fields(old) THEN old.of[f] ELSE Unset
        <4>1. merged.of[f] \in Values /\ new.of[f] \in Values
          BY <1>6, <2>4, <3>3, ValuesAssumption
        <4>2. p \in Values \cup {Unset} /\ (p # Unset => cs[<<s[Root].fields[f], p>>])
          BY <2>8
        <4>3. s[Root].fields[f] \in Node
          BY <1>0, <3>1 DEF Tree
        <4>4. IsMerge[<<merged.of[f], p, new.of[f]>>]
          BY <2>4, <3>3
        <4>5. Full[new.of[f]] /\ cs[<<s[Root].fields[f], new.of[f]>>]
          BY <2>2, <2>3, <2>7, <3>1, <3>3
        <4> HIDE DEF p
        <4> QED BY <4>1, <4>2, <4>3, <4>4, <4>5, MergeConforms DEF cs
      <3> QED BY <3>2, <3>3
    <2>10. ConformsAt(cs, s, FALSE, Root, merged)
      BY <2>3, <2>4, <2>6, <2>7, <2>9 DEF ConformsAt
    <2> QED BY <1>1, <2>10 DEF Conforms, cs
  <1> QED BY <1>4, <1>5, <1>6, ValuesAssumption

------------------------------------------------------------------------------
(* What is documented                                                           *)

\* What is below a node is below all that this is below.
LEMMA BelowDown ==
    ASSUME NEW s, Tree(s), NEW x \in Node, NEW n \in Below(s)[x], NEW m \in Under(s, n)
    PROVE  m \in Below(s)[x]
  <1> DEFINE b == Below(s)
             G == {y \in Node : \A k \in b[y] : \A j \in Under(s, k) : j \in b[y]}
  <1>1. /\ b \in [Node -> SUBSET Node]
        /\ \A y \in Node : b[y] = {y} \cup UNION {b[j] : j \in Under(s, y)}
        /\ \A y \in Node : \A j \in Under(s, y) : j \in Node /\ Height[j] < Height[y]
    BY BelowIs
  <1> HIDE DEF b
  <1>2. ASSUME NEW y \in Node, \A j \in Node : Height[j] < Height[y] => j \in G
        PROVE  y \in G
    <2> SUFFICES ASSUME NEW k \in b[y], NEW j \in Under(s, k) PROVE j \in b[y]
      OBVIOUS
    <2>1. CASE k = y
      <3>1. j \in Node /\ j \in b[j]
        BY <1>1, <2>1
      <3> QED BY <1>1, <2>1, <3>1
    <2>2. CASE k # y
      <3>1. PICK i \in Under(s, y) : k \in b[i]
        BY <1>1, <2>2
      <3>2. i \in G
        BY <1>1, <1>2
      <3> QED BY <1>1, <3>1, <3>2
    <2> QED BY <2>1, <2>2
  <1>3. G = Node
    <2>1. G \in SUBSET Node /\ Height \in [Node -> Nat]
      BY NodesAssumption
    <2> HIDE DEF G
    <2> QED BY <1>2, <2>1, RankInduction
  <1> QED BY <1>3 DEF b

\* What is below a node after the removal was below it before.
LEMMA BelowRemoved ==
    ASSUME NEW s \in Schemas, NEW x \in Node
    PROVE  Below(RemoveStatusOnly(s))[x] \subseteq Below(s)[x]
  <1> DEFINE t == RemoveStatusOnly(s)
             b == Below(s)
             c == Below(t)
             G == {y \in Node : c[y] \subseteq b[y]}
  <1>1. Tree(s) /\ Tree(t)
    BY SchemaIsTree, RemovedIsTree
  <1>2. ASSUME NEW y \in Node PROVE Under(t, y) \subseteq Under(s, y)
    <2>1. /\ t[y].fields = KeptFields(s, y) /\ Names(t, y) = Kept(s, y)
          /\ t[y].items = IF s[y].items # NoNode /\ IsStatusOnly(s, s[y].items) THEN NoNode
                          ELSE s[y].items
      BY RemovedIs
    <2>2. \A f \in Kept(s, y) : f \in Names(s, y) /\ KeptFields(s, y)[f] = s[y].fields[f]
      BY DEF Kept, KeptFields
    <2> HIDE DEF t
    <2> QED BY <2>1, <2>2 DEF Under, FieldNodes
  <1> HIDE DEF t
  <1>3. /\ \A y \in Node : b[y] = {y} \cup UNION {b[j] : j \in Under(s, y)}
        /\ \A y \in Node : c[y] = {y} \cup UNION {c[j] : j \in Under(t, y)}
        /\ \A y \in Node : \A j \in Under(s, y) : j \in Node /\ Height[j] < Height[y]
    BY <1>1, BelowIs
  <1> HIDE DEF b, c
  <1>4. ASSUME NEW y \in Node, \A j \in Node : Height[j] < Height[y] => j \in G
        PROVE  y \in G
    BY <1>2, <1>3, <1>4
  <1>5. G = Node
    <2>1. G \in SUBSET Node /\ Height \in [Node -> Nat]
      BY NodesAssumption
    <2> HIDE DEF G
    <2> QED BY <1>4, <2>1, RankInduction
  <1> QED BY <1>5 DEF b, c, t

\* Nothing that is removed from a node is required in it
Clean(s, n) == s[n].required \cap (Names(s, n) \ Kept(s, n)) = {}

\* Where the check of required fields looks everywhere and finds nothing, nothing
\* that is removed is required.
LEMMA NothingRequired ==
    ASSUME NEW s \in Schemas, ~ StatusOnlyRequired(s)[Root], ~ Overlooks(s)
    PROVE  \A n \in Below(RemoveStatusOnly(s))[Root] : Clean(s, n)
  <1> DEFINE t == RemoveStatusOnly(s)
             b == Below(s)
             c == Below(t)
             sor == StatusOnlyRequired(s)
             G == {y \in Node : y \in b[Root] /\ ~ sor[y] => \A k \in c[y] : Clean(s, k)}
  <1>1. Tree(s) /\ Tree(t) /\ Root \in Node
    BY SchemaIsTree, RemovedIsTree, NodesAssumption
  <1>2. ASSUME NEW y \in Node
        PROVE  /\ FieldNodes(t, y) \subseteq FieldNodes(s, y)
               /\ Under(t, y) \subseteq Under(s, y)
    <2>1. /\ t[y].fields = KeptFields(s, y) /\ Names(t, y) = Kept(s, y)
          /\ t[y].items = IF s[y].items # NoNode /\ IsStatusOnly(s, s[y].items) THEN NoNode
                          ELSE s[y].items
      BY RemovedIs
    <2>2. \A f \in Kept(s, y) : f \in Names(s, y) /\ KeptFields(s, y)[f] = s[y].fields[f]
      BY DEF Kept, KeptFields
    <2> HIDE DEF t
    <2> QED BY <2>1, <2>2 DEF Under, FieldNodes
  <1> HIDE DEF t
  <1>3. /\ b \in [Node -> SUBSET Node]
        /\ \A y \in Node : b[y] = {y} \cup UNION {b[j] : j \in Under(s, y)}
        /\ \A y \in Node : c[y] = {y} \cup UNION {c[j] : j \in Under(t, y)}
        /\ \A y \in Node : \A j \in Under(s, y) : j \in Node /\ Height[j] < Height[y]
    BY <1>1, BelowIs
  <1>4. \A y \in Node : c[y] \subseteq b[y]
    BY BelowRemoved DEF t
  <1>5. \A y \in b[Root] : \A j \in Under(s, y) : j \in b[Root]
    BY <1>1, BelowDown
  <1>6. \A y \in Node :
            sor[y] = \E m \in LookedInto(s, y) :
                        RequiresStatusOnly(s, m) \/ \E k \in FieldNodes(s, m) : sor[k]
    BY <1>1, StatusOnlyRequiredIs
  <1>7. \A y \in b[Root] :
            /\ ~ (s[y].type = "object" /\ s[y].items # NoNode)
            /\ ~ (s[y].type = "array" /\ Names(s, y) # {})
            /\ ~ (s[y].type = "array" /\ \E m \in Under(s, y) :
                    (s[m].type # "object" \/ s[m].required = {} \/ Names(s, m) = {}) /\ Requires(s, m))
            /\ ~ (s[y].type \notin {"object", "array"} /\ Requires(s, y))
    BY DEF Overlooks
  <1>8. ASSUME NEW y \in Node, ~ Requires(s, y) PROVE \A k \in c[y] : Clean(s, k)
    BY <1>4, <1>8 DEF Requires, Clean
  <1>9. \A y : ~ RequiresStatusOnly(s, y) => Clean(s, y)
    BY DEF RequiresStatusOnly, Clean, Kept
  <1> HIDE DEF b, c, sor
  <1>10. ASSUME NEW y \in Node, \A k \in Node : Height[k] < Height[y] => k \in G
         PROVE  y \in G
    <2> SUFFICES ASSUME y \in b[Root], ~ sor[y] PROVE \A k \in c[y] : Clean(s, k)
      OBVIOUS
    <2>1. SUFFICES Clean(s, y) /\ \A j \in Under(t, y) : \A k \in c[j] : Clean(s, k)
      BY <1>3
    <2>2. CASE s[y].type = "object"
      <3>1. y \in LookedInto(s, y)
        BY <2>2 DEF LookedInto
      <3>2. ~ RequiresStatusOnly(s, y) /\ \A k \in FieldNodes(s, y) : ~ sor[k]
        BY <1>6, <3>1
      <3>3. Under(s, y) = FieldNodes(s, y)
        BY <1>7, <2>2 DEF Under
      <3>4. ASSUME NEW j \in Under(t, y) PROVE \A k \in c[j] : Clean(s, k)
        <4>1. j \in Under(s, y) /\ j \in Node /\ j \in b[Root] /\ ~ sor[j]
          BY <1>2, <1>3, <1>5, <3>2, <3>3
        <4>2. j \in G
          BY <1>3, <1>10, <4>1
        <4> QED BY <4>1, <4>2
      <3> QED BY <1>9, <3>2, <3>4
    <2>3. CASE s[y].type = "array"
      <3>1. Clean(s, y)
        BY <1>7, <2>3 DEF Clean
      <3>2. ASSUME NEW j \in Under(t, y) PROVE \A k \in c[j] : Clean(s, k)
        <4>1. j \in Under(s, y) /\ j \in Node /\ j \in b[Root]
          BY <1>2, <1>3, <1>5
        <4>2. CASE s[j].type # "object" \/ s[j].required = {} \/ Names(s, j) = {}
          BY <1>7, <1>8, <2>3, <4>1, <4>2
        <4>3. CASE s[j].type = "object" /\ s[j].required # {} /\ Names(s, j) # {}
          <5>1. FieldNodes(s, y) = {}
            BY <1>7, <2>3 DEF FieldNodes
          <5>2. j = s[y].items /\ j # NoNode
            BY <4>1, <5>1 DEF Under
          <5>3. j \in LookedInto(s, y)
            BY <2>3, <4>3, <5>2 DEF LookedInto
          <5>4. ~ RequiresStatusOnly(s, j) /\ \A k \in FieldNodes(s, j) : ~ sor[k]
            BY <1>6, <5>3
          <5>5. LookedInto(s, j) \subseteq {j}
            BY <4>3 DEF LookedInto
          <5>6. ~ sor[j]
            BY <1>6, <4>1, <5>4, <5>5
          <5>7. j \in G
            BY <1>3, <1>10, <4>1
          <5> QED BY <4>1, <5>6, <5>7
        <4> QED BY <4>2, <4>3
      <3> QED BY <3>1, <3>2
    <2>4. CASE s[y].type \notin {"object", "array"}
      <3>1. \A k \in c[y] : Clean(s, k)
        BY <1>7, <1>8, <2>4
      <3> QED BY <1>3, <3>1
    <2> QED BY <2>2, <2>3, <2>4
  <1>11. G = Node
    <2>1. G \in SUBSET Node /\ Height \in [Node -> Nat]
      BY NodesAssumption
    <2> HIDE DEF G
    <2> QED BY <1>10, <2>1, RankInduction
  <1> QED BY <1>1, <1>3, <1>11 DEF b, c, sor, t

\* The documentation leaves out what the validation leaves out.
LEMMA SameRemoval ==
    ASSUME NEW s \in Schemas, ValidKind(s), ~ Overlooks(s)
    PROVE  SameTree(SpecModel(s), DocumentedSpec(s))
  <1> DEFINE r == RemoveRequired(s)
             t == RemoveStatusOnly(s)
             u == RemoveStatusOnly(r)
  <1>1. \A n \in Below(t)[Root] : Clean(s, n)
    BY NothingRequired DEF ValidKind
  <1>2. Below(t)[Root] \subseteq Node
    <2>1. Tree(t) /\ Root \in Node
      BY RemovedIsTree, NodesAssumption
    <2> QED BY <2>1, BelowIs
  <1>3. ASSUME NEW n \in Node
        PROVE  /\ s[n] \in Object
               /\ r[n] = [s[n] EXCEPT !.required = @ \ (Names(s, n) \ Kept(s, n))]
               /\ r[n].papiea = s[n].papiea /\ r[n].fields = s[n].fields /\ r[n].items = s[n].items
    BY SchemasAssumption DEF RemoveRequired, Object
  <1>4. ASSUME NEW n \in Node, Clean(s, n) PROVE t[n] = u[n]
    <2>1. r[n] = s[n]
      <3>1. s[n].required \ (Names(s, n) \ Kept(s, n)) = s[n].required
        BY <1>4 DEF Clean
      <3>2. [s[n] EXCEPT !.required = s[n].required] = s[n]
        BY <1>3 DEF Object
      <3> QED BY <1>3, <3>1, <3>2
    <2>2. \A f \in Names(s, n) : s[n].fields[f] \in Node
      BY SchemaIsTree DEF Tree
    <2>3. s[n].items # NoNode => s[n].items \in Node
      BY SchemaIsTree DEF Tree
    <2>4. \A m \in Node : IsStatusOnly(r, m) <=> IsStatusOnly(s, m)
      BY <1>3 DEF IsStatusOnly
    <2> HIDE DEF r
    <2>5. Kept(r, n) = Kept(s, n)
      BY <2>1, <2>2, <2>4 DEF Kept, Names
    <2>6. KeptFields(r, n) = KeptFields(s, n)
      BY <2>1, <2>5 DEF KeptFields
    <2>7. u[n] = [r[n] EXCEPT
                    !.fields = KeptFields(r, n),
                    !.items = IF @ # NoNode /\ IsStatusOnly(r, @) THEN NoNode ELSE @]
      BY DEF RemoveStatusOnly
    <2>8. t[n] = [s[n] EXCEPT
                    !.fields = KeptFields(s, n),
                    !.items = IF @ # NoNode /\ IsStatusOnly(s, @) THEN NoNode ELSE @]
      BY DEF RemoveStatusOnly
    <2>9. (r[n].items # NoNode /\ IsStatusOnly(r, r[n].items))
              <=> (s[n].items # NoNode /\ IsStatusOnly(s, s[n].items))
      BY <2>1, <2>3, <2>4
    <2> QED BY <2>1, <2>6, <2>7, <2>8, <2>9
  <1> QED BY <1>1, <1>2, <1>4 DEF SameTree, SpecModel, DocumentedSpec

------------------------------------------------------------------------------
(* The engine                                                                   *)

\* What registered was checked
RegisteredValid ==
    registered # Unset => registered \in Registrations /\ ValidKind(registered.schema)

\* What is still to be written was checked, a partial status as the change of the
\* status that is stored
PendingValid ==
    \A r \in Handlers :
        /\ Writes(r, "spec") => ValidSpec(pending[r].data) /\ pending[r].checked
        /\ Writes(r, "status") /\ pending[r].checked =>
                ValidSpec(pending[r].data) \/ ValidStatus(pending[r].data)
        /\ Writes(r, "partial") /\ pending[r].checked =>
                /\ entity # Unset
                /\ IsList(entity.status) = IsList(pending[r].data)
                /\ ValidStatus(Shallow(entity.status, pending[r].data))

ValidatorInv ==
    /\ ValidatorTypeOK /\ RegisteredValid
    /\ SpecHasNoStatusOnly /\ StatusConforms
    /\ PendingValid

\* No kind and no entity.
LEMMA ValidatorInitInv == ValidatorInit => ValidatorInv
  BY DEF ValidatorInit, ValidatorInv, ValidatorTypeOK, RegisteredValid, SpecHasNoStatusOnly,
         StatusConforms, PendingValid, Writes

\* What passes for a spec has no value for a status-only field, and conforms to
\* the kind unless it is empty.
LEMMA ValidSpecConforms ==
    ASSUME registered \in [schema : Schemas, extra : BOOLEAN], NEW d \in Data, ValidSpec(d),
           ~ registered.extra, ~ StatusOnlyItems(registered.schema)
    PROVE  /\ StatusOnlyFree(registered.schema)[<<Root, d>>]
           /\ IsEmpty(d) \/ Conforms(d, registered.schema, FALSE)
  <1> DEFINE s == registered.schema
             free == StatusOnlyFree(s)
  <1>1. s \in Schemas /\ registered.extra = FALSE /\ Root \in Node /\ d \in Values
    BY NodesAssumption, ValuesAssumption
  <1>2. CASE IsEmpty(d)
    <2>1. free[<<Root, d>>] = FreeAt(free, s, Root, d)
      BY <1>1, SchemaIsTree, StatusOnlyFreeIs
    <2>2. FreeAt(free, s, Root, d)
      <3> HIDE DEF free, s
      <3> QED BY <1>2 DEF FreeAt, IsEmpty
    <2> QED BY <1>2, <2>1, <2>2
  <1>3. CASE ~ IsEmpty(d)
    <2>1. Validate(d, SpecModel(s), FALSE)
      BY <1>1 DEF ValidSpec
    <2>2. Conforms(d, SpecModel(s), FALSE)
      BY <1>3, <2>1 DEF Validate
    <2> QED BY <1>1, <2>2, SpecConforms DEF Conforms
  <1> QED BY <1>2, <1>3

\* What passes for a status conforms.
LEMMA ValidStatusConforms ==
    ASSUME registered \in [schema : Schemas, extra : BOOLEAN], NEW d, ValidStatus(d),
           ~ registered.extra
    PROVE  Conforms(d, registered.schema, FALSE)
  <1>1. registered.extra = FALSE
    OBVIOUS
  <1> QED BY <1>1 DEF ValidStatus, Validate

\* What passes depends on the kind, which stays.
LEMMA SameKind ==
    ASSUME registered' = registered
    PROVE  \A d : /\ ValidSpec(d)' <=> ValidSpec(d)
                  /\ ValidStatus(d)' <=> ValidStatus(d)
  BY DEF ValidSpec, ValidStatus

PendingWrites == [sets : {"spec", "status", "partial"}, data : Data, checked : BOOLEAN]

\* A write that begins, goes on or is over leaves the others as they were.
LEMMA OneChanges ==
    ASSUME ValidatorInv, registered' = registered,
           entity # Unset => entity' # Unset /\ entity'.status = entity.status,
           NEW r \in Handlers, NEW w \in PendingWrites \cup {Unset},
           pending' = [pending EXCEPT ![r] = w],
           w # Unset =>
             /\ w.sets = "spec" => ValidSpec(w.data) /\ w.checked
             /\ w.sets = "status" /\ w.checked => ValidSpec(w.data) \/ ValidStatus(w.data)
             /\ w.sets = "partial" /\ w.checked =>
                    /\ entity' # Unset
                    /\ IsList(entity'.status) = IsList(w.data)
                    /\ ValidStatus(Shallow(entity'.status, w.data))
    PROVE  pending' \in [Handlers -> PendingWrites \cup {Unset}] /\ PendingValid'
  <1>1. pending \in [Handlers -> PendingWrites \cup {Unset}] /\ PendingValid
    BY DEF ValidatorInv, ValidatorTypeOK, PendingWrites
  <1>2. pending' \in [Handlers -> PendingWrites \cup {Unset}]
    BY <1>1
  <1>3. ASSUME NEW q \in Handlers
        PROVE  /\ Writes(q, "spec")' => ValidSpec(pending'[q].data) /\ pending'[q].checked
               /\ Writes(q, "status")' /\ pending'[q].checked =>
                        ValidSpec(pending'[q].data) \/ ValidStatus(pending'[q].data)
               /\ Writes(q, "partial")' /\ pending'[q].checked =>
                        /\ entity' # Unset
                        /\ IsList(entity'.status) = IsList(pending'[q].data)
                        /\ ValidStatus(Shallow(entity'.status, pending'[q].data))
    <2>1. CASE q = r
      <3>1. pending'[q] = w
        BY <1>1, <2>1
      <3> QED BY <3>1 DEF Writes
    <2>2. CASE q # r
      <3>1. pending'[q] = pending[q]
        BY <1>1, <2>2
      <3> QED BY <1>1, <3>1 DEF Writes, PendingValid
    <2> QED BY <2>1, <2>2
  <1>4. PendingValid'
    BY <1>3, SameKind DEF PendingValid
  <1> QED BY <1>2, <1>4

\* With another status stored no partial one is the change of it.
LEMMA OutdateKeeps ==
    ASSUME ValidatorInv, registered' = registered, NEW done, Outdate(done)
    PROVE  pending' \in [Handlers -> PendingWrites \cup {Unset}] /\ PendingValid'
  <1>1. pending \in [Handlers -> PendingWrites \cup {Unset}] /\ PendingValid
    BY DEF ValidatorInv, ValidatorTypeOK, PendingWrites
  <1>2. ASSUME NEW q \in Handlers
        PROVE  \/ pending'[q] = Unset
               \/ /\ pending[q] \in PendingWrites /\ pending'[q] \in PendingWrites
                  /\ pending[q] # Unset
                  /\ pending'[q].sets = pending[q].sets /\ pending'[q].data = pending[q].data
                  /\ pending'[q].checked = (pending[q].checked /\ pending[q].sets # "partial")
    <2>1. CASE q \in done \/ pending[q] = Unset
      BY <2>1 DEF Outdate
    <2>2. CASE ~ (q \in done \/ pending[q] = Unset)
      <3>1. /\ pending[q] \in PendingWrites
            /\ pending'[q] = [pending[q] EXCEPT !.checked = @ /\ pending[q].sets # "partial"]
        BY <1>1, <2>2 DEF Outdate
      <3> QED BY <2>2, <3>1 DEF PendingWrites
    <2> QED BY <2>1, <2>2
  <1>3. pending' \in [Handlers -> PendingWrites \cup {Unset}]
    <2>1. DOMAIN pending' = Handlers /\ pending' = [q \in Handlers |-> pending'[q]]
      BY DEF Outdate
    <2>2. \A q \in Handlers : pending'[q] \in PendingWrites \cup {Unset}
      BY <1>2
    <2> QED BY <2>1, <2>2
  <1>4. ASSUME NEW q \in Handlers
        PROVE  /\ Writes(q, "spec")' => ValidSpec(pending'[q].data) /\ pending'[q].checked
               /\ Writes(q, "status")' /\ pending'[q].checked =>
                        ValidSpec(pending'[q].data) \/ ValidStatus(pending'[q].data)
               /\ ~ (Writes(q, "partial")' /\ pending'[q].checked)
    BY <1>1, <1>2 DEF Writes, PendingValid
  <1>5. PendingValid'
    BY <1>4, SameKind DEF PendingValid
  <1> QED BY <1>3, <1>5

\* A creation keeps the invariant: its status comes later.
LEMMA CreateKeeps ==
    ASSUME ValidatorInv, registered # Unset, NEW r \in Handlers,
           NEW spec \in Data, NEW status \in Data, Create(r, spec, status)
    PROVE  ValidatorInv'
  <1>1. /\ entity = Unset /\ ValidSpec(spec)
        /\ entity' = [spec |-> spec, status |-> Unset] /\ unchecked' = unchecked
        /\ registered' = registered
    BY DEF Create
  <1>2. registered \in [schema : Schemas, extra : BOOLEAN]
    BY RegistrationsAssumption DEF ValidatorInv, RegisteredValid
  <1> DEFINE checked == status = spec \/ ValidStatus(status)
             w == [sets |-> "status", data |-> status, checked |-> checked]
  <1>3. w \in PendingWrites /\ pending' = [pending EXCEPT ![r] = w]
    <2>1. checked \in BOOLEAN
      BY DEF ValidStatus
    <2>2. pending' = [pending EXCEPT ![r] = w]
      BY DEF Create, Begin
    <2> HIDE DEF checked
    <2> QED BY <2>1, <2>2 DEF PendingWrites
  <1>4. w.sets = "status" /\ w.data = status /\ (w.checked => ValidSpec(w.data) \/ ValidStatus(w.data))
    BY <1>1
  <1> HIDE DEF w
  <1>5. pending' \in [Handlers -> PendingWrites \cup {Unset}] /\ PendingValid'
    BY <1>1, <1>3, <1>4, OneChanges
  <1>6. entity' \in [spec : Data \cup {Unset}, status : Data \cup {Unset}] /\ entity'.spec = spec
        /\ entity'.status = Unset
    BY <1>1
  <1>7. ValidatorTypeOK' /\ RegisteredValid'
    BY <1>1, <1>5, <1>6 DEF ValidatorInv, ValidatorTypeOK, RegisteredValid, PendingWrites
  <1>8. SpecHasNoStatusOnly' /\ StatusConforms'
    BY <1>1, <1>2, <1>6, ValidSpecConforms DEF SpecHasNoStatusOnly, StatusConforms
  <1> QED BY <1>5, <1>7, <1>8 DEF ValidatorInv

\* A request that has been validated keeps it: it has written nothing.
LEMMA RequestKeeps ==
    ASSUME ValidatorInv, registered # Unset, NEW r \in Handlers, NEW d \in Data,
           UpdateSpec(r, d) \/ UpdateStatus(r, d) \/ Fail(r)
    PROVE  ValidatorInv'
  <1>1. registered' = registered /\ entity' = entity /\ unchecked' = unchecked
    BY DEF UpdateSpec, UpdateStatus, Fail
  <1>2. pending' \in [Handlers -> PendingWrites \cup {Unset}] /\ PendingValid'
    <2>1. CASE UpdateSpec(r, d)
      <3> DEFINE w == [sets |-> "spec", data |-> d, checked |-> TRUE]
      <3>1. ValidSpec(d) /\ pending' = [pending EXCEPT ![r] = w]
        BY <2>1 DEF UpdateSpec, Begin
      <3>2. w \in PendingWrites /\ w.sets = "spec" /\ w.data = d /\ w.checked
        BY DEF PendingWrites
      <3> HIDE DEF w
      <3> QED BY <1>1, <3>1, <3>2, OneChanges
    <2>2. CASE UpdateStatus(r, d)
      <3> DEFINE w == [sets |-> "partial", data |-> d, checked |-> TRUE]
      <3>1. /\ entity # Unset /\ IsList(entity.status) = IsList(d)
            /\ ValidStatus(Shallow(entity.status, d)) /\ pending' = [pending EXCEPT ![r] = w]
        BY <2>2 DEF UpdateStatus, Begin
      <3>2. w \in PendingWrites /\ w.sets = "partial" /\ w.data = d
        BY DEF PendingWrites
      <3> HIDE DEF w
      <3> QED BY <1>1, <3>1, <3>2, OneChanges
    <2>3. CASE Fail(r)
      <3>1. pending' = [pending EXCEPT ![r] = Unset]
        BY <2>3 DEF Fail
      <3> QED BY <1>1, <3>1, OneChanges
    <2> QED BY <2>1, <2>2, <2>3
  <1>3. ValidatorTypeOK' /\ RegisteredValid'
    BY <1>1, <1>2 DEF ValidatorInv, ValidatorTypeOK, RegisteredValid, PendingWrites
  <1>4. SpecHasNoStatusOnly' /\ StatusConforms'
    BY <1>1 DEF ValidatorInv, SpecHasNoStatusOnly, StatusConforms
  <1> QED BY <1>2, <1>3, <1>4 DEF ValidatorInv

\* What an upsert changes has the type of an entity, and what is in it.
LEMMA DocumentIs ==
    ASSUME ValidatorInv
    PROVE  /\ Document \in [spec : Data \cup {Unset}, status : Data \cup {Unset}]
           /\ entity # Unset => Document = entity
           /\ entity = Unset => Document.spec = Unset /\ Document.status = Unset
  BY DEF ValidatorInv, ValidatorTypeOK, Document

\* The write of a validated spec keeps it, and so does what it leaves to be written.
LEMMA WriteSpecKeeps ==
    ASSUME ValidatorInv, registered # Unset, NEW r \in Handlers, WriteSpec(r)
    PROVE  ValidatorInv'
  <1> DEFINE d == pending[r].data
             w == IF SpecOnly THEN [pending[r] EXCEPT !.sets = "status"] ELSE Unset
  <1>1. /\ registered' = registered /\ unchecked' = unchecked
        /\ entity' = [Document EXCEPT !.spec = d]
        /\ pending[r] # Unset /\ pending[r].sets = "spec"
        /\ pending' = [pending EXCEPT ![r] = w]
    BY DEF WriteSpec, Writes
  <1>2. registered \in [schema : Schemas, extra : BOOLEAN]
    BY RegistrationsAssumption DEF ValidatorInv, RegisteredValid
  <1>3. pending[r] \in PendingWrites /\ d \in Data /\ ValidSpec(d) /\ pending[r].checked
    BY <1>1 DEF ValidatorInv, ValidatorTypeOK, PendingWrites, PendingValid, Writes
  <1>4. /\ entity' \in [spec : Data \cup {Unset}, status : Data \cup {Unset}]
        /\ entity'.spec = d /\ entity'.status = Document.status
    <2> HIDE DEF d
    <2> QED BY <1>1, <1>3, DocumentIs
  <1>5. w \in PendingWrites \cup {Unset} /\ (w # Unset => w.sets = "status" /\ ValidSpec(w.data))
    BY <1>3 DEF PendingWrites
  <1>6. entity' # Unset
    BY <1>4, ValuesAssumption
  <1> HIDE DEF w
  <1>7. pending' \in [Handlers -> PendingWrites \cup {Unset}] /\ PendingValid'
    BY <1>1, <1>4, <1>5, <1>6, DocumentIs, OneChanges
  <1>8. ValidatorTypeOK' /\ RegisteredValid'
    BY <1>1, <1>4, <1>7 DEF ValidatorInv, ValidatorTypeOK, RegisteredValid, PendingWrites
  <1>9. SpecHasNoStatusOnly'
    BY <1>1, <1>2, <1>3, <1>4, ValidSpecConforms DEF SpecHasNoStatusOnly
  <1>10. StatusConforms'
    BY <1>1, <1>4, DocumentIs DEF ValidatorInv, StatusConforms
  <1> QED BY <1>7, <1>8, <1>9, <1>10 DEF ValidatorInv

\* The write of a status keeps it, if it was validated or counts as unchecked.
LEMMA WriteStatusKeeps ==
    ASSUME ValidatorInv, registered # Unset, NEW r \in Handlers, WriteStatus(r)
    PROVE  ValidatorInv'
  <1> DEFINE d == pending[r].data
  <1>1. /\ registered' = registered /\ unchecked' = ~ pending[r].checked
        /\ entity' = [Document EXCEPT !.status = d]
        /\ pending[r] # Unset /\ pending[r].sets = "status" /\ Outdate({r})
    BY DEF WriteStatus, Writes
  <1>2. registered \in [schema : Schemas, extra : BOOLEAN]
    BY RegistrationsAssumption DEF ValidatorInv, RegisteredValid
  <1>3. /\ pending[r] \in PendingWrites /\ d \in Data
        /\ pending[r].checked => ValidSpec(d) \/ ValidStatus(d)
    BY <1>1 DEF ValidatorInv, ValidatorTypeOK, PendingWrites, PendingValid, Writes
  <1>4. /\ entity' \in [spec : Data \cup {Unset}, status : Data \cup {Unset}]
        /\ entity'.spec = Document.spec /\ entity'.status = d
    <2> HIDE DEF d
    <2> QED BY <1>1, <1>3, DocumentIs
  <1>5. pending' \in [Handlers -> PendingWrites \cup {Unset}] /\ PendingValid'
    BY <1>1, OutdateKeeps
  <1>6. unchecked' \in BOOLEAN
    BY <1>1
  <1>7. ValidatorTypeOK' /\ RegisteredValid'
    BY <1>1, <1>4, <1>5, <1>6 DEF ValidatorInv, ValidatorTypeOK, RegisteredValid, PendingWrites
  <1>8. SpecHasNoStatusOnly'
    BY <1>1, <1>4, DocumentIs DEF ValidatorInv, SpecHasNoStatusOnly
  <1>9. StatusConforms'
    BY <1>1, <1>2, <1>3, <1>4, ValidSpecConforms, ValidStatusConforms DEF StatusConforms
  <1> QED BY <1>5, <1>7, <1>8, <1>9 DEF ValidatorInv

\* The write of a partial status keeps it: what is stored conforms with what was
\* validated.
LEMMA WritePartialKeeps ==
    ASSUME ValidatorInv, registered # Unset, NEW r \in Handlers, WritePartial(r)
    PROVE  ValidatorInv'
  <1> DEFINE d == pending[r].data
             old == Document.status
  <1>1. PICK merged \in Data :
            /\ IsMerge[<<merged, old, d>>]
            /\ entity' = [Document EXCEPT !.status = merged]
    BY DEF WritePartial
  <1>2. /\ registered' = registered
        /\ unchecked' = (unchecked \/ ~ pending[r].checked \/ ~ Full[d])
        /\ pending[r] # Unset /\ pending[r].sets = "partial" /\ Outdate({r})
    BY DEF WritePartial, Writes
  <1>3. registered \in [schema : Schemas, extra : BOOLEAN]
    BY RegistrationsAssumption DEF ValidatorInv, RegisteredValid
  <1>4. /\ pending[r] \in PendingWrites /\ d \in Data /\ Data \subseteq Values
        /\ pending[r].checked =>
                entity # Unset /\ IsList(entity.status) = IsList(d) /\ ValidStatus(Shallow(entity.status, d))
    BY <1>2, ValuesAssumption DEF ValidatorInv, ValidatorTypeOK, PendingWrites, PendingValid, Writes
  <1>5. /\ entity' \in [spec : Data \cup {Unset}, status : Data \cup {Unset}]
        /\ entity'.spec = Document.spec /\ entity'.status = merged /\ old \in Data \cup {Unset}
    BY <1>1, DocumentIs
  <1>6. pending' \in [Handlers -> PendingWrites \cup {Unset}] /\ PendingValid'
    BY <1>2, OutdateKeeps
  <1>7. unchecked' \in BOOLEAN
    BY <1>2
  <1>8. ValidatorTypeOK' /\ RegisteredValid'
    BY <1>2, <1>5, <1>6, <1>7 DEF ValidatorInv, ValidatorTypeOK, RegisteredValid, PendingWrites
  <1>9. SpecHasNoStatusOnly'
    BY <1>2, <1>5, DocumentIs DEF ValidatorInv, SpecHasNoStatusOnly
  <1>10. ASSUME ~ unchecked', ~ registered.extra, ~ StatusOnlyItems(registered.schema)
         PROVE  IsEmpty(merged) \/ Conforms(merged, registered.schema, FALSE)
    <2>1. ~ unchecked /\ pending[r].checked /\ Full[d]
      BY <1>2, <1>4, <1>10 DEF ValidatorInv, ValidatorTypeOK, PendingWrites
    <2>2. entity # Unset /\ old = entity.status
      BY <1>4, <2>1, DocumentIs
    <2>3. IsList(old) = IsList(d) /\ ValidStatus(Shallow(old, d))
      BY <1>4, <2>1, <2>2
    <2>4. old # Unset => IsEmpty(old) \/ Conforms(old, registered.schema, FALSE)
      BY <1>10, <2>1, <2>2 DEF ValidatorInv, StatusConforms
    <2>5. Conforms(Shallow(old, d), registered.schema, FALSE)
      <3> HIDE DEF old, d
      <3> QED BY <1>3, <1>10, <2>3, ValidStatusConforms
    <2>6. Shallow(old, d) \in Values
      BY <1>4, <1>5, <2>3, ValuesAssumption
    <2>7. /\ registered.schema \in Schemas /\ merged \in Values
          /\ old \in Values \cup {Unset} /\ d \in Values
      BY <1>3, <1>4, <1>5
    <2> HIDE DEF old, d
    <2> QED BY <1>1, <2>1, <2>3, <2>4, <2>5, <2>6, <2>7, DeepConforms
  <1>11. StatusConforms'
    BY <1>2, <1>5, <1>10 DEF StatusConforms
  <1> QED BY <1>6, <1>8, <1>9, <1>11 DEF ValidatorInv

\* A whole status keeps it, and so does a deletion.
LEMMA AtomicKeeps ==
    ASSUME ValidatorInv, registered # Unset, Delete \/ \E d \in Data : ReplaceStatus(d)
    PROVE  ValidatorInv'
  <1>1. registered' = registered /\ unchecked' = FALSE /\ Outdate({})
    BY DEF ReplaceStatus, Delete
  <1>2. registered \in [schema : Schemas, extra : BOOLEAN]
    BY RegistrationsAssumption DEF ValidatorInv, RegisteredValid
  <1>3. pending' \in [Handlers -> PendingWrites \cup {Unset}] /\ PendingValid'
    BY <1>1, OutdateKeeps
  <1>4. ASSUME NEW d \in Data, ReplaceStatus(d) PROVE ValidatorInv'
    <2>1. /\ entity' \in [spec : Data \cup {Unset}, status : Data \cup {Unset}]
          /\ entity'.spec = Document.spec /\ entity'.status = d /\ ValidStatus(d)
      BY <1>4, DocumentIs DEF ReplaceStatus
    <2>2. ValidatorTypeOK' /\ RegisteredValid'
      BY <1>1, <1>3, <2>1 DEF ValidatorInv, ValidatorTypeOK, RegisteredValid, PendingWrites
    <2>3. SpecHasNoStatusOnly'
      BY <1>1, <2>1, DocumentIs DEF ValidatorInv, SpecHasNoStatusOnly
    <2>4. StatusConforms'
      BY <1>1, <1>2, <2>1, ValidStatusConforms DEF StatusConforms
    <2> QED BY <1>3, <2>2, <2>3, <2>4 DEF ValidatorInv
  <1>5. CASE Delete
    <2>1. entity' = Unset
      BY <1>5 DEF Delete
    <2>2. ValidatorTypeOK' /\ RegisteredValid'
      BY <1>1, <1>3, <2>1 DEF ValidatorInv, ValidatorTypeOK, RegisteredValid, PendingWrites
    <2>3. SpecHasNoStatusOnly' /\ StatusConforms'
      BY <2>1 DEF SpecHasNoStatusOnly, StatusConforms
    <2> QED BY <1>3, <2>2, <2>3 DEF ValidatorInv
  <1> QED BY <1>4, <1>5

\* Every operation keeps the invariant.
LEMMA ValidatorNextKeeps == ValidatorInv /\ [ValidatorNext]_validatorVars => ValidatorInv'
  <1> SUFFICES ASSUME ValidatorInv, [ValidatorNext]_validatorVars
               PROVE  ValidatorInv'
    OBVIOUS
  <1>1. ASSUME NEW kind \in Registrations, RegisterKind(kind)
        PROVE  ValidatorInv'
    <2>1. /\ registered = Unset /\ registered' = kind /\ ValidKind(kind.schema)
          /\ pending' = pending /\ entity' = entity /\ unchecked' = unchecked
      BY <1>1 DEF RegisterKind
    <2>2. entity = Unset /\ \A r \in Handlers : pending[r] = Unset
      BY <2>1 DEF ValidatorInv, ValidatorTypeOK
    <2>3. RegisteredValid' /\ PendingValid'
      BY <2>1, <2>2 DEF RegisteredValid, PendingValid, Writes, ValidKind
    <2>4. ValidatorTypeOK'
      BY <2>1, <2>2, RegistrationsAssumption DEF ValidatorInv, ValidatorTypeOK
    <2> QED BY <2>1, <2>2, <2>3, <2>4 DEF ValidatorInv, SpecHasNoStatusOnly, StatusConforms
  <1>2. ASSUME registered # Unset, NEW r \in Handlers, Handle(r)
        PROVE  ValidatorInv'
    <2>1. ASSUME NEW spec \in Data, NEW status \in Returned \cup {spec}, Create(r, spec, status)
          PROVE  ValidatorInv'
      <3>1. status \in Data
        BY ValuesAssumption
      <3> QED BY <1>2, <2>1, <3>1, CreateKeeps
    <2>2. ASSUME NEW d \in Data, UpdateSpec(r, d) \/ UpdateStatus(r, d)
          PROVE  ValidatorInv'
      BY <1>2, <2>2, RequestKeeps
    <2>3. CASE Fail(r)
      <3>1. pending[r].data \in Data
        BY <2>3 DEF Fail, ValidatorInv, ValidatorTypeOK
      <3> QED BY <1>2, <2>3, <3>1, RequestKeeps
    <2> QED BY <1>2, <2>1, <2>2, <2>3, WriteSpecKeeps, WriteStatusKeeps, WritePartialKeeps DEF Handle
  <1>3. ASSUME registered # Unset, NEW d \in Data, ReplaceStatus(d)
        PROVE  ValidatorInv'
    BY <1>3, AtomicKeeps
  <1>4. ASSUME registered # Unset, Delete
        PROVE  ValidatorInv'
    BY <1>4, AtomicKeeps
  <1>5. CASE UNCHANGED validatorVars
    BY <1>5 DEF validatorVars, ValidatorInv, ValidatorTypeOK, RegisteredValid, SpecHasNoStatusOnly,
                StatusConforms, PendingValid, Writes, ValidKind, ValidSpec, ValidStatus
  <1> QED BY <1>1, <1>2, <1>3, <1>4, <1>5 DEF ValidatorNext

\* The invariant, of every behaviour.
LEMMA ValidatorInvariant == ValidatorSpec => []ValidatorInv
  BY ValidatorInitInv, ValidatorNextKeeps, PTL DEF ValidatorSpec

\* The variables have their types.
THEOREM ValidatorTypeCorrect == ValidatorSpec => []ValidatorTypeOK
  <1>1. ValidatorInv => ValidatorTypeOK
    BY DEF ValidatorInv
  <1> QED BY <1>1, ValidatorInvariant, PTL

\* SpecHasNoStatusOnly, for kinds, data and sequences of operations of every size.
THEOREM SpecsCorrect == ValidatorSpec => []SpecHasNoStatusOnly
  <1>1. ValidatorInv => SpecHasNoStatusOnly
    BY DEF ValidatorInv
  <1> QED BY <1>1, ValidatorInvariant, PTL

\* StatusConforms, likewise.
THEOREM StatusesCorrect == ValidatorSpec => []StatusConforms
  <1>1. ValidatorInv => StatusConforms
    BY DEF ValidatorInv
  <1> QED BY <1>1, ValidatorInvariant, PTL

\* DocumentedAsValidated, for every description.
THEOREM DocumentationCorrect == ValidatorSpec => []DocumentedAsValidated
  <1>1. ValidatorInv => DocumentedAsValidated
    BY SameRemoval, RegistrationsAssumption DEF ValidatorInv, RegisteredValid, DocumentedAsValidated
  <1> QED BY <1>1, ValidatorInvariant, PTL
=============================================================================
