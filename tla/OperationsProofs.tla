----------------------------- MODULE OperationsProofs -----------------------------
(***************************************************************************)
(* What Operations says of generated code, of the documents it sends and   *)
(* of the depth limit holds for all schemas, documents, limits and         *)
(* scalarTypes.                                                            *)
(***************************************************************************)
EXTENDS Operations, FiniteSetTheorems, WellFoundedInduction, TLAPS

--------------------------------------------------------------------------------
(* Closures.  They are defined as recursive functions over finite domains;     *)
(* Closure(step, S) is the least set that has S and that steps do not leave.    *)

More(step, S) == S \cup UNION {step[c] : c \in S}
IsGrow(g, step) == g = [S \in SUBSET DOMAIN step |-> IF More(step, S) = S THEN S ELSE g[More(step, S)]]

(* Closure is what the recursion says. *)
LEMMA ClosureIs == ASSUME NEW step, NEW start PROVE Closure(step, start) = (CHOOSE g : IsGrow(g, step))[start]
BY DEF Closure, IsGrow, More

\* Steps from the set stay in it.
Closed(step, Z) == \A c \in Z : step[c] \subseteq Z

\* Steps lead from finitely many places to such places.
IsStep(step) == IsFiniteSet(DOMAIN step) /\ \A c \in DOMAIN step : step[c] \subseteq DOMAIN step

Least(step, S) == {c \in DOMAIN step : \A Z \in SUBSET DOMAIN step : S \subseteq Z /\ Closed(step, Z) => c \in Z}

(* The least closed set has the start and is closed ... *)
LEMMA LeastFacts ==
  ASSUME NEW step, IsStep(step), NEW S \in SUBSET DOMAIN step
  PROVE  /\ S \subseteq Least(step, S) /\ Least(step, S) \subseteq DOMAIN step
         /\ Closed(step, Least(step, S))
<1>1. S \subseteq Least(step, S) /\ Least(step, S) \subseteq DOMAIN step
  BY DEF Least
<1>2. Closed(step, Least(step, S))
  <2> SUFFICES ASSUME NEW c \in Least(step, S), NEW b \in step[c] PROVE b \in Least(step, S)
    BY DEF Closed
  <2>1. c \in DOMAIN step /\ b \in DOMAIN step
    BY DEF Least, IsStep
  <2> QED BY <2>1 DEF Least, Closed
<1> QED BY <1>1, <1>2

(* ... and lies in every closed set, of places or of anything else. *)
LEMMA LeastIn ==
  ASSUME NEW step, IsStep(step), NEW S \in SUBSET DOMAIN step,
         NEW Z, S \subseteq Z, \A c \in Z \cap DOMAIN step : step[c] \subseteq Z
  PROVE  Least(step, S) \subseteq Z
<1> DEFINE Y == Z \cap DOMAIN step
<1>1. Y \in SUBSET DOMAIN step /\ S \subseteq Y
  OBVIOUS
<1>2. Closed(step, Y)
  BY DEF Closed, IsStep
<1> HIDE DEF Y
<1>3. Least(step, S) \subseteq Y
  BY <1>1, <1>2 DEF Least
<1> QED BY <1>3 DEF Y

(* Among sets of places there is one without a smaller one. *)
LEMMA SmallestSubset ==
  ASSUME NEW U, IsFiniteSet(U), NEW T \in SUBSET SUBSET U, T # {}
  PROVE  \E L \in T : \A K \in T : K \subseteq L => K = L
<1>1. T \subseteq FiniteSubsetsOf(U)
  BY FS_FiniteSubsetsOfFinite
<1>2. IsWellFoundedOn(StrictSubsetOrdering(U), FiniteSubsetsOf(U))
  BY FS_StrictSubsetOrderingWellFounded
<1>3. PICK L \in T : \A K \in T : ~(<<K, L>> \in StrictSubsetOrdering(U))
  BY <1>1, <1>2, WFMin, Zenon
<1> QED BY <1>3 DEF StrictSubsetOrdering

(* A step changes nothing in it. *)
LEMMA LeastMore ==
  ASSUME NEW step, IsStep(step), NEW S \in SUBSET DOMAIN step
  PROVE  /\ More(step, S) \in SUBSET DOMAIN step
         /\ Least(step, S) = IF More(step, S) = S THEN S ELSE Least(step, More(step, S))
<1> DEFINE T == More(step, S)
<1>1. T \in SUBSET DOMAIN step /\ S \subseteq T
  BY DEF More, IsStep
<1>2. T = S => Closed(step, S)
  BY DEF More, Closed
<1>3. T = S => Least(step, S) = S
  BY <1>2, LeastFacts, LeastIn DEF Closed
<1>4. T \subseteq Least(step, S)
  BY LeastFacts DEF More, Closed
<1> HIDE DEF T
<1>5. Least(step, T) \subseteq Least(step, S)
  BY <1>1, <1>4, LeastFacts, LeastIn DEF Closed
<1>6. Least(step, S) \subseteq Least(step, T)
  BY <1>1, LeastFacts, LeastIn DEF Closed
<1> QED BY <1>1, <1>3, <1>5, <1>6 DEF T

(* Whatever obeys the recursion is the least set: among the starts for which it were not, *)
(* take one with the fewest places left; one step leads to another one, with fewer.       *)
LEMMA GrowIsLeast ==
  ASSUME NEW step, IsStep(step), NEW g, IsGrow(g, step), NEW start \in SUBSET DOMAIN step
  PROVE  g[start] = Least(step, start)
<1> DEFINE U == DOMAIN step
           wrong == {S \in SUBSET U : g[S] # Least(step, S)}
           left == {U \ S : S \in wrong}
<1> SUFFICES ASSUME wrong # {} PROVE FALSE
  OBVIOUS
<1>1. left \in SUBSET SUBSET U /\ left # {}
  OBVIOUS
<1>2. PICK L \in left : \A K \in left : K \subseteq L => K = L
  <2> HIDE DEF left
  <2> QED BY <1>1, SmallestSubset DEF IsStep
<1>3. PICK S \in wrong : L = U \ S
  OBVIOUS
<1>4. /\ More(step, S) \in SUBSET U
      /\ Least(step, S) = IF More(step, S) = S THEN S ELSE Least(step, More(step, S))
  BY LeastMore
<1>5. g[S] = IF More(step, S) = S THEN S ELSE g[More(step, S)]
  BY DEF IsGrow
<1>6. More(step, S) # S /\ More(step, S) \in wrong
  BY <1>4, <1>5
<1>7. U \ More(step, S) \in left
  BY <1>6
<1>8. U \ More(step, S) \subseteq L
  BY <1>3 DEF More
<1>9. U \ More(step, S) = U \ S
  <2> HIDE DEF left
  <2> QED BY <1>2, <1>3, <1>7, <1>8
<1> QED BY <1>4, <1>6, <1>9 DEF More

(* Something obeys the recursion, so Closure does. *)
LEMMA ClosureIsLeast ==
  ASSUME NEW step, IsStep(step), NEW start \in SUBSET DOMAIN step
  PROVE  Closure(step, start) = Least(step, start)
<1>1. IsGrow([S \in SUBSET DOMAIN step |-> Least(step, S)], step)
  <2> DEFINE g == [S \in SUBSET DOMAIN step |-> Least(step, S)]
  <2>1. \A S \in SUBSET DOMAIN step :
          Least(step, S) = IF More(step, S) = S THEN S ELSE g[More(step, S)]
    BY LeastMore
  <2> QED BY <2>1 DEF IsGrow
<1>2. Closure(step, start) = (CHOOSE g : IsGrow(g, step))[start]
  BY DEF Closure, IsGrow, More
<1>3. IsGrow(CHOOSE g : IsGrow(g, step), step)
  BY <1>1
<1> QED BY <1>2, <1>3, GrowIsLeast

(* The two facts that everything below rests on *)
LEMMA ClosureFacts ==
  ASSUME NEW step, IsStep(step), NEW S \in SUBSET DOMAIN step
  PROVE  /\ S \subseteq Closure(step, S)
         /\ Closure(step, S) \subseteq DOMAIN step
         /\ \A c \in Closure(step, S) : step[c] \subseteq Closure(step, S)
BY ClosureIsLeast, LeastFacts DEF Closed

(* ... and in the other direction *)
LEMMA ClosureIn ==
  ASSUME NEW step, IsStep(step), NEW S \in SUBSET DOMAIN step,
         NEW Z, S \subseteq Z, \A c \in Z \cap DOMAIN step : step[c] \subseteq Z
  PROVE  Closure(step, S) \subseteq Z
BY ClosureIsLeast, LeastIn

--------------------------------------------------------------------------------
(* limitDepth().  Each visit of traverse() is one of a selection of the expanded *)
(* document, with its depth and the fragments around it, up to where it throws.  *)

OnwardStep(d, skipped) == [x \in Nodes(d) |-> Onward(d, x, skipped)]

TraverseStep(d, m) ==
  [v \in Visits(d, m) |-> IF Throws(d, m, v) THEN {} ELSE Below(d, m, v)]

ExpandedStep(d, m) ==
  [p \in Nodes(d) \X (0..m) |->
     {<<y, IF IsCounted(d, p[1]) /\ p[2] < m THEN p[2] + 1 ELSE p[2]>> :
        y \in Onward(d, p[1], Introspection)}]

(* Selections lead to selections. *)
LEMMA OnwardIsStep ==
  ASSUME NEW d, IsDocument(d), NEW skipped
  PROVE  IsStep(OnwardStep(d, skipped)) /\ RootSelections(d) \subseteq Nodes(d)
<1>1. \A x \in Nodes(d) : Onward(d, x, skipped) \subseteq Nodes(d)
  BY DEF Onward, Spread, IsDocument
<1>2. RootSelections(d) \subseteq Nodes(d)
  BY DEF RootSelections, IsDocument
<1> QED BY <1>1, <1>2 DEF IsStep, OnwardStep, IsDocument

(* Triples from finite sets are finitely many. *)
LEMMA FiniteTriples ==
  ASSUME NEW A, NEW B, NEW C, IsFiniteSet(A), IsFiniteSet(B), IsFiniteSet(C)
  PROVE  IsFiniteSet(A \X B \X C)
<1> DEFINE f == [p \in (A \X B) \X C |-> <<p[1][1], p[1][2], p[2]>>]
<1>1. IsFiniteSet((A \X B) \X C)
  BY FS_Product
<1>2. f \in [(A \X B) \X C -> A \X B \X C]
  OBVIOUS
<1>3. ASSUME NEW w \in A \X B \X C PROVE \E p \in (A \X B) \X C : f[p] = w
  <2>1. <<<<w[1], w[2]>>, w[3]>> \in (A \X B) \X C
    OBVIOUS
  <2>2. f[<<<<w[1], w[2]>>, w[3]>>] = w
    BY <2>1
  <2> QED BY <2>1, <2>2
<1> HIDE DEF f
<1>4. f \in Surjection((A \X B) \X C, A \X B \X C)
  BY <1>2, <1>3 DEF Surjection
<1> QED BY <1>1, <1>4, FS_Surjection

(* A document has finitely many names. *)
LEMMA FiniteNames ==
  ASSUME NEW d, IsDocument(d)
  PROVE  IsFiniteSet({d.nodes[x].name : x \in Nodes(d)})
<1> DEFINE names == {d.nodes[x].name : x \in Nodes(d)}
           f == [x \in Nodes(d) |-> d.nodes[x].name]
<1>1. f \in [Nodes(d) -> names] /\ \A a \in names : \E x \in Nodes(d) : f[x] = a
  OBVIOUS
<1> HIDE DEF f, names
<1>2. f \in Surjection(Nodes(d), names)
  BY <1>1 DEF Surjection
<1>3. IsFiniteSet(names)
  BY <1>2, FS_Surjection DEF IsDocument
<1> QED BY <1>3 DEF names

(* There are finitely many visits of traverse(). *)
LEMMA TraverseIsStep ==
  ASSUME NEW d, IsDocument(d), NEW m \in Nat
  PROVE  /\ IsStep(TraverseStep(d, m))
         /\ RootSelections(d) \X {-1} \X {{}} \subseteq Visits(d, m)
<1> DEFINE names == {d.nodes[x].name : x \in Nodes(d)}
<1>1. IsFiniteSet(Visits(d, m))
  <2>1. IsFiniteSet(names)
    BY FiniteNames
  <2> HIDE DEF names
  <2>2. IsFiniteSet(SUBSET names)
    BY <2>1, FS_SUBSET
  <2>3. IsFiniteSet((-1)..m)
    <3>1. -1 \in Int /\ m \in Int
      OBVIOUS
    <3> QED BY <3>1, FS_Interval
  <2> QED BY <2>2, <2>3, FiniteTriples DEF Visits, IsDocument, names
<1>2. ASSUME NEW v \in Visits(d, m), ~Throws(d, m, v), NEW w \in Below(d, m, v)
      PROVE  w \in Visits(d, m)
  <2> DEFINE x == v[1]
  <2>1. /\ x \in Nodes(d) /\ v[2] \in -1..m /\ v[3] \subseteq names /\ d.nodes[x].name \in names
        /\ d.nodes[x].selections \subseteq Nodes(d) /\ Spread(d, x) \subseteq Nodes(d)
    BY DEF Visits, IsDocument, Spread
  <2> HIDE DEF x, names
  <2>2. CASE d.nodes[x].kind = "spread"
    <3>1. w \in Spread(d, x) \X {v[2]} \X {v[3] \cup {d.nodes[x].name}}
      BY <1>2, <2>2 DEF Below, IsCounted, x
    <3> QED BY <2>1, <3>1 DEF Visits, names
  <2>3. CASE d.nodes[x].kind = "inline"
    <3>1. w \in d.nodes[x].selections \X {v[2]} \X {v[3]}
      BY <1>2, <2>3 DEF Below, IsCounted, x
    <3> QED BY <2>1, <3>1 DEF Visits, names
  <2>4. CASE d.nodes[x].kind = "field" /\ IsCounted(d, x)
    <3>1. v[2] + 1 \in -1..m
      BY <1>2, <2>1, <2>4 DEF Throws, x
    <3>2. w \in d.nodes[x].selections \X {v[2] + 1} \X {v[3]}
      BY <1>2, <2>4 DEF Below, x
    <3> QED BY <2>1, <3>1, <3>2 DEF Visits, names
  <2>5. CASE d.nodes[x].kind = "field" /\ ~IsCounted(d, x)
    BY <1>2, <2>5 DEF Below, x
  <2> QED BY <2>1, <2>2, <2>3, <2>4, <2>5 DEF IsDocument
<1>3. RootSelections(d) \X {-1} \X {{}} \subseteq Visits(d, m)
  BY OnwardIsStep DEF Visits
<1> HIDE DEF names
<1>4. \A v \in Visits(d, m) : TraverseStep(d, m)[v] \subseteq Visits(d, m)
  BY <1>2 DEF TraverseStep
<1> QED BY <1>1, <1>3, <1>4 DEF IsStep, TraverseStep

(* Depths are cut off, so there are finitely many in the expanded document as well. *)
LEMMA ExpandedIsStep ==
  ASSUME NEW d, IsDocument(d), NEW m \in Nat
  PROVE  /\ IsStep(ExpandedStep(d, m))
         /\ RootSelections(d) \X {0} \subseteq Nodes(d) \X (0..m)
<1>1. IsFiniteSet(Nodes(d) \X (0..m))
  <2>1. IsFiniteSet(0..m)
    BY FS_Interval
  <2> QED BY <2>1, FS_Product DEF IsDocument
<1>2. \A x \in Nodes(d) : Onward(d, x, Introspection) \subseteq Nodes(d)
  BY OnwardIsStep DEF IsStep, OnwardStep
<1>3. \A p \in Nodes(d) \X (0..m) :
        (IF IsCounted(d, p[1]) /\ p[2] < m THEN p[2] + 1 ELSE p[2]) \in 0..m
  OBVIOUS
<1>4. \A p \in Nodes(d) \X (0..m) : ExpandedStep(d, m)[p] \subseteq Nodes(d) \X (0..m)
  BY <1>2, <1>3 DEF ExpandedStep
<1>5. RootSelections(d) \X {0} \subseteq Nodes(d) \X (0..m)
  BY OnwardIsStep
<1> QED BY <1>1, <1>4, <1>5 DEF IsStep, ExpandedStep

\* What a visit says of the visits below it
DepthBelow(d, v) == IF IsCounted(d, v[1]) THEN v[2] + 1 ELSE v[2]

SpreadsBelow(d, v) ==
  IF d.nodes[v[1]].kind = "spread" THEN v[3] \cup {d.nodes[v[1]].name} ELSE v[3]

(* traverse() goes where the expanded document goes. *)
LEMMA BelowIsOnward ==
  ASSUME NEW d, IsDocument(d), NEW m, NEW v, v[1] \in Nodes(d)
  PROVE  Below(d, m, v) =
           Onward(d, v[1], Introspection) \X {DepthBelow(d, v)} \X {SpreadsBelow(d, v)}
<1> DEFINE x == v[1]
<1>1. CASE d.nodes[x].kind = "spread"
  BY <1>1 DEF Below, Onward, DepthBelow, SpreadsBelow, IsCounted
<1>2. CASE d.nodes[x].kind = "inline"
  BY <1>2 DEF Below, Onward, DepthBelow, SpreadsBelow, IsCounted
<1>3. CASE d.nodes[x].kind = "field" /\ IsCounted(d, x)
  BY <1>3 DEF Below, Onward, DepthBelow, SpreadsBelow, IsCounted
<1>4. CASE d.nodes[x].kind = "field" /\ ~IsCounted(d, x)
  <2>1. Below(d, m, v) = {} /\ Onward(d, x, Introspection) = {}
    BY <1>4 DEF Below, Onward, IsCounted
  <2> QED BY <2>1
<1> QED BY <1>1, <1>2, <1>3, <1>4 DEF IsDocument

(* The visits of a document that is accepted. *)
LEMMA AcceptedVisits ==
  ASSUME NEW d, IsDocument(d), NEW m \in Nat, LimitDepthAccepts(d, m)
  PROVE  /\ \A x \in RootSelections(d) : <<x, -1, {}>> \in Traverse(d, m)
         /\ \A v \in Traverse(d, m) :
              /\ v \in Visits(d, m) /\ ~Throws(d, m, v)
              /\ \A y \in Onward(d, v[1], Introspection) :
                   <<y, DepthBelow(d, v), SpreadsBelow(d, v)>> \in Traverse(d, m)
<1> DEFINE step == TraverseStep(d, m)
           start == RootSelections(d) \X {-1} \X {{}}
<1>1. IsStep(step) /\ start \in SUBSET DOMAIN step /\ DOMAIN step = Visits(d, m)
  BY TraverseIsStep DEF TraverseStep
<1>2. Traverse(d, m) = Closure(step, start)
  BY DEF Traverse, TraverseStep
<1>3. /\ start \subseteq Traverse(d, m) /\ Traverse(d, m) \subseteq Visits(d, m)
      /\ \A v \in Traverse(d, m) : step[v] \subseteq Traverse(d, m)
  <2> HIDE DEF step, start
  <2> QED BY <1>1, <1>2, ClosureFacts
<1>4. ASSUME NEW v \in Traverse(d, m), NEW y \in Onward(d, v[1], Introspection)
      PROVE  <<y, DepthBelow(d, v), SpreadsBelow(d, v)>> \in Traverse(d, m)
  <2>1. v \in Visits(d, m) /\ v[1] \in Nodes(d) /\ ~Throws(d, m, v)
    BY <1>3 DEF LimitDepthAccepts, Visits
  <2>2. step[v] = Below(d, m, v)
    BY <2>1 DEF TraverseStep
  <2> QED BY <1>3, <2>1, <2>2, BelowIsOnward
<1> QED BY <1>3, <1>4 DEF LimitDepthAccepts

(* The visits of a document lie in every set that the roots and steps keep to. *)
LEMMA VisitsIn ==
  ASSUME NEW d, IsDocument(d), NEW m \in Nat, NEW Z,
         \A x \in RootSelections(d) : <<x, -1, {}>> \in Z,
         \A v \in Z \cap Visits(d, m) :
           ~Throws(d, m, v) =>
             \A y \in Onward(d, v[1], Introspection) :
               <<y, DepthBelow(d, v), SpreadsBelow(d, v)>> \in Z
  PROVE  Traverse(d, m) \subseteq Z \cap Visits(d, m)
<1> DEFINE step == TraverseStep(d, m)
           start == RootSelections(d) \X {-1} \X {{}}
<1>1. IsStep(step) /\ start \in SUBSET DOMAIN step /\ DOMAIN step = Visits(d, m)
  BY TraverseIsStep DEF TraverseStep
<1>2. Traverse(d, m) = Closure(step, start)
  BY DEF Traverse, TraverseStep
<1>3. start \subseteq Z
  OBVIOUS
<1>4. ASSUME NEW v \in Z \cap DOMAIN step PROVE step[v] \subseteq Z
  <2>1. v \in Visits(d, m) /\ v[1] \in Nodes(d)
    BY <1>1 DEF Visits
  <2>2. step[v] = IF Throws(d, m, v) THEN {} ELSE Below(d, m, v)
    BY <2>1 DEF TraverseStep
  <2>3. CASE ~Throws(d, m, v)
    <3>1. step[v] = Onward(d, v[1], Introspection) \X {DepthBelow(d, v)} \X {SpreadsBelow(d, v)}
      BY <2>1, <2>2, <2>3, BelowIsOnward
    <3> QED BY <2>1, <2>3, <3>1
  <2> QED BY <2>2, <2>3
<1> HIDE DEF step, start
<1>5. Closure(step, start) \subseteq Z /\ Closure(step, start) \subseteq DOMAIN step
  BY <1>1, <1>3, <1>4, ClosureIn, ClosureFacts
<1> QED BY <1>1, <1>2, <1>5

(* A document that is accepted has no field that is too deep. *)
LEMMA AcceptedIsWithin ==
  ASSUME NEW d, IsDocument(d), NEW m \in Nat, LimitDepthAccepts(d, m)
  PROVE  WithinDepth(d, m)
<1> DEFINE T == Traverse(d, m)
           step == ExpandedStep(d, m + 1)
           start == RootSelections(d) \X {0}
           Z == {p \in DOMAIN step : \E v \in T : v[1] = p[1] /\ v[2] + 1 = p[2]}
<1>1. IsStep(step) /\ start \in SUBSET DOMAIN step /\ DOMAIN step = Nodes(d) \X (0..m + 1)
  <2>1. m + 1 \in Nat /\ DOMAIN step = Nodes(d) \X (0..m + 1)
    BY DEF ExpandedStep
  <2> HIDE DEF step, start
  <2>2. IsStep(step) /\ start \subseteq Nodes(d) \X (0..m + 1)
    BY <2>1, ExpandedIsStep DEF step, start
  <2> QED BY <2>1, <2>2
<1>2. start \subseteq Z
  <2> SUFFICES ASSUME NEW x \in RootSelections(d) PROVE <<x, 0>> \in Z
    OBVIOUS
  <2>1. <<x, -1, {}>> \in T /\ <<x, 0>> \in DOMAIN step
    BY <1>1, AcceptedVisits
  <2> QED BY <2>1
<1>3. ASSUME NEW p \in Z PROVE step[p] \subseteq Z
  <2>1. PICK v \in T : v[1] = p[1] /\ v[2] + 1 = p[2]
    OBVIOUS
  <2>2. v \in Visits(d, m) /\ ~Throws(d, m, v) /\ p \in Nodes(d) \X (0..m + 1)
    BY <1>1, AcceptedVisits
  <2>3. step[p] = {<<y, IF IsCounted(d, p[1]) /\ p[2] < m + 1 THEN p[2] + 1 ELSE p[2]>> :
                     y \in Onward(d, p[1], Introspection)}
    BY <2>2 DEF ExpandedStep
  <2>4. (IF IsCounted(d, p[1]) /\ p[2] < m + 1 THEN p[2] + 1 ELSE p[2]) = DepthBelow(d, v) + 1
    BY <2>1, <2>2 DEF Throws, DepthBelow, Visits
  <2> SUFFICES ASSUME NEW y \in Onward(d, p[1], Introspection)
               PROVE  <<y, DepthBelow(d, v) + 1>> \in Z
    BY <2>3, <2>4
  <2>5. <<y, DepthBelow(d, v), SpreadsBelow(d, v)>> \in T
    BY <2>1, AcceptedVisits
  <2>6. <<y, DepthBelow(d, v) + 1>> \in step[p]
    BY <2>3, <2>4
  <2>7. <<y, DepthBelow(d, v) + 1>> \in DOMAIN step
    BY <1>1, <2>2, <2>6 DEF IsStep
  <2> QED BY <2>5, <2>7
<1>4. Expanded(d, m + 1) \subseteq Z
  <2>1. Expanded(d, m + 1) = Closure(step, start)
    BY DEF Expanded, ExpandedStep
  <2> HIDE DEF step, start, Z
  <2> QED BY <1>1, <1>2, <1>3, <2>1, ClosureIn
<1>5. ASSUME NEW p \in Z, IsCounted(d, p[1]) PROVE p[2] <= m
  <2>1. PICK v \in T : v[1] = p[1] /\ v[2] + 1 = p[2]
    OBVIOUS
  <2>2. v \in Visits(d, m) /\ ~Throws(d, m, v) /\ p \in Nodes(d) \X (0..m + 1)
    BY <1>1, AcceptedVisits
  <2> QED BY <1>5, <2>1, <2>2 DEF Throws
<1> QED BY <1>4, <1>5 DEF WithinDepth

\* Selections are visited, below the fragments F.
Visited(d, m, S, F) == \A x \in S : \E v \in Traverse(d, m) : v[1] = x /\ F \subseteq v[3]

(* Then what they lead to is as well. *)
LEMMA AcceptedReach ==
  ASSUME NEW d, IsDocument(d), NEW m \in Nat, LimitDepthAccepts(d, m),
         NEW S \in SUBSET Nodes(d), NEW F, Visited(d, m, S, F)
  PROVE  Visited(d, m, Closure(OnwardStep(d, Introspection), S), F)
<1> DEFINE step == OnwardStep(d, Introspection)
           Z == {x \in Nodes(d) : \E v \in Traverse(d, m) : v[1] = x /\ F \subseteq v[3]}
<1>1. IsStep(step) /\ DOMAIN step = Nodes(d)
  BY OnwardIsStep DEF OnwardStep
<1>2. ASSUME NEW x \in Z PROVE step[x] \subseteq Z
  <2> SUFFICES ASSUME NEW y \in Onward(d, x, Introspection) PROVE y \in Z
    BY <1>1 DEF OnwardStep
  <2>1. PICK v \in Traverse(d, m) : v[1] = x /\ F \subseteq v[3]
    OBVIOUS
  <2>2. <<y, DepthBelow(d, v), SpreadsBelow(d, v)>> \in Traverse(d, m)
    BY <2>1, AcceptedVisits
  <2>3. y \in Nodes(d)
    BY <1>1 DEF IsStep, OnwardStep
  <2> QED BY <2>1, <2>2, <2>3 DEF SpreadsBelow
<1>3. S \subseteq Z
  BY DEF Visited
<1> HIDE DEF step, Z
<1>4. Closure(step, S) \subseteq Z
  BY <1>1, <1>2, <1>3, ClosureIn
<1> QED BY <1>4 DEF Z, step, Visited

(* A document that is accepted has no circles. *)
LEMMA AcceptedIsNotCircular ==
  ASSUME NEW d, IsDocument(d), NEW m \in Nat, LimitDepthAccepts(d, m)
  PROVE  ~Circular(d, Introspection)
<1> DEFINE T == Traverse(d, m)
           Leads(S) == Closure(OnwardStep(d, Introspection), S)
<1> SUFFICES ASSUME NEW f \in DOMAIN d.fragments,
                    f \in Reached(d, Introspection, RootSelections(d)),
                    f \in Reached(d, Introspection, d.fragments[f].selections)
             PROVE  FALSE
  BY DEF Circular
<1>1. PICK x \in Leads(RootSelections(d)) : d.nodes[x].kind = "spread" /\ d.nodes[x].name = f
  BY DEF Reached, OfKinds, OnwardStep
<1>2. PICK y \in Leads(d.fragments[f].selections) : d.nodes[y].kind = "spread" /\ d.nodes[y].name = f
  BY DEF Reached, OfKinds, OnwardStep
<1>3. RootSelections(d) \in SUBSET Nodes(d) /\ d.fragments[f].selections \in SUBSET Nodes(d)
  BY OnwardIsStep DEF IsDocument
<1>4. PICK v \in T : v[1] = x
  <2>1. Visited(d, m, RootSelections(d), {})
    BY AcceptedVisits DEF Visited
  <2>2. Visited(d, m, Leads(RootSelections(d)), {})
    BY <1>3, <2>1, AcceptedReach
  <2> QED BY <2>2 DEF Visited
<1>5. Visited(d, m, d.fragments[f].selections, {f})
  <2> SUFFICES ASSUME NEW z \in d.fragments[f].selections
               PROVE  \E w \in T : w[1] = z /\ {f} \subseteq w[3]
    BY DEF Visited
  <2>1. z \in Onward(d, x, Introspection)
    BY <1>1 DEF Onward, Spread
  <2>2. <<z, DepthBelow(d, v), SpreadsBelow(d, v)>> \in T
    BY <1>4, <2>1, AcceptedVisits
  <2>3. f \in SpreadsBelow(d, v)
    BY <1>1, <1>4 DEF SpreadsBelow
  <2> QED BY <2>2, <2>3
<1>6. PICK w \in T : w[1] = y /\ f \in w[3]
  <2>1. Visited(d, m, Leads(d.fragments[f].selections), {f})
    BY <1>3, <1>5, AcceptedReach
  <2> QED BY <2>1 DEF Visited
<1>7. Throws(d, m, w)
  BY <1>2, <1>6 DEF Throws
<1> QED BY <1>6, <1>7, AcceptedVisits

(* A document that is neither too deep nor circular is accepted: every visit is of a      *)
(* selection of the expanded document, at its depth, that the fragments around it lead to. *)
LEMMA WithinIsAccepted ==
  ASSUME NEW d, IsDocument(d), NEW m \in Nat, ~Circular(d, Introspection), WithinDepth(d, m)
  PROVE  LimitDepthAccepts(d, m)
<1> DEFINE step == OnwardStep(d, Introspection)
           Leads(S) == Closure(step, S)
           expand == ExpandedStep(d, m + 1)
           start == RootSelections(d) \X {0}
           E == Expanded(d, m + 1)
           In(v) == \A f \in v[3] : /\ f \in DOMAIN d.fragments \cap Reached(d, Introspection, RootSelections(d))
                                    /\ v[1] \in Leads(d.fragments[f].selections)
           Z == {v \in Visits(d, m) : <<v[1], v[2] + 1>> \in E /\ v[1] \in Leads(RootSelections(d)) /\ In(v)}
<1>1. IsStep(step) /\ DOMAIN step = Nodes(d)
  BY OnwardIsStep DEF OnwardStep
<1>2. ASSUME NEW S \in SUBSET Nodes(d)
      PROVE  /\ S \subseteq Leads(S)
             /\ \A x \in Leads(S) : x \in Nodes(d) /\ Onward(d, x, Introspection) \subseteq Leads(S)
  <2>1. /\ S \subseteq Leads(S) /\ Leads(S) \subseteq Nodes(d)
        /\ \A x \in Leads(S) : step[x] \subseteq Leads(S)
    <3> HIDE DEF step
    <3> QED BY <1>1, ClosureFacts
  <2> QED BY <2>1 DEF OnwardStep
<1>3. /\ RootSelections(d) \in SUBSET Nodes(d)
      /\ \A f \in DOMAIN d.fragments : d.fragments[f].selections \in SUBSET Nodes(d)
  BY OnwardIsStep DEF IsDocument
<1>4. /\ \A x \in RootSelections(d) : <<x, 0>> \in E
      /\ \A p \in E : p \in Nodes(d) \X (0..m + 1) /\ expand[p] \subseteq E
  <2>1. m + 1 \in Nat /\ DOMAIN expand = Nodes(d) \X (0..m + 1)
    BY DEF ExpandedStep
  <2>2. E = Closure(expand, start)
    BY DEF Expanded, ExpandedStep
  <2>3. IsStep(expand) /\ start \subseteq DOMAIN expand
    <3> HIDE DEF expand, start
    <3> QED BY <2>1, ExpandedIsStep DEF expand, start
  <2>4. start \subseteq E /\ E \subseteq DOMAIN expand /\ \A p \in E : expand[p] \subseteq E
    <3> HIDE DEF expand, start, E
    <3> QED BY <2>2, <2>3, ClosureFacts
  <2> QED BY <2>1, <2>4
<1>5. ASSUME NEW x \in RootSelections(d) PROVE <<x, -1, {}>> \in Z
  <2>1. <<x, -1, {}>> \in Visits(d, m)
    BY TraverseIsStep
  <2>2. <<x, 0>> \in E /\ x \in Leads(RootSelections(d))
    BY <1>2, <1>3, <1>4
  <2> QED BY <2>1, <2>2
<1>6. ASSUME NEW v \in Z PROVE ~Throws(d, m, v)
  <2>1. CASE IsCounted(d, v[1]) /\ v[2] + 1 > m
    BY <2>1 DEF WithinDepth, Visits
  <2>2. CASE d.nodes[v[1]].kind = "spread" /\ d.nodes[v[1]].name \in v[3]
    <3> DEFINE f == d.nodes[v[1]].name
    <3>1. f \in DOMAIN d.fragments \cap Reached(d, Introspection, RootSelections(d))
      BY <2>2
    <3>2. v[1] \in Leads(d.fragments[f].selections)
      BY <2>2
    <3>3. f \in Reached(d, Introspection, d.fragments[f].selections)
      BY <2>2, <3>2 DEF Reached, OfKinds, OnwardStep
    <3> QED BY <3>1, <3>3 DEF Circular
  <2> QED BY <2>1, <2>2 DEF Throws
<1>7. ASSUME NEW v \in Z, NEW y \in Onward(d, v[1], Introspection)
      PROVE  <<y, DepthBelow(d, v), SpreadsBelow(d, v)>> \in Z
  <2> DEFINE w == <<y, DepthBelow(d, v), SpreadsBelow(d, v)>>
  <2>1. v[1] \in Nodes(d) /\ v[2] \in -1..m /\ ~Throws(d, m, v)
    BY <1>6 DEF Visits
  <2>2. w \in Visits(d, m)
    <3>1. w \in Below(d, m, v)
      BY <2>1, BelowIsOnward
    <3>2. TraverseStep(d, m)[v] = Below(d, m, v) /\ v \in DOMAIN TraverseStep(d, m)
      BY <2>1 DEF TraverseStep
    <3>3. TraverseStep(d, m)[v] \subseteq DOMAIN TraverseStep(d, m)
      BY <3>2, TraverseIsStep DEF IsStep
    <3> QED BY <3>1, <3>2, <3>3 DEF TraverseStep
  <2>3. <<y, DepthBelow(d, v) + 1>> \in E
    <3> DEFINE p == <<v[1], v[2] + 1>>
    <3>1. p \in E /\ p \in Nodes(d) \X (0..m + 1)
      BY <1>4
    <3>2. expand[p] = {<<z, IF IsCounted(d, p[1]) /\ p[2] < m + 1 THEN p[2] + 1 ELSE p[2]>> :
                         z \in Onward(d, p[1], Introspection)}
      BY <3>1 DEF ExpandedStep
    <3>3. (IF IsCounted(d, p[1]) /\ p[2] < m + 1 THEN p[2] + 1 ELSE p[2]) = DepthBelow(d, v) + 1
      BY <2>1 DEF Throws, DepthBelow
    <3>4. <<y, DepthBelow(d, v) + 1>> \in expand[p]
      BY <3>2, <3>3
    <3> QED BY <1>4, <3>1, <3>4
  <2>4. y \in Leads(RootSelections(d))
    BY <1>2, <1>3
  <2>5. In(w)
    <3> SUFFICES ASSUME NEW f \in SpreadsBelow(d, v)
                 PROVE  /\ f \in DOMAIN d.fragments \cap Reached(d, Introspection, RootSelections(d))
                        /\ y \in Leads(d.fragments[f].selections)
      OBVIOUS
    <3>1. CASE f \in v[3]
      BY <1>2, <1>3, <3>1
    <3>2. CASE f \notin v[3]
      <4>1. d.nodes[v[1]].kind = "spread" /\ f = d.nodes[v[1]].name
        BY <3>2 DEF SpreadsBelow
      <4>2. f \in DOMAIN d.fragments /\ y \in d.fragments[f].selections
        BY <4>1 DEF Onward, Spread
      <4>3. f \in Reached(d, Introspection, RootSelections(d))
        BY <4>1 DEF Reached, OfKinds, OnwardStep
      <4> QED BY <1>2, <1>3, <4>2, <4>3
    <3> QED BY <3>1, <3>2
  <2> QED BY <2>2, <2>3, <2>4, <2>5
<1>8. Traverse(d, m) \subseteq Z
  <2> HIDE DEF Z
  <2> QED BY <1>5, <1>7, VisitsIn
<1> QED BY <1>6, <1>8 DEF LimitDepthAccepts

(* limitDepth() accepts what is neither too deep nor circular, and nothing else. *)
LEMMA LimitDepthIsExact ==
  ASSUME NEW d, IsDocument(d), NEW m \in Nat
  PROVE  LimitDepthAccepts(d, m) <=> ~Circular(d, Introspection) /\ WithinDepth(d, m)
BY AcceptedIsWithin, AcceptedIsNotCircular, WithinIsAccepted

--------------------------------------------------------------------------------
(* collect().  It is a recursive function as well: from dependencies and names   *)
(* it gets to the least set that has both, and the dependencies of all that it   *)
(* adds.                                                                         *)

\* What validate() sees to
KnownFragments(d) ==
  \A x \in Nodes(d) : d.nodes[x].kind = "spread" => d.nodes[x].name \in DOMAIN d.fragments

Pairs(d) == (SUBSET DOMAIN d.fragments) \X (SUBSET DOMAIN d.fragments)

IsCollect(collect, d) ==
  collect = [w \in Pairs(d) |->
        IF w[1] = {} THEN w[2]
        ELSE LET f == CHOOSE g \in w[1] : TRUE
                 names == IF f \in w[2] THEN w[2]
                          ELSE collect[<<Dependencies(d, f), w[2] \cup {f}>>]
             IN  collect[<<w[1] \ {f}, names>>]]

\* Z has what is wanted.
Suffices(d, w, Z) ==
  /\ w[1] \cup w[2] \subseteq Z
  /\ \A f \in Z \ w[2] : Dependencies(d, f) \subseteq Z

Wanted(d, w) == {f \in DOMAIN d.fragments : \A Z \in SUBSET DOMAIN d.fragments : Suffices(d, w, Z) => f \in Z}

(* Selections inside of selections. *)
LEMMA InsideFacts ==
  ASSUME NEW d, IsDocument(d), NEW S \in SUBSET Nodes(d)
  PROVE  /\ S \subseteq Inside(d, S) /\ Inside(d, S) \subseteq Nodes(d)
         /\ \A x \in Inside(d, S) : d.nodes[x].selections \subseteq Inside(d, S)
<1> DEFINE step == [x \in Nodes(d) |-> d.nodes[x].selections]
<1>1. IsStep(step) /\ DOMAIN step = Nodes(d)
  BY DEF IsStep, IsDocument
<1>2. Inside(d, S) = Closure(step, S)
  BY DEF Inside
<1>3. /\ S \subseteq Inside(d, S) /\ Inside(d, S) \subseteq Nodes(d)
      /\ \A x \in Inside(d, S) : step[x] \subseteq Inside(d, S)
  <2> HIDE DEF step
  <2> QED BY <1>1, <1>2, ClosureFacts
<1> QED BY <1>3

(* All fragments that fragments depend on are known. *)
LEMMA DependenciesKnown ==
  ASSUME NEW d, IsDocument(d), KnownFragments(d), NEW S \in SUBSET Nodes(d)
  PROVE  /\ Spreads(d, S) \subseteq DOMAIN d.fragments
         /\ \A f \in DOMAIN d.fragments : Dependencies(d, f) \subseteq DOMAIN d.fragments
<1>1. \A R \in SUBSET Nodes(d) : Spreads(d, R) \subseteq DOMAIN d.fragments
  BY InsideFacts DEF Spreads, OfKinds, KnownFragments
<1>2. \A f \in DOMAIN d.fragments : d.fragments[f].selections \in SUBSET Nodes(d)
  BY DEF IsDocument
<1> QED BY <1>1, <1>2 DEF Dependencies

(* What is wanted suffices, and is part of all that suffices. *)
LEMMA WantedFacts ==
  ASSUME NEW d, IsDocument(d), KnownFragments(d), NEW w \in Pairs(d)
  PROVE  /\ Wanted(d, w) \subseteq DOMAIN d.fragments
         /\ Suffices(d, w, Wanted(d, w))
         /\ \A Z \in SUBSET DOMAIN d.fragments : Suffices(d, w, Z) => Wanted(d, w) \subseteq Z
<1>1. w[1] \cup w[2] \subseteq Wanted(d, w)
  BY DEF Wanted, Suffices, Pairs
<1>2. ASSUME NEW f \in Wanted(d, w) \ w[2], NEW g \in Dependencies(d, f) PROVE g \in Wanted(d, w)
  <2>1. g \in DOMAIN d.fragments
    <3>1. {} \in SUBSET Nodes(d)
      OBVIOUS
    <3> QED BY <3>1, DependenciesKnown DEF Wanted
  <2> QED BY <2>1 DEF Wanted, Suffices
<1> QED BY <1>1, <1>2 DEF Wanted, Suffices

(* What is wanted satisfies the equation of collect(). *)
LEMMA WantedNext ==
  ASSUME NEW d, IsDocument(d), KnownFragments(d), NEW w \in Pairs(d), NEW f \in w[1]
  PROVE  /\ <<Dependencies(d, f), w[2] \cup {f}>> \in Pairs(d)
         /\ Wanted(d, w) =
              LET names == IF f \in w[2] THEN w[2]
                           ELSE Wanted(d, <<Dependencies(d, f), w[2] \cup {f}>>)
              IN  Wanted(d, <<w[1] \ {f}, names>>)
<1> DEFINE v == <<Dependencies(d, f), w[2] \cup {f}>>
           names == IF f \in w[2] THEN w[2] ELSE Wanted(d, v)
           u == <<w[1] \ {f}, names>>
<1>1. v \in Pairs(d)
  <2>1. {} \in SUBSET Nodes(d) /\ f \in DOMAIN d.fragments
    BY DEF Pairs
  <2>2. Dependencies(d, f) \subseteq DOMAIN d.fragments
    BY <2>1, DependenciesKnown
  <2> QED BY <2>1, <2>2 DEF Pairs
<1>2. u \in Pairs(d)
  <2>1. Wanted(d, v) \subseteq DOMAIN d.fragments
    BY DEF Wanted
  <2> QED BY <2>1 DEF Pairs
<1>3. CASE f \in w[2]
  <2>1. \A Z \in SUBSET DOMAIN d.fragments : Suffices(d, w, Z) <=> Suffices(d, u, Z)
    BY <1>3 DEF Suffices
  <2> QED BY <1>1, <2>1, <1>3 DEF Wanted
<1>4. CASE f \notin w[2]
  <2> DEFINE W == Wanted(d, w)
             V == Wanted(d, v)
             U == Wanted(d, u)
  <2>1. /\ W \in SUBSET DOMAIN d.fragments /\ V \in SUBSET DOMAIN d.fragments
        /\ U \in SUBSET DOMAIN d.fragments
        /\ Suffices(d, w, W) /\ Suffices(d, v, V) /\ Suffices(d, u, U)
    BY <1>1, <1>2, WantedFacts
  <2>2. names = V
    BY <1>4
  <2>3. Suffices(d, v, W)
    BY <1>4, <2>1 DEF Suffices
  <2>4. V \subseteq W
    BY <1>1, <2>1, <2>3, WantedFacts
  <2>5. Suffices(d, u, W)
    <3>1. w[1] \ {f} \subseteq W /\ V \subseteq W
      BY <2>1, <2>4 DEF Suffices
    <3>2. \A g \in W \ V : Dependencies(d, g) \subseteq W
      <4>1. w[2] \subseteq V
        BY <2>1 DEF Suffices
      <4> QED BY <2>1, <4>1 DEF Suffices
    <3> QED BY <2>2, <3>1, <3>2 DEF Suffices
  <2>6. U \subseteq W
    BY <1>2, <2>1, <2>5, WantedFacts
  <2>7. Suffices(d, w, U)
    <3>1. V \subseteq U /\ w[1] \ {f} \subseteq U /\ (\A g \in U \ V : Dependencies(d, g) \subseteq U)
      BY <2>1, <2>2 DEF Suffices
    <3>2. w[2] \cup {f} \subseteq V /\ Dependencies(d, f) \subseteq V
          /\ (\A g \in V \ (w[2] \cup {f}) : Dependencies(d, g) \subseteq V)
      BY <2>1 DEF Suffices
    <3>3. ASSUME NEW g \in U \ w[2] PROVE Dependencies(d, g) \subseteq U
      <4>1. CASE g = f
        BY <3>1, <3>2, <4>1
      <4>2. CASE g \in V /\ g # f
        BY <3>1, <3>2, <3>3, <4>2
      <4>3. CASE g \notin V
        BY <3>1, <3>3, <4>3
      <4> QED BY <4>1, <4>2, <4>3
    <3> QED BY <3>1, <3>2, <3>3 DEF Suffices
  <2>8. W \subseteq U
    BY <2>1, <2>7, WantedFacts
  <2> QED BY <1>1, <2>6, <2>8
<1> QED BY <1>3, <1>4

(* So there is a function that does. *)
LEMMA WantedIsCollect ==
  ASSUME NEW d, IsDocument(d), KnownFragments(d)
  PROVE  IsCollect([w \in Pairs(d) |-> Wanted(d, w)], d)
<1> DEFINE collect == [w \in Pairs(d) |-> Wanted(d, w)]
           next(w) == LET f == CHOOSE g \in w[1] : TRUE
                          names == IF f \in w[2] THEN w[2]
                                   ELSE collect[<<Dependencies(d, f), w[2] \cup {f}>>]
                      IN  IF w[1] = {} THEN w[2] ELSE collect[<<w[1] \ {f}, names>>]
<1>1. ASSUME NEW w \in Pairs(d) PROVE Wanted(d, w) = next(w)
  <2>1. CASE w[1] = {}
    <3>1. Wanted(d, w) \subseteq w[2]
      <4>1. Suffices(d, w, w[2]) /\ w[2] \in SUBSET DOMAIN d.fragments
        BY <2>1 DEF Suffices, Pairs
      <4> QED BY <4>1, WantedFacts
    <3>2. w[2] \subseteq Wanted(d, w)
      BY WantedFacts DEF Suffices
    <3> QED BY <2>1, <3>1, <3>2
  <2>2. CASE w[1] # {}
    <3> DEFINE f == CHOOSE g \in w[1] : TRUE
               v == <<Dependencies(d, f), w[2] \cup {f}>>
               names == IF f \in w[2] THEN w[2] ELSE Wanted(d, v)
               u == <<w[1] \ {f}, names>>
    <3>1. f \in w[1]
      BY <2>2
    <3>2. v \in Pairs(d) /\ Wanted(d, w) = Wanted(d, u)
      <4> HIDE DEF f
      <4> QED BY <3>1, WantedNext
    <3>3. u \in Pairs(d)
      <4>1. Wanted(d, v) \subseteq DOMAIN d.fragments
        BY DEF Wanted
      <4> HIDE DEF f, v
      <4> QED BY <4>1 DEF Pairs
    <3>4. collect[v] = Wanted(d, v) /\ collect[u] = Wanted(d, u)
      <4> HIDE DEF v, u
      <4> QED BY <3>2, <3>3
    <3>5. next(w) = collect[u]
      BY <2>2, <3>4
    <3> QED BY <3>2, <3>4, <3>5
  <2> QED BY <2>1, <2>2
<1>2. collect = [w \in Pairs(d) |-> next(w)]
  <2> HIDE DEF next
  <2> QED BY <1>1
<1> QED BY <1>2 DEF IsCollect

(* And no other function does: otherwise there were a place where it is wrong, with as many *)
(* names as there can be, and as few dependencies.                                           *)
LEMMA CollectIsWanted ==
  ASSUME NEW d, IsDocument(d), KnownFragments(d), NEW collect, IsCollect(collect, d),
         NEW start \in Pairs(d)
  PROVE  collect[start] = Wanted(d, start)
<1> DEFINE U == DOMAIN d.fragments
           wrong == {w \in Pairs(d) : collect[w] # Wanted(d, w)}
           left == {U \ w[2] : w \in wrong}
<1> SUFFICES ASSUME wrong # {} PROVE FALSE
  OBVIOUS
<1>1. PICK L \in left : \A K \in left : K \subseteq L => K = L
  <2>1. left \in SUBSET SUBSET U /\ left # {}
    OBVIOUS
  <2> HIDE DEF left
  <2> QED BY <2>1, SmallestSubset DEF IsDocument
<1> DEFINE here == {v \in wrong : U \ v[2] = L}
           todo == {v[1] : v \in here}
<1>2. PICK D \in todo : \A K \in todo : K \subseteq D => K = D
  <2>1. todo \in SUBSET SUBSET U /\ todo # {}
    BY DEF Pairs
  <2> HIDE DEF todo
  <2> QED BY <2>1, SmallestSubset DEF IsDocument
<1>3. PICK w \in here : w[1] = D
  OBVIOUS
<1>4. w \in Pairs(d) /\ collect[w] # Wanted(d, w) /\ U \ w[2] = L
  OBVIOUS
<1>5. ASSUME NEW v \in Pairs(d), U \ v[2] \subseteq L, U \ v[2] # L
      PROVE  collect[v] = Wanted(d, v)
  <2>1. v \in wrong => U \ v[2] \in left
    OBVIOUS
  <2> HIDE DEF left
  <2> QED BY <1>1, <1>5, <2>1
<1>6. ASSUME NEW v \in Pairs(d), v[2] = w[2], v[1] \subseteq w[1], v[1] # w[1]
      PROVE  collect[v] = Wanted(d, v)
  <2>1. v \in wrong => v[1] \in todo
    BY <1>4, <1>6
  <2> HIDE DEF todo
  <2> QED BY <1>2, <1>3, <1>6, <2>1
<1>7. CASE w[1] = {}
  <2>1. collect[w] = w[2]
    BY <1>4, <1>7 DEF IsCollect
  <2>2. Suffices(d, w, w[2]) /\ w[2] \in SUBSET U
    BY <1>4, <1>7 DEF Suffices, Pairs
  <2>3. Wanted(d, w) \subseteq w[2] /\ w[2] \subseteq Wanted(d, w)
    BY <1>4, <2>2, WantedFacts DEF Suffices
  <2> QED BY <1>4, <2>1, <2>3
<1>8. CASE w[1] # {}
  <2> DEFINE f == CHOOSE g \in w[1] : TRUE
             v == <<Dependencies(d, f), w[2] \cup {f}>>
             names == IF f \in w[2] THEN w[2] ELSE Wanted(d, v)
             u == <<w[1] \ {f}, names>>
  <2>1. f \in w[1] /\ f \in U
    BY <1>4, <1>8 DEF Pairs
  <2>2. v \in Pairs(d) /\ Wanted(d, w) = Wanted(d, u)
    <3> HIDE DEF f
    <3> QED BY <1>4, <2>1, WantedNext
  <2>3. f \notin w[2] => collect[v] = Wanted(d, v)
    <3> HIDE DEF f
    <3>1. f \notin w[2] => U \ v[2] \subseteq L /\ U \ v[2] # L
      BY <1>4, <2>1
    <3> QED BY <1>5, <2>2, <3>1
  <2>4. collect[w] = collect[u]
    <3>1. collect[w] = collect[<<w[1] \ {f}, IF f \in w[2] THEN w[2] ELSE collect[v]>>]
      <4> HIDE DEF wrong, left
      <4> QED BY <1>4, <1>8 DEF IsCollect
    <3> HIDE DEF f, v
    <3>2. (IF f \in w[2] THEN w[2] ELSE collect[v]) = names
      BY <2>3
    <3> QED BY <3>1, <3>2
  <2>5. u \in Pairs(d) /\ collect[u] = Wanted(d, u)
    <3> HIDE DEF f
    <3>1. CASE f \in w[2]
      <4>1. u = <<w[1] \ {f}, w[2]>> /\ u \in Pairs(d)
        BY <1>4, <3>1 DEF Pairs
      <4> QED BY <1>6, <2>1, <4>1
    <3>2. CASE f \notin w[2]
      <4>1. f \in Wanted(d, v) /\ w[2] \subseteq Wanted(d, v) /\ Wanted(d, v) \subseteq U
        <5>1. Suffices(d, v, Wanted(d, v)) /\ Wanted(d, v) \subseteq U
          <6> HIDE DEF v
          <6> QED BY <2>2, WantedFacts
        <5> QED BY <5>1 DEF Suffices
      <4>2. u = <<w[1] \ {f}, Wanted(d, v)>> /\ u \in Pairs(d)
        BY <1>4, <3>2, <4>1 DEF Pairs
      <4>3. U \ u[2] \subseteq L /\ U \ u[2] # L
        BY <1>4, <2>1, <3>2, <4>1, <4>2
      <4> QED BY <1>5, <4>2, <4>3
    <3> QED BY <3>1, <3>2
  <2> QED BY <1>4, <2>2, <2>4, <2>5
<1> QED BY <1>7, <1>8

(* The fragments that are printed with an operation are those it leads to. *)
LEMMA CollectIs ==
  ASSUME NEW d, IsDocument(d), KnownFragments(d), NEW w \in Pairs(d)
  PROVE  Collect(d)[w] = Wanted(d, w)
<1>1. Collect(d) = CHOOSE collect : IsCollect(collect, d)
  BY DEF Collect, IsCollect, Pairs
<1>2. IsCollect(CHOOSE collect : IsCollect(collect, d), d)
  BY WantedIsCollect
<1> QED BY <1>1, <1>2, CollectIsWanted

(* Inside, selections stay in every set that is closed under selections. *)
LEMMA InsideIn ==
  ASSUME NEW d, IsDocument(d), NEW S \in SUBSET Nodes(d), NEW Z, S \subseteq Z,
         \A x \in Z \cap Nodes(d) : d.nodes[x].selections \subseteq Z
  PROVE  Inside(d, S) \subseteq Z
<1> DEFINE step == [x \in Nodes(d) |-> d.nodes[x].selections]
<1>1. IsStep(step) /\ DOMAIN step = Nodes(d)
  BY DEF IsStep, IsDocument
<1>2. Inside(d, S) = Closure(step, S) /\ \A x \in Z \cap DOMAIN step : step[x] \subseteq Z
  BY DEF Inside
<1> HIDE DEF step
<1> QED BY <1>1, <1>2, ClosureIn

(* A fragment that selections depend on is a fragment they lead to, and the other way round. *)
LEMMA WantedIsReached ==
  ASSUME NEW d, IsDocument(d), KnownFragments(d), NEW S \in SUBSET Nodes(d)
  PROVE  /\ <<Spreads(d, S), {}>> \in Pairs(d)
         /\ Wanted(d, <<Spreads(d, S), {}>>) = Reached(d, {}, S)
<1> DEFINE step == OnwardStep(d, {})
           C == Closure(step, S)
           R == Reached(d, {}, S)
           w == <<Spreads(d, S), {}>>
           W == Wanted(d, w)
           text(f) == d.fragments[f].selections
<1>1. IsStep(step) /\ DOMAIN step = Nodes(d)
  BY OnwardIsStep DEF OnwardStep
<1>2. /\ S \subseteq C /\ C \subseteq Nodes(d)
      /\ \A x \in C : Onward(d, x, {}) \subseteq C
  <2>1. S \subseteq C /\ C \subseteq Nodes(d) /\ \A x \in C : step[x] \subseteq C
    <3> HIDE DEF step
    <3> QED BY <1>1, ClosureFacts
  <2> QED BY <2>1 DEF OnwardStep
<1>3. R = {d.nodes[x].name : x \in OfKinds(d, C, "spread")}
  BY DEF Reached, OnwardStep
<1>4. R \subseteq DOMAIN d.fragments
  BY <1>2, <1>3 DEF OfKinds, KnownFragments
<1>5. \A f \in DOMAIN d.fragments : text(f) \in SUBSET Nodes(d)
  BY DEF IsDocument
<1>6. w \in Pairs(d)
  BY DependenciesKnown DEF Pairs
<1>7. Spreads(d, S) \subseteq R /\ \A f \in R : Dependencies(d, f) \subseteq R
  <2>1. \A x \in C \cap Nodes(d) : d.nodes[x].selections \subseteq C
    BY <1>2 DEF Onward, IsDocument
  <2>2. ASSUME NEW T \in SUBSET Nodes(d), T \subseteq C PROVE Spreads(d, T) \subseteq R
    <3>1. Inside(d, T) \subseteq C
      <4> HIDE DEF C
      <4> QED BY <2>1, <2>2, InsideIn
    <3> QED BY <1>3, <3>1 DEF Spreads, OfKinds
  <2>3. ASSUME NEW f \in R PROVE text(f) \subseteq C
    <3>1. PICK x \in C : d.nodes[x].kind = "spread" /\ d.nodes[x].name = f
      BY <1>3 DEF OfKinds
    <3>2. Onward(d, x, {}) = text(f)
      BY <1>4, <3>1 DEF Onward, Spread
    <3> QED BY <1>2, <3>1, <3>2
  <2> QED BY <1>2, <1>4, <1>5, <2>2, <2>3 DEF Dependencies
<1>8. W \subseteq R
  <2>1. Suffices(d, w, R)
    BY <1>7 DEF Suffices
  <2> HIDE DEF w, R
  <2> QED BY <1>4, <1>6, <2>1, WantedFacts
<1>9. R \subseteq W
  <2>1. Spreads(d, S) \subseteq W /\ W \subseteq DOMAIN d.fragments /\ \A f \in W : Dependencies(d, f) \subseteq W
    <3>1. Suffices(d, w, W) /\ W \subseteq DOMAIN d.fragments
      <4> HIDE DEF w
      <4> QED BY <1>6, WantedFacts
    <3> QED BY <3>1 DEF Suffices
  <2> DEFINE Z == {x \in Nodes(d) : x \in Inside(d, S) \/ \E f \in W : x \in Inside(d, text(f))}
  <2>2. S \subseteq Z
    BY InsideFacts
  <2>3. ASSUME NEW T \in SUBSET Nodes(d), Spreads(d, T) \subseteq W, Inside(d, T) \subseteq Z,
               NEW x \in Inside(d, T)
        PROVE  Onward(d, x, {}) \subseteq Z
    <3>1. x \in Nodes(d) /\ d.nodes[x].selections \subseteq Z
      BY <2>3, InsideFacts
    <3>2. CASE d.nodes[x].kind = "spread"
      <4>1. d.nodes[x].name \in W
        BY <2>3, <3>2 DEF Spreads, OfKinds
      <4>2. Onward(d, x, {}) = text(d.nodes[x].name)
        BY <2>1, <3>2, <4>1 DEF Onward, Spread
      <4>3. text(d.nodes[x].name) \in SUBSET Nodes(d)
        BY <1>5, <2>1, <4>1
      <4> QED BY <4>1, <4>2, <4>3, InsideFacts
    <3>3. CASE d.nodes[x].kind # "spread"
      BY <3>1, <3>3 DEF Onward
    <3> QED BY <3>2, <3>3
  <2>4. ASSUME NEW x \in Z PROVE step[x] \subseteq Z
    <3>1. CASE x \in Inside(d, S)
      <4>1. Inside(d, S) \subseteq Z
        BY InsideFacts
      <4> HIDE DEF Z
      <4> QED BY <2>1, <2>3, <3>1, <4>1, InsideFacts DEF OnwardStep
    <3>2. ASSUME NEW f \in W, x \in Inside(d, text(f)) PROVE step[x] \subseteq Z
      <4>1. text(f) \in SUBSET Nodes(d) /\ Spreads(d, text(f)) \subseteq W
        BY <1>5, <2>1 DEF Dependencies
      <4>2. Inside(d, text(f)) \subseteq Z
        BY <4>1, InsideFacts
      <4>3. x \in Nodes(d)
        OBVIOUS
      <4> HIDE DEF Z, W, text
      <4> QED BY <2>3, <3>2, <4>1, <4>2, <4>3 DEF OnwardStep
    <3> QED BY <3>1, <3>2
  <2>5. C \subseteq Z
    <3> HIDE DEF step, Z
    <3> QED BY <1>1, <2>2, <2>4, ClosureIn
  <2>6. ASSUME NEW x \in Z, d.nodes[x].kind = "spread" PROVE d.nodes[x].name \in W
    <3>1. CASE x \in Inside(d, S)
      BY <2>1, <2>6, <3>1 DEF Spreads, OfKinds
    <3>2. ASSUME NEW f \in W, x \in Inside(d, text(f)) PROVE d.nodes[x].name \in W
      BY <2>1, <2>6, <3>2 DEF Dependencies, Spreads, OfKinds
    <3> QED BY <3>1, <3>2
  <2> HIDE DEF Z
  <2> QED BY <1>3, <2>5, <2>6 DEF OfKinds
<1> QED BY <1>6, <1>8, <1>9

--------------------------------------------------------------------------------
(* The inductive invariant: what there is was made from the schema and the        *)
(* document as they are, the client only if the document is valid.                *)

Inputs == schema \in SchemasInUse /\ document \in DocumentsInUse /\ maxDepth \in Depths

ServerIs ==
  "server" \in generated =>
    server = [declared |-> ServerDeclared(schema) \cup ServerImported(schema),
              referenced |-> ServerReferenced(schema)]

ClientIs ==
  "client" \in generated =>
    /\ Valid(schema, document)
    /\ Generatable(schema, document)
    /\ client = [declared |-> ClientDeclared(schema, document) \cup ClientImported(ClientTypes),
                 referenced |-> ClientReferenced(schema, document, ClientTypes),
                 documents |-> [o \in DOMAIN document.operations |-> OperationDocument(document, o)],
                 types |-> [p \in Generated(schema, document) |->
                              ForObject(schema, document, p[1], p[2])],
                 data |-> [o \in DOMAIN document.operations |-> DataType(schema, document, o)],
                 fragments |-> [f \in DOMAIN document.fragments |-> FragmentType(schema, document, f)],
                 names |-> OperationNames(document)]

RequestsAre ==
  \A r \in requests :
    IsDocument(r.document) /\ (r.accepted <=> LimitDepthAccepts(r.document, maxDepth))

IInv == Inputs /\ ServerIs /\ ClientIs /\ RequestsAre

(* What the parameters are. *)
LEMMA InputsAre ==
  ASSUME Inputs PROVE IsSchema(schema) /\ IsDocument(document) /\ maxDepth \in Nat
BY SchemasAssumption, DocumentsAssumption, OptionsAssumption DEF Inputs

(* A document that is sent is a document. *)
LEMMA SentIsDocument ==
  ASSUME NEW d \in DocumentsInUse, KnownFragments(d), NEW o \in DOMAIN d.operations
  PROVE  /\ OperationFragments(d, o) = Reached(d, {}, d.operations[o].selections)
         /\ OperationFragments(d, o) \subseteq DOMAIN d.fragments
         /\ IsDocument(OperationDocument(d, o))
<1>1. IsDocument(d)
  BY DocumentsAssumption
<1> DEFINE S == d.operations[o].selections
           w == <<Spreads(d, S), {}>>
<1>2. S \in SUBSET Nodes(d)
  BY <1>1 DEF IsDocument
<1>3. w \in Pairs(d) /\ Wanted(d, w) = Reached(d, {}, S)
  BY <1>1, <1>2, WantedIsReached
<1>4. OperationFragments(d, o) = Wanted(d, w)
  <2>1. OperationFragments(d, o) = Collect(d)[w]
    BY DEF OperationFragments
  <2> HIDE DEF w
  <2> QED BY <1>1, <1>3, <2>1, CollectIs
<1>5. OperationFragments(d, o) \subseteq DOMAIN d.fragments
  BY <1>4 DEF Wanted
<1> DEFINE e == OperationDocument(d, o)
<1>6. /\ e.nodes = d.nodes
      /\ e.operations = [p \in {o} |-> d.operations[p]]
      /\ e.fragments = [f \in OperationFragments(d, o) |-> d.fragments[f]]
      /\ e.scalars = d.scalars
  BY DEF OperationDocument
<1>7. IsDocument(e)
  <2>1. IsFiniteSet(DOMAIN e.fragments)
    BY <1>1, <1>5, <1>6, FS_Subset DEF IsDocument
  <2> HIDE DEF e
  <2> QED BY <1>1, <1>5, <1>6, <2>1 DEF IsDocument, Nodes
<1> QED BY <1>3, <1>4, <1>5, <1>7

(* It holds at first. *)
LEMMA InitInv == Init => IInv
BY DEF Init, IInv, Inputs, ServerIs, ClientIs, RequestsAre

(* Requests are judged as limitDepth() does. *)
LEMMA RequestInv ==
  ASSUME IInv, NEW d, IsDocument(d), Request(d), UNCHANGED maxDepth
  PROVE  RequestsAre'
<1> SUFFICES ASSUME NEW r \in requests'
             PROVE  IsDocument(r.document) /\ (r.accepted <=> LimitDepthAccepts(r.document, maxDepth))
  BY DEF RequestsAre
<1>1. CASE r \in requests
  BY <1>1 DEF IInv, RequestsAre
<1>2. CASE r = [document |-> d, accepted |-> LimitDepthAccepts(d, maxDepth)]
  BY <1>2
<1> QED BY <1>1, <1>2 DEF Request

(* Every step keeps it. *)
LEMMA NextInv == IInv /\ [Next]_vars => IInv'
<1> SUFFICES ASSUME IInv, [Next]_vars PROVE IInv'
  OBVIOUS
<1> USE DEF IInv
<1>1. CASE GenerateServer
  <2>1. Inputs' /\ ClientIs' /\ RequestsAre'
    BY <1>1 DEF GenerateServer, Inputs, ClientIs, RequestsAre, ClientTypes
  <2>2. ServerIs'
    BY <1>1 DEF GenerateServer, ServerIs
  <2> QED BY <2>1, <2>2
<1>2. CASE GenerateClient
  <2>1. Inputs' /\ ServerIs' /\ RequestsAre'
    BY <1>2 DEF GenerateClient, Inputs, ServerIs, RequestsAre
  <2>2. ClientIs'
    BY <1>2 DEF GenerateClient, ClientIs, ClientTypes
  <2> QED BY <2>1, <2>2
<1>3. ASSUME NEW o \in DOMAIN document.operations, SendGenerated(o) PROVE IInv'
  <2>1. KnownFragments(document) /\ client.documents[o] = OperationDocument(document, o)
    BY <1>3 DEF SendGenerated, ClientIs, Valid, KnownFragments
  <2>2. IsDocument(client.documents[o])
    BY <1>3, <2>1, SentIsDocument DEF Inputs
  <2>3. RequestsAre'
    BY <1>3, <2>2, RequestInv DEF SendGenerated
  <2>4. Inputs' /\ ServerIs' /\ ClientIs'
    BY <1>3 DEF SendGenerated, Inputs, ServerIs, ClientIs, ClientTypes
  <2> QED BY <2>3, <2>4
<1>4. CASE SendWhole
  <2>1. RequestsAre'
    BY <1>4, InputsAre, RequestInv DEF SendWhole
  <2>2. Inputs' /\ ServerIs' /\ ClientIs'
    BY <1>4 DEF SendWhole, Inputs, ServerIs, ClientIs, ClientTypes
  <2> QED BY <2>1, <2>2
<1>5. CASE UNCHANGED vars
  BY <1>5 DEF vars, Inputs, ServerIs, ClientIs, RequestsAre, ClientTypes
<1> QED BY <1>1, <1>2, <1>3, <1>4, <1>5 DEF Next

(* So it holds throughout. *)
LEMMA Invariance == Spec => []IInv
BY InitInv, NextInv, PTL DEF Spec

(* limitDepth() accepts exactly the requests none of whose operations is deeper than the *)
(* limit or goes in circles, for every limit and all documents, generated or not.        *)
THEOREM LimitIsExact == Spec => []DepthIsLimited
<1>1. IInv => DepthIsLimited
  BY InputsAre, LimitDepthIsExact DEF IInv, RequestsAre, DepthIsLimited
<1> QED BY <1>1, Invariance, PTL

(* A generated client sends each operation with all fragments it leads to, and no others. *)
THEOREM DocumentsStandAlone == Spec => []SentDocumentsStandAlone
<1>1. IInv => SentDocumentsStandAlone
  <2> SUFFICES ASSUME IInv, "client" \in generated, NEW o \in DOMAIN document.operations
               PROVE  DOMAIN client.documents[o].fragments
                        = Reached(document, {}, document.operations[o].selections)
    BY DEF SentDocumentsStandAlone
  <2>1. KnownFragments(document) /\ client.documents[o] = OperationDocument(document, o)
    BY DEF IInv, ClientIs, Valid, KnownFragments
  <2>2. DOMAIN client.documents[o].fragments = OperationFragments(document, o)
    BY <2>1 DEF OperationDocument
  <2> QED BY <2>1, <2>2, SentIsDocument DEF IInv, Inputs
<1> QED BY <1>1, Invariance, PTL

--------------------------------------------------------------------------------
(* Names.  Whatever a type mapping names is imported or ambient, and what has no  *)
(* mapping is declared.                                                           *)

\* No entry of a type mapping is empty.
IsTypeMap(map) == \A t \in DOMAIN map : map[t].type # "none"

\* Known(map, D): what can be referred to if D is declared
Known(map, D) == D \cup TypeMapImports(map) \cup Ambient(map)

(* References to mapped types are known. *)
LEMMA MappedIsKnown ==
  ASSUME NEW map, IsTypeMap(map), NEW t \in DOMAIN map, NEW D
  PROVE  NamedOutputRef(map, t) \in Known(map, D) /\ NamedInputRef(map, t) \in Known(map, D)
<1> DEFINE X == Known(map, D)
           names(u) == {<<"ts", map[u].type>>, <<"ts", map[u].inputType>>}
           imported == {u \in DOMAIN map : map[u].from # "none"}
           ambient == {u \in DOMAIN map : map[u].from = "none"}
<1>1. ASSUME NEW a \in names(t), a # <<"ts", "none">> PROVE a \in X
  <2>1. CASE t \in imported
    <3>1. a \in UNION {names(u) : u \in imported}
      BY <2>1
    <3>2. a \in TypeMapImports(map)
      BY <1>1, <3>1 DEF TypeMapImports
    <3> QED BY <3>2 DEF Known
  <2>2. CASE t \in ambient
    <3>1. a \in UNION {names(u) : u \in ambient}
      BY <2>2
    <3>2. a \in Ambient(map)
      BY <3>1 DEF Ambient
    <3> QED BY <3>2 DEF Known
  <2> QED BY <2>1, <2>2
<1>2. \A a \in names(t) : a # <<"ts", "none">> => a \in X
  BY <1>1
<1>3. <<"ts", map[t].type>> \in X
  <2>1. <<"ts", map[t].type>> # <<"ts", "none">>
    BY DEF IsTypeMap
  <2> HIDE DEF X
  <2> QED BY <1>2, <2>1
<1>4. map[t].inputType # "none" => <<"ts", map[t].inputType>> \in X
  <2>1. map[t].inputType # "none" => <<"ts", map[t].inputType>> # <<"ts", "none">>
    OBVIOUS
  <2> HIDE DEF X
  <2> QED BY <1>2, <2>1
<1> HIDE DEF X
<1>5. NamedOutputRef(map, t) \in X
  BY <1>3 DEF NamedOutputRef
<1>6. NamedInputRef(map, t) \in X
  <2>1. CASE map[t].inputType # "none"
    BY <1>4, <2>1 DEF NamedInputRef
  <2>2. CASE map[t].inputType = "none"
    BY <1>3, <2>2 DEF NamedInputRef
  <2> QED BY <2>1, <2>2
<1> QED BY <1>5, <1>6 DEF X

(* References to types are known if those without mapping are declared. *)
LEMMA TypeIsKnown ==
  ASSUME NEW map, IsTypeMap(map), NEW D, <<"Maybe">> \in D, NEW type, NEW optional \in BOOLEAN,
         type.named \in DOMAIN map \/ <<"T", type.named>> \in D
  PROVE  /\ NamedOutputRef(map, type.named) \in Known(map, D)
         /\ NamedInputRef(map, type.named) \in Known(map, D)
         /\ OutputRef(map, type, optional) \subseteq Known(map, D)
         /\ InputRef(map, type, optional) \subseteq Known(map, D)
<1> DEFINE t == type.named
<1>1. NamedOutputRef(map, t) \in Known(map, D) /\ NamedInputRef(map, t) \in Known(map, D)
  <2> HIDE DEF t
  <2>1. CASE t \in DOMAIN map
    BY <2>1, MappedIsKnown
  <2>2. CASE t \notin DOMAIN map /\ <<"T", t>> \in D
    BY <2>2 DEF NamedOutputRef, NamedInputRef, Known
  <2> QED BY <2>1, <2>2 DEF t
<1>2. MaybeOf(type, optional) \subseteq Known(map, D)
  BY DEF MaybeOf, Known
<1> QED BY <1>1, <1>2 DEF OutputRef, InputRef

(* So it is with the fields of input objects and with arguments. *)
LEMMA InputsAreKnown ==
  ASSUME NEW map, IsTypeMap(map), NEW D, <<"Maybe">> \in D, NEW fields,
         \A f \in DOMAIN fields :
           fields[f].type.named \in DOMAIN map \/ <<"T", fields[f].type.named>> \in D
  PROVE  InputFields(map, fields) \subseteq Known(map, D)
<1>1. \A f \in DOMAIN fields : InputRef(map, fields[f].type, FALSE) \subseteq Known(map, D)
  BY TypeIsKnown
<1> QED BY <1>1 DEF InputFields

(* The mappings of a schema. *)
LEMMA CommonMappings ==
  ASSUME NEW s
  PROVE  /\ IsTypeMap(CommonTypeMap(s))
         /\ DOMAIN CommonTypeMap(s) = OfKind(s, {"scalar"}) \cup Standard
<1>1. \A t \in Standard : StandardType(t) # "none"
  BY DEF Standard, StandardType
<1> QED BY <1>1 DEF IsTypeMap, CommonTypeMap, Builtin

(* The mappings of a server *)
LEMMA ServerMappings ==
  ASSUME NEW s, IsSchema(s)
  PROVE  IsTypeMap(ServerTypeMap(s)) /\ OfKind(s, {"scalar"}) \subseteq DOMAIN ServerTypeMap(s)
<1> DEFINE map == ServerTypeMap(s)
           U == DOMAIN CommonTypeMap(s)
                  \cup {u \in OfKind(s, {"object", "interface", "enum"}) : HasDirective(s, u)}
<1>1. DOMAIN map = U /\ OfKind(s, {"scalar"}) \subseteq U
  BY CommonMappings DEF ServerTypeMap
<1>2. ASSUME NEW t \in U PROVE map[t].type # "none"
  <2>1. CASE t \in Names(s) /\ HasDirective(s, t)
    <3>1. map[t] = Mapped(s, t)
      BY <2>1 DEF ServerTypeMap
    <3>2. Mapped(s, t).type = s.types[t].ts.type
      BY <2>1 DEF Mapped, IsSchema, IsMapping
    <3> QED BY <2>1, <3>1, <3>2 DEF IsSchema, IsMapping
  <2>2. CASE t \in Names(s) \ Standard /\ ~HasDirective(s, t)
    BY <2>2 DEF ServerTypeMap, Builtin
  <2>3. CASE ~(t \in Names(s) /\ HasDirective(s, t)) /\ ~(t \in Names(s) \ Standard /\ ~HasDirective(s, t))
    <3>1. map[t] = CommonTypeMap(s)[t]
      BY <2>3 DEF ServerTypeMap
    <3>2. t \in DOMAIN CommonTypeMap(s)
      BY <2>3 DEF OfKind
    <3> QED BY <3>1, <3>2, CommonMappings DEF IsTypeMap
  <2> QED BY <2>1, <2>2, <2>3
<1> QED BY <1>1, <1>2 DEF IsTypeMap

(* The server's names. *)
LEMMA ServerNames ==
  ASSUME NEW s, IsSchema(s)
  PROVE  ServerReferenced(s) \subseteq
           ServerDeclared(s) \cup ServerImported(s) \cup Ambient(ServerTypeMap(s))
<1> DEFINE map == ServerTypeMap(s)
           D == ServerDeclared(s) \cup ServerImported(s)
           X == Known(map, D)
<1>1. /\ IsTypeMap(map) /\ OfKind(s, {"scalar"}) \subseteq DOMAIN map
      /\ <<"Maybe">> \in D
      /\ X \subseteq D \cup Ambient(map)
      /\ \A t \in OfKind(s, {"object", "interface", "union", "enum", "input"}) : <<"T", t>> \in D
  <2>1. IsTypeMap(map) /\ OfKind(s, {"scalar"}) \subseteq DOMAIN map
    BY ServerMappings
  <2>2. <<"Maybe">> \in D
    BY DEF ServerDeclared, DeclaredHelpers
  <2>3. TypeMapImports(map) \subseteq D
    BY DEF ServerImported
  <2>4. \A t \in OfKind(s, {"object", "interface", "union", "enum", "input"}) :
          <<"T", t>> \in DeclaredTypes(s) \cup DeclaredInputs(s)
    BY DEF DeclaredTypes, DeclaredInputs, Composite, OfKind
  <2> QED BY <2>1, <2>2, <2>3, <2>4 DEF Known, ServerDeclared
<1>2. \A t \in OfKind(s, {"object", "interface", "union", "scalar", "enum", "input"}) :
        t \in DOMAIN map \/ <<"T", t>> \in D
  BY <1>1 DEF OfKind
<1> HIDE DEF map, D
<1>3. ASSUME NEW p \in FieldsOf(s, WithFields(s))
      PROVE  /\ \A optional \in BOOLEAN : OutputRef(map, Field(s, p[1], p[2]).type, optional) \subseteq X
             /\ InputFields(map, Field(s, p[1], p[2]).args) \subseteq X
  <2>1. p[1] \in WithFields(s) /\ p[2] \in FieldNames(s, p[1])
    BY DEF FieldsOf
  <2>2. Field(s, p[1], p[2]).type.named \in OfKind(s, {"object", "interface", "union", "scalar", "enum"})
    BY <2>1 DEF IsSchema
  <2>3. \A f \in DOMAIN Field(s, p[1], p[2]).args :
          Field(s, p[1], p[2]).args[f].type.named \in OfKind(s, {"scalar", "enum", "input"})
    BY DEF IsSchema
  <2>4. Field(s, p[1], p[2]).type.named \in DOMAIN map
          \/ <<"T", Field(s, p[1], p[2]).type.named>> \in D
    BY <1>2, <2>2 DEF OfKind
  <2>5. \A f \in DOMAIN Field(s, p[1], p[2]).args :
          Field(s, p[1], p[2]).args[f].type.named \in DOMAIN map
            \/ <<"T", Field(s, p[1], p[2]).args[f].type.named>> \in D
    BY <1>2, <2>3 DEF OfKind
  <2> QED BY <1>1, <2>4, <2>5, TypeIsKnown, InputsAreKnown
<1>4. ASSUME NEW t \in OfKind(s, {"object", "interface", "union", "enum"})
      PROVE  NamedOutputRef(map, t) \in X
  <2> DEFINE type == [named |-> t]
  <2>1. type.named \in DOMAIN map \/ <<"T", type.named>> \in D
    BY <1>1 DEF OfKind
  <2>2. NamedOutputRef(map, type.named) \in X
    <3> HIDE DEF type
    <3> QED BY <1>1, <2>1, TypeIsKnown
  <2> QED BY <2>2
<1>5. ResolverMapRefs(s) \subseteq X
  BY DEF ResolverMapRefs, Known, D, ServerDeclared, ServerImported, DeclaredResolvers
<1>6. TypeRefs(s) \subseteq X
  <2>1. \A t \in OfKind(s, {"union"}) : PossibleTypes(s, t) \subseteq OfKind(s, {"object"})
    BY DEF IsSchema, Composite, OfKind, Objects
  <2>2. \A u \in UNION {PossibleTypes(s, t) : t \in OfKind(s, {"union"})} : NamedOutputRef(map, u) \in X
    BY <1>4, <2>1 DEF OfKind
  <2> QED BY <1>3, <2>2 DEF TypeRefs, map
<1>7. ArgsRefs(s) \subseteq X
  <2>1. ASSUME NEW p \in FieldsOf(s, WithFields(s)), HasArgs(s, p[1], p[2])
        PROVE  ArgsName(p[1], p[2]) \in X
    BY <2>1 DEF Known, D, ServerDeclared, DeclaredArgs
  <2>2. <<"ts", "never">> \in X
    BY DEF Known, Ambient
  <2> QED BY <2>1, <2>2 DEF ArgsRefs
<1>8. ResolverRefs(s) \subseteq X
  <2>1. \A t \in Composite(s) : NamedOutputRef(map, t) \in X
    BY <1>4 DEF Composite, OfKind
  <2>2. {<<"AsyncResult">>, <<"ts", "GraphQLResolveInfo">>} \subseteq X
    BY DEF Known, D, ServerDeclared, ServerImported
  <2> QED BY <1>3, <2>1, <2>2 DEF ResolverRefs, map
<1>9. EnumRefs(s) \subseteq X
  BY <1>4 DEF EnumRefs, OfKind, map
<1>10. ArgsFieldRefs(s) \subseteq X
  BY <1>3 DEF ArgsFieldRefs, map
<1>11. InputRefs(s, map) \subseteq X
  <2>1. ASSUME NEW t \in OfKind(s, {"input"}) PROVE InputFields(map, s.types[t].fields) \subseteq X
    <3>1. \A f \in DOMAIN s.types[t].fields :
            s.types[t].fields[f].type.named \in OfKind(s, {"scalar", "enum", "input"})
      BY DEF IsSchema
    <3>2. \A f \in DOMAIN s.types[t].fields :
            s.types[t].fields[f].type.named \in DOMAIN map
              \/ <<"T", s.types[t].fields[f].type.named>> \in D
      BY <1>2, <3>1 DEF OfKind
    <3> QED BY <1>1, <3>2, InputsAreKnown
  <2> QED BY <2>1 DEF InputRefs
<1>12. DirectiveRefs(s, map) \subseteq X
  <2>1. ASSUME NEW e \in DOMAIN s.directives PROVE InputFields(map, s.directives[e]) \subseteq X
    <3>1. \A f \in DOMAIN s.directives[e] :
            s.directives[e][f].type.named \in OfKind(s, {"scalar", "enum", "input"})
      BY DEF IsSchema
    <3>2. \A f \in DOMAIN s.directives[e] :
            s.directives[e][f].type.named \in DOMAIN map
              \/ <<"T", s.directives[e][f].type.named>> \in D
      BY <1>2, <3>1 DEF OfKind
    <3> QED BY <1>1, <3>2, InputsAreKnown
  <2> QED BY <2>1 DEF DirectiveRefs
<1>13. ServerReferenced(s) \subseteq X
  BY <1>5, <1>6, <1>7, <1>8, <1>9, <1>10, <1>11, <1>12 DEF ServerReferenced, map
<1> QED BY <1>1, <1>13 DEF D, map

--------------------------------------------------------------------------------
(* The places of the generated types.                                             *)

(* Selections in place *)
LEMMA InPlaceFacts ==
  ASSUME NEW s, NEW d, IsDocument(d), NEW S \in SUBSET Nodes(d), NEW t
  PROVE  /\ S \subseteq InPlace(s, d, S, t) /\ InPlace(s, d, S, t) \subseteq Nodes(d)
         /\ \A x \in InPlace(s, d, S, t) :
              d.nodes[x].kind = "inline" /\ CheckTypeCondition(s, d.nodes[x].on, t) =>
                d.nodes[x].selections \subseteq InPlace(s, d, S, t)
<1> DEFINE step == [x \in Nodes(d) |->
                      IF d.nodes[x].kind = "inline" /\ CheckTypeCondition(s, d.nodes[x].on, t)
                      THEN d.nodes[x].selections ELSE {}]
<1>1. IsStep(step) /\ DOMAIN step = Nodes(d)
  BY DEF IsStep, IsDocument
<1>2. InPlace(s, d, S, t) = Closure(step, S)
  BY DEF InPlace
<1>3. /\ S \subseteq InPlace(s, d, S, t) /\ InPlace(s, d, S, t) \subseteq Nodes(d)
      /\ \A x \in InPlace(s, d, S, t) : step[x] \subseteq InPlace(s, d, S, t)
  <2> HIDE DEF step
  <2> QED BY <1>1, <1>2, ClosureFacts
<1> QED BY <1>3

(* Nothing else is in place. *)
LEMMA InPlaceIn ==
  ASSUME NEW s, NEW d, IsDocument(d), NEW S \in SUBSET Nodes(d), NEW t, NEW Z, S \subseteq Z,
         \A x \in Z \cap Nodes(d) :
           d.nodes[x].kind = "inline" /\ CheckTypeCondition(s, d.nodes[x].on, t) =>
             d.nodes[x].selections \subseteq Z
  PROVE  InPlace(s, d, S, t) \subseteq Z
<1> DEFINE step == [x \in Nodes(d) |->
                      IF d.nodes[x].kind = "inline" /\ CheckTypeCondition(s, d.nodes[x].on, t)
                      THEN d.nodes[x].selections ELSE {}]
<1>1. IsStep(step) /\ DOMAIN step = Nodes(d)
  BY DEF IsStep, IsDocument
<1>2. InPlace(s, d, S, t) = Closure(step, S) /\ \A x \in Z \cap DOMAIN step : step[x] \subseteq Z
  BY DEF InPlace
<1> HIDE DEF step
<1> QED BY <1>1, <1>2, ClosureIn

\* Where there are objects
ObjectPlaces(s, d) == (SUBSET Nodes(d)) \X Objects(s)

(* They are finitely many. *)
LEMMA FinitelyManyPlaces ==
  ASSUME NEW s, IsSchema(s), NEW d, IsDocument(d)
  PROVE  IsFiniteSet(SUBSET Nodes(d)) /\ IsFiniteSet(Objects(s)) /\ IsFiniteSet(ObjectPlaces(s, d))
<1>1. IsFiniteSet(SUBSET Nodes(d))
  BY FS_SUBSET DEF IsDocument
<1>2. IsFiniteSet(Objects(s))
  BY FS_Subset DEF IsSchema, Objects, OfKind
<1> QED BY <1>1, <1>2, FS_Product DEF ObjectPlaces

(* The type of a field of an object is known, and so are the objects it may have. *)
LEMMA FieldTypeKnown ==
  ASSUME NEW s, IsSchema(s), NEW t \in Objects(s), NEW f \in FieldNames(s, t)
  PROVE  LET type == Field(s, t, f).type
         IN  /\ type.named \in OfKind(s, {"object", "interface", "union", "scalar", "enum"})
             /\ IsComposite(s, type.named) => type.named \in Composite(s)
             /\ IsComposite(s, type.named) => PossibleTypes(s, type.named) \subseteq Objects(s)
             /\ type.wrappers \in Seq({"list", "nonNull"})
<1>1. t \in WithFields(s)
  BY DEF Objects, WithFields, OfKind
<1>2. /\ Field(s, t, f).type.named \in OfKind(s, {"object", "interface", "union", "scalar", "enum"})
      /\ Field(s, t, f).type.wrappers \in Seq({"list", "nonNull"})
  BY <1>1 DEF IsSchema
<1>3. IsComposite(s, Field(s, t, f).type.named) => Field(s, t, f).type.named \in Composite(s)
  BY <1>2 DEF IsComposite, Composite, OfKind
<1>4. \A c \in Composite(s) : PossibleTypes(s, c) \subseteq Objects(s)
  BY DEF IsSchema
<1> QED BY <1>2, <1>3, <1>4

(* Generated has the types of all operations, fragments and fields. *)
LEMMA GeneratedFacts ==
  ASSUME NEW s, IsSchema(s), NEW d, IsDocument(d), Valid(s, d)
  PROVE  /\ Generated(s, d) \subseteq ObjectPlaces(s, d)
         /\ \A o \in DOMAIN d.operations :
              DataType(s, d, o) = {<<d.operations[o].selections, Root(s, d, o)>>}
                /\ DataType(s, d, o) \subseteq Generated(s, d)
         /\ \A f \in DOMAIN d.fragments : FragmentType(s, d, f) \subseteq Generated(s, d)
         /\ \A p \in Generated(s, d) :
              FieldTypes(s, d, FieldsInPlace(s, d, p[1], p[2]), p[2]) \subseteq Generated(s, d)
<1> DEFINE next(p) == FieldTypes(s, d, FieldsInPlace(s, d, p[1], p[2]), p[2])
           step == [p \in ObjectPlaces(s, d) |-> next(p)]
           start == UNION ({DataType(s, d, o) : o \in DOMAIN d.operations}
                             \cup {FragmentType(s, d, f) : f \in DOMAIN d.fragments})
<1>1. ASSUME NEW p \in ObjectPlaces(s, d) PROVE next(p) \subseteq ObjectPlaces(s, d)
  <2> SUFFICES ASSUME NEW x \in WithSelections(s, d, FieldsInPlace(s, d, p[1], p[2]), p[2])
               PROVE  SelectionSet(s, d.nodes[x].selections, FieldOf(s, d, p[2], x).named)
                        \subseteq ObjectPlaces(s, d)
    BY DEF FieldTypes
  <2>1. p[1] \in SUBSET Nodes(d) /\ p[2] \in Objects(s)
    BY DEF ObjectPlaces
  <2>2. x \in Nodes(d)
    BY <2>1, InPlaceFacts DEF WithSelections, FieldsInPlace, OfKinds
  <2>3. d.nodes[x].name \in FieldNames(s, p[2]) /\ IsComposite(s, FieldOf(s, d, p[2], x).named)
    BY DEF WithSelections, FieldOf
  <2>4. PossibleTypes(s, FieldOf(s, d, p[2], x).named) \subseteq Objects(s)
    BY <2>1, <2>3, FieldTypeKnown DEF FieldOf
  <2> QED BY <2>2, <2>4 DEF SelectionSet, ObjectPlaces, IsDocument
<1>2. \A o \in DOMAIN d.operations :
        /\ DataType(s, d, o) = {<<d.operations[o].selections, Root(s, d, o)>>}
        /\ DataType(s, d, o) \subseteq ObjectPlaces(s, d)
  <2> SUFFICES ASSUME NEW o \in DOMAIN d.operations
               PROVE  /\ DataType(s, d, o) = {<<d.operations[o].selections, Root(s, d, o)>>}
                      /\ DataType(s, d, o) \subseteq ObjectPlaces(s, d)
    OBVIOUS
  <2>1. Root(s, d, o) \in Objects(s) /\ d.operations[o].selections \subseteq Nodes(d)
    BY DEF Valid, IsDocument
  <2>2. PossibleTypes(s, Root(s, d, o)) = {Root(s, d, o)}
    BY <2>1 DEF PossibleTypes, Objects, OfKind
  <2>3. DataType(s, d, o) = {<<d.operations[o].selections, Root(s, d, o)>>}
    BY <2>2 DEF DataType, SelectionSet
  <2> QED BY <2>1, <2>3 DEF ObjectPlaces
<1>3. \A f \in DOMAIN d.fragments : FragmentType(s, d, f) \subseteq ObjectPlaces(s, d)
  <2> SUFFICES ASSUME NEW f \in DOMAIN d.fragments PROVE FragmentType(s, d, f) \subseteq ObjectPlaces(s, d)
    OBVIOUS
  <2>1. d.fragments[f].on \in Composite(s) /\ d.fragments[f].selections \subseteq Nodes(d)
    BY DEF Valid, IsDocument, Composite
  <2>2. PossibleTypes(s, d.fragments[f].on) \subseteq Objects(s)
    BY <2>1 DEF IsSchema
  <2> QED BY <2>1, <2>2 DEF FragmentType, SelectionSet, ObjectPlaces
<1>4. /\ IsStep(step) /\ DOMAIN step = ObjectPlaces(s, d)
      /\ \A p \in ObjectPlaces(s, d) : step[p] = next(p)
  <2> HIDE DEF next
  <2> QED BY <1>1, FinitelyManyPlaces DEF IsStep
<1>5. start \in SUBSET ObjectPlaces(s, d)
  BY <1>2, <1>3
<1>6. Generated(s, d) = Closure(step, start)
  BY DEF Generated, ObjectPlaces
<1>7. /\ start \subseteq Generated(s, d) /\ Generated(s, d) \subseteq ObjectPlaces(s, d)
      /\ \A p \in Generated(s, d) : step[p] \subseteq Generated(s, d)
  <2> HIDE DEF step, start, next
  <2> QED BY <1>4, <1>5, <1>6, ClosureFacts
<1>8. /\ \A o \in DOMAIN d.operations : DataType(s, d, o) \subseteq start
      /\ \A f \in DOMAIN d.fragments : FragmentType(s, d, f) \subseteq start
  OBVIOUS
<1> HIDE DEF step, start
<1> QED BY <1>2, <1>4, <1>7, <1>8

(* The mappings of a client. *)
LEMMA ClientMappings ==
  ASSUME NEW s, NEW d, IsDocument(d)
  PROVE  /\ IsTypeMap(ClientTypeMap(s, d, ScalarTypes))
         /\ OfKind(s, {"scalar"}) \subseteq DOMAIN ClientTypeMap(s, d, ScalarTypes)
<1> DEFINE map == ClientTypeMap(s, d, ScalarTypes)
<1>1. /\ DOMAIN map = DOMAIN CommonTypeMap(s) \cup DOMAIN d.scalars \cup DOMAIN ScalarTypes
      /\ OfKind(s, {"scalar"}) \subseteq DOMAIN CommonTypeMap(s)
  BY CommonMappings DEF ClientTypeMap
<1>2. ASSUME NEW t \in DOMAIN map PROVE map[t].type # "none"
  <2>1. CASE t \in DOMAIN ScalarTypes
    BY <2>1, OptionsAssumption DEF ClientTypeMap, IsMapping
  <2>2. CASE t \in DOMAIN d.scalars \ DOMAIN ScalarTypes
    <3>1. map[t] = IF d.scalars[t] = NoDirective THEN Builtin("string") ELSE d.scalars[t]
      BY <2>2 DEF ClientTypeMap
    <3>2. CASE d.scalars[t] = NoDirective
      <4>1. map[t] = Builtin("string")
        BY <3>1, <3>2
      <4> HIDE DEF map
      <4> QED BY <4>1 DEF Builtin
    <3>3. CASE d.scalars[t] # NoDirective
      <4>1. map[t] = d.scalars[t]
        BY <3>1, <3>3
      <4>2. d.scalars[t].type # "none"
        BY <2>2, <3>3 DEF IsDocument, IsMapping
      <4> HIDE DEF map
      <4> QED BY <4>1, <4>2
    <3> QED BY <3>2, <3>3
  <2>3. CASE t \notin DOMAIN d.scalars \cup DOMAIN ScalarTypes
    <3>1. map[t] = CommonTypeMap(s)[t] /\ t \in DOMAIN CommonTypeMap(s)
      BY <1>1, <2>3 DEF ClientTypeMap
    <3> QED BY <3>1, CommonMappings DEF IsTypeMap
  <2> QED BY <2>1, <2>2, <2>3
<1> QED BY <1>1, <1>2 DEF IsTypeMap

(* The client's names. *)
LEMMA ClientNames ==
  ASSUME NEW s, IsSchema(s), NEW d, IsDocument(d), Valid(s, d), Generatable(s, d)
  PROVE  LET map == ClientTypeMap(s, d, ScalarTypes)
         IN  ClientReferenced(s, d, map) \subseteq
               ClientDeclared(s, d) \cup ClientImported(map) \cup Ambient(map)
<1> DEFINE map == ClientTypeMap(s, d, ScalarTypes)
           D == ClientDeclared(s, d) \cup ClientImported(map)
           X == Known(map, D)
<1>1. /\ IsTypeMap(map) /\ OfKind(s, {"scalar"}) \subseteq DOMAIN map
      /\ <<"Maybe">> \in D
      /\ X \subseteq D \cup Ambient(map)
      /\ \A t \in OfKind(s, {"enum", "input"}) : <<"T", t>> \in D
  <2>1. IsTypeMap(map) /\ OfKind(s, {"scalar"}) \subseteq DOMAIN map
    BY ClientMappings
  <2>2. <<"Maybe">> \in D
    BY DEF ClientDeclared, DeclaredHelpers
  <2>3. TypeMapImports(map) \subseteq D
    BY DEF ClientImported
  <2>4. \A t \in OfKind(s, {"enum", "input"}) : <<"T", t>> \in DeclaredInputs(s)
    BY DEF DeclaredInputs, OfKind
  <2> QED BY <2>1, <2>2, <2>3, <2>4 DEF Known, ClientDeclared
<1>2. \A t \in OfKind(s, {"scalar", "enum", "input"}) : t \in DOMAIN map \/ <<"T", t>> \in D
  BY <1>1 DEF OfKind
<1>3. D \subseteq X
  BY DEF Known
<1> HIDE DEF map, D
<1>4. ASSUME NEW p \in Generated(s, d) PROVE Leaves(s, map, ForObject(s, d, p[1], p[2])) \subseteq X
  <2> DEFINE alternative == ForObject(s, d, p[1], p[2])
  <2>1. p[1] \in SUBSET Nodes(d) /\ p[2] \in Objects(s)
    BY GeneratedFacts DEF ObjectPlaces
  <2>2. ASSUME NEW f \in alternative.fields, ~IsComposite(s, f.named)
        PROVE  NamedOutputRef(map, f.named) \in X
    <3>1. PICK x \in FieldsInPlace(s, d, p[1], p[2]) : f = Entry(s, d, p[2], x)
      BY DEF ForObject
    <3>2. d.nodes[x].name \in FieldNames(s, p[2])
      BY DEF Generatable
    <3>3. f.named \in OfKind(s, {"object", "interface", "union", "scalar", "enum"})
      BY <2>1, <3>1, <3>2, FieldTypeKnown DEF Entry, FieldOf
    <3>4. f.named \in OfKind(s, {"scalar", "enum", "input"})
      BY <2>2, <3>3 DEF OfKind, IsComposite
    <3> QED BY <1>1, <1>2, <3>4, TypeIsKnown
  <2>3. ASSUME NEW f \in alternative.fragments PROVE <<"F", f>> \in X
    <3>1. PICK x \in SpreadsInPlace(s, d, p[1], p[2]) : f = d.nodes[x].name
      BY DEF ForObject
    <3>2. x \in Nodes(d) /\ d.nodes[x].kind = "spread"
      BY <2>1, InPlaceFacts DEF SpreadsInPlace, OfKinds
    <3>3. f \in DOMAIN d.fragments
      BY <3>1, <3>2 DEF Valid
    <3> QED BY <1>3, <3>3 DEF D, ClientDeclared
  <2> QED BY <1>1, <1>3, <2>2, <2>3 DEF Leaves
<1>5. ASSUME NEW o \in DOMAIN d.operations
      PROVE  InputFields(map, [v \in DOMAIN d.operations[o].variables |->
                                 [type |-> d.operations[o].variables[v]]]) \subseteq X
  <2> DEFINE fields == [v \in DOMAIN d.operations[o].variables |->
                          [type |-> d.operations[o].variables[v]]]
  <2>1. \A v \in DOMAIN d.operations[o].variables :
          d.operations[o].variables[v].named \in OfKind(s, {"scalar", "enum", "input"})
    BY DEF Valid
  <2>2. \A v \in DOMAIN fields :
          fields[v].type.named \in DOMAIN map \/ <<"T", fields[v].type.named>> \in D
    BY <1>2, <2>1
  <2> HIDE DEF fields
  <2>3. InputFields(map, fields) \subseteq X
    BY <1>1, <2>2, InputsAreKnown
  <2> QED BY <2>3 DEF fields
<1>6. InputRefs(s, map) \subseteq X
  <2>1. ASSUME NEW t \in OfKind(s, {"input"}) PROVE InputFields(map, s.types[t].fields) \subseteq X
    <3>1. \A f \in DOMAIN s.types[t].fields :
            s.types[t].fields[f].type.named \in OfKind(s, {"scalar", "enum", "input"})
      BY DEF IsSchema
    <3>2. \A f \in DOMAIN s.types[t].fields :
            s.types[t].fields[f].type.named \in DOMAIN map
              \/ <<"T", s.types[t].fields[f].type.named>> \in D
      BY <1>2, <3>1 DEF OfKind
    <3> QED BY <1>1, <3>2, InputsAreKnown
  <2> QED BY <2>1 DEF InputRefs
<1>7. \A o \in DOMAIN d.operations : VariablesRef(d, o) \in X
  <2>1. <<"ts", "undefined">> \in X
    BY DEF Known, Ambient
  <2>2. \A o \in DOMAIN d.operations :
          DOMAIN d.operations[o].variables # {} => <<"V", o>> \in DeclaredVariables(d)
    BY DEF DeclaredVariables
  <2>3. DeclaredVariables(d) \subseteq X
    BY <1>3 DEF D, ClientDeclared
  <2> HIDE DEF X
  <2> QED BY <2>1, <2>2, <2>3 DEF VariablesRef
<1>8. {<<part, o>> : part \in {"D", "Document"}, o \in DOMAIN d.operations} \subseteq X
  BY <1>3 DEF D, ClientDeclared
<1>9. <<"ts", "ExecutionResult">> \in X
  BY <1>3 DEF D, ClientImported
<1>10. ClientReferenced(s, d, map) \subseteq X
  <2> HIDE DEF X
  <2> SUFFICES ASSUME NEW a \in ClientReferenced(s, d, map) PROVE a \in X
    OBVIOUS
  <2> DEFINE variables(o) == [v \in DOMAIN d.operations[o].variables |->
                                [type |-> d.operations[o].variables[v]]]
  <2>1. \/ \E p \in Generated(s, d) : a \in Leaves(s, map, ForObject(s, d, p[1], p[2]))
        \/ \E o \in DOMAIN d.operations : a \in InputFields(map, variables(o))
        \/ a \in InputRefs(s, map)
        \/ \E o \in DOMAIN d.operations : a = VariablesRef(d, o)
        \/ a \in {<<part, o>> : part \in {"D", "Document"}, o \in DOMAIN d.operations}
        \/ a = <<"ts", "ExecutionResult">>
    BY DEF ClientReferenced
  <2>2. \A o \in DOMAIN d.operations : InputFields(map, variables(o)) \subseteq X
    BY <1>5
  <2> HIDE DEF variables
  <2> QED BY <1>4, <1>6, <1>7, <1>8, <1>9, <2>1, <2>2
<1> QED BY <1>1, <1>10 DEF D, map

(* Neither the generated server nor the generated client refers to a name that it neither   *)
(* declares nor imports, for all schemas and documents and all type mappings.               *)
THEOREM NamesDeclared == Spec => []GeneratedNamesDeclared
<1>1. IInv => GeneratedNamesDeclared
  <2> SUFFICES ASSUME IInv PROVE GeneratedNamesDeclared
    OBVIOUS
  <2>1. IsSchema(schema) /\ IsDocument(document)
    BY InputsAre DEF IInv
  <2>2. ASSUME "server" \in generated
        PROVE  server.referenced \subseteq server.declared \cup Ambient(ServerTypeMap(schema))
    BY <2>1, <2>2, ServerNames DEF IInv, ServerIs
  <2>3. ASSUME "client" \in generated
        PROVE  client.referenced \subseteq client.declared \cup Ambient(ClientTypes)
    <3>1. /\ Valid(schema, document) /\ Generatable(schema, document)
          /\ client.referenced = ClientReferenced(schema, document, ClientTypes)
          /\ client.declared = ClientDeclared(schema, document) \cup ClientImported(ClientTypes)
      BY <2>3 DEF IInv, ClientIs
    <3> QED BY <2>1, <3>1, ClientNames DEF ClientTypes
  <2> QED BY <2>2, <2>3 DEF GeneratedNamesDeclared
<1> QED BY <1>1, Invariance, PTL

--------------------------------------------------------------------------------
(* Nullability.  generateFieldType() goes from level to level; what it puts into *)
(* Maybe<> from a level on is told without going.                               *)

(* A set of numbers has a least one. *)
LEMMA LeastNumber ==
  ASSUME NEW S \in SUBSET Nat, S # {}
  PROVE  \E m \in S : \A n \in S : m <= n
<1>1. PICK m \in S : \A n \in S : ~(<<n, m>> \in OpToRel(<, Nat))
  BY WFMin, NatLessThanWellFounded, Zenon
<1>2. \A n \in S : ~(n < m)
  BY <1>1, Zenon DEF OpToRel
<1> QED BY <1>2

\* From a level on
LevelPlaces(type) == (1..Len(type.wrappers) + 1) \X BOOLEAN

LevelsFrom(type, w) ==
  {n \in w[1]..Len(type.wrappers) + 1 :
     /\ n = Len(type.wrappers) + 1 \/ type.wrappers[n] # "nonNull"
     /\ IF n = w[1] THEN w[2] ELSE type.wrappers[n - 1] # "nonNull"}

LevelsAfter(type, n, optional) ==
  IF type.wrappers[n] = "nonNull" THEN LevelsFrom(type, <<n + 1, FALSE>>)
  ELSE (IF optional THEN {n} ELSE {}) \cup LevelsFrom(type, <<n + 1, TRUE>>)

LevelsHere(type, levels, w) ==
  LET maybe == IF w[2] THEN {w[1]} ELSE {}
  IN  IF w[1] = Len(type.wrappers) + 1 THEN maybe
      ELSE IF type.wrappers[w[1]] = "nonNull" THEN levels[<<w[1] + 1, FALSE>>]
      ELSE maybe \cup levels[<<w[1] + 1, TRUE>>]

IsLevels(type, levels) == levels = [w \in LevelPlaces(type) |-> LevelsHere(type, levels, w)]

(* A level more *)
LEMMA LevelsNext ==
  ASSUME NEW type, type.wrappers \in Seq({"list", "nonNull"}),
         NEW n \in 1..Len(type.wrappers), NEW optional \in BOOLEAN
  PROVE  LevelsFrom(type, <<n, optional>>) = LevelsAfter(type, n, optional)
<1> DEFINE k == Len(type.wrappers) + 1
<1>1. k \in Nat /\ n \in Nat /\ n < k
  OBVIOUS
<1> HIDE DEF k
<1>2. \A m \in n..k : m = n \/ m \in n + 1..k
  BY <1>1
<1>3. n + 1..k \subseteq n..k /\ n \notin n + 1..k /\ n \in n..k
  BY <1>1
<1>4. n + 1 - 1 = n
  BY <1>1
<1>5. CASE type.wrappers[n] = "nonNull"
  BY <1>1, <1>2, <1>3, <1>4, <1>5 DEF LevelsFrom, LevelsAfter, k
<1>6. CASE type.wrappers[n] # "nonNull"
  BY <1>1, <1>2, <1>3, <1>4, <1>6 DEF LevelsFrom, LevelsAfter, k
<1> QED BY <1>5, <1>6

(* The recursion says the same. *)
LEMMA LevelsFromHere ==
  ASSUME NEW type, type.wrappers \in Seq({"list", "nonNull"}), NEW levels,
         NEW w \in LevelPlaces(type),
         \A v \in LevelPlaces(type) : v[1] = w[1] + 1 => levels[v] = LevelsFrom(type, v)
  PROVE  LevelsHere(type, levels, w) = LevelsFrom(type, w)
<1>1. /\ w = <<w[1], w[2]>> /\ w[1] \in 1..Len(type.wrappers) + 1 /\ w[2] \in BOOLEAN
      /\ Len(type.wrappers) \in Nat
  BY DEF LevelPlaces
<1>2. CASE w[1] = Len(type.wrappers) + 1
  BY <1>1, <1>2 DEF LevelsHere, LevelsFrom
<1>3. CASE w[1] # Len(type.wrappers) + 1
  <2>1. w[1] \in 1..Len(type.wrappers) /\ w[1] + 1 \in 1..Len(type.wrappers) + 1
    BY <1>1, <1>3
  <2>2. \A b \in BOOLEAN : levels[<<w[1] + 1, b>>] = LevelsFrom(type, <<w[1] + 1, b>>)
    BY <2>1 DEF LevelPlaces
  <2>3. LevelsFrom(type, <<w[1], w[2]>>) = LevelsAfter(type, w[1], w[2])
    BY <1>1, <2>1, LevelsNext
  <2>4. LevelsFrom(type, w) = LevelsFrom(type, <<w[1], w[2]>>)
    BY <1>1
  <2> QED BY <1>1, <1>3, <2>2, <2>3, <2>4 DEF LevelsHere, LevelsAfter
<1> QED BY <1>2, <1>3

(* The generated types are nullable where the schema's are. *)
LEMMA LevelsAreNullable ==
  ASSUME NEW type, type.wrappers \in Seq({"list", "nonNull"})
  PROVE  MaybeLevels(type) = Nullable(type)
<1> DEFINE k == Len(type.wrappers) + 1
           levels == CHOOSE l : IsLevels(type, l)
<1>1. k \in Nat /\ k >= 1
  OBVIOUS
<1>2. IsLevels(type, levels)
  <2> DEFINE l == [w \in LevelPlaces(type) |-> LevelsFrom(type, w)]
  <2>1. \A w \in LevelPlaces(type) : LevelsHere(type, l, w) = LevelsFrom(type, w)
    <3> SUFFICES ASSUME NEW w \in LevelPlaces(type) PROVE LevelsHere(type, l, w) = LevelsFrom(type, w)
      OBVIOUS
    <3>1. \A v \in LevelPlaces(type) : l[v] = LevelsFrom(type, v)
      OBVIOUS
    <3> HIDE DEF l
    <3> QED BY <3>1, LevelsFromHere
  <2>2. IsLevels(type, l)
    BY <2>1 DEF IsLevels
  <2> QED BY <2>2
<1> HIDE DEF levels
<1> DEFINE wrong == {w \in LevelPlaces(type) : levels[w] # LevelsFrom(type, w)}
           left == {k - w[1] : w \in wrong}
<1>3. wrong = {}
  <2> SUFFICES ASSUME wrong # {} PROVE FALSE
    OBVIOUS
  <2>1. left \in SUBSET Nat /\ left # {}
    BY <1>1 DEF LevelPlaces
  <2>2. PICK m \in left : \A n \in left : m <= n
    <3> HIDE DEF left
    <3> QED BY <2>1, LeastNumber
  <2>3. PICK w \in wrong : m = k - w[1]
    OBVIOUS
  <2>4. w[1] \in Nat
    BY DEF LevelPlaces
  <2>5. ASSUME NEW v \in LevelPlaces(type), v[1] = w[1] + 1 PROVE levels[v] = LevelsFrom(type, v)
    <3>1. v \notin wrong
      <4> SUFFICES ASSUME v \in wrong PROVE FALSE
        OBVIOUS
      <4>1. k - v[1] \in left
        OBVIOUS
      <4>2. k - w[1] <= k - v[1]
        BY <2>2, <2>3, <4>1
      <4> QED BY <1>1, <2>4, <2>5, <4>2
    <3> QED BY <3>1
  <2>6. levels[w] = LevelsHere(type, levels, w)
    BY <1>2 DEF IsLevels
  <2>7. levels[w] = LevelsFrom(type, w)
    BY <2>5, <2>6, LevelsFromHere
  <2> QED BY <2>7
<1>4. MaybeLevels(type) = levels[<<1, TRUE>>]
  BY DEF MaybeLevels, levels, IsLevels, LevelsHere, LevelPlaces
<1>5. <<1, TRUE>> \in LevelPlaces(type)
  <2>1. Len(type.wrappers) \in Nat
    OBVIOUS
  <2>2. 1 \in 1..Len(type.wrappers) + 1
    BY <2>1
  <2> QED BY <2>2 DEF LevelPlaces
<1>6. LevelsFrom(type, <<1, TRUE>>) = Nullable(type)
  BY <1>1 DEF LevelsFrom, Nullable
<1> QED BY <1>3, <1>4, <1>5, <1>6

\* The selections that are collected for an object of type t
Collected(s, d, S, t) ==
  Closure([x \in Nodes(d) |->
             IF d.nodes[x].kind # "field" /\ Applies(s, Condition(d, x), t)
             THEN Onward(d, x, {}) ELSE {}],
          S)

\* Fragments have conditions that generated types can decide.
Decidable(s, d) ==
  \A x \in Nodes(d) : d.nodes[x].kind # "field" => Condition(d, x) \in OfKind(s, {"object", "interface"})

(* The generator decides conditions as the server does. *)
LEMMA ConditionsAgree ==
  ASSUME NEW s, IsSchema(s), NEW on \in OfKind(s, {"object", "interface"}), NEW t \in Objects(s)
  PROVE  /\ CheckTypeCondition(s, on, t) <=> Applies(s, on, t)
         /\ Applies(s, on, t) <=> t \in PossibleTypes(s, on)
<1>1. on # "none" /\ on \in Names(s) /\ t \in Names(s) /\ Kind(s, t) = "object"
  BY DEF IsSchema, OfKind, Objects
<1>2. \A n \in DOMAIN Interfaces(s, t) :
        Interfaces(s, t)[n] \in Names(s) /\ Kind(s, Interfaces(s, t)[n]) = "interface"
  BY DEF IsSchema, OfKind
<1>3. CASE Kind(s, on) = "object"
  <2>1. PossibleTypes(s, on) = {on} /\ ~\E n \in DOMAIN Interfaces(s, t) : Interfaces(s, t)[n] = on
    BY <1>2, <1>3 DEF PossibleTypes
  <2> QED BY <1>1, <2>1 DEF CheckTypeCondition, Applies
<1>4. CASE Kind(s, on) = "interface"
  <2>1. t # on /\ on \in OfKind(s, {"interface"})
    BY <1>1, <1>4 DEF OfKind
  <2>2. t \in PossibleTypes(s, on) <=> \E n \in DOMAIN Interfaces(s, t) : Interfaces(s, t)[n] = on
    BY <2>1 DEF IsSchema
  <2> QED BY <1>1, <2>1, <2>2 DEF CheckTypeCondition, Applies
<1> QED BY <1>3, <1>4 DEF OfKind

(* Collecting leads from selections to selections, through the fragments that apply. *)
LEMMA CollectedFacts ==
  ASSUME NEW s, NEW d, IsDocument(d), NEW S \in SUBSET Nodes(d), NEW t
  PROVE  /\ S \subseteq Collected(s, d, S, t) /\ Collected(s, d, S, t) \subseteq Nodes(d)
         /\ \A x \in Collected(s, d, S, t) :
              d.nodes[x].kind # "field" /\ Applies(s, Condition(d, x), t) =>
                Onward(d, x, {}) \subseteq Collected(s, d, S, t)
<1> DEFINE step == [x \in Nodes(d) |->
                      IF d.nodes[x].kind # "field" /\ Applies(s, Condition(d, x), t)
                      THEN Onward(d, x, {}) ELSE {}]
<1>1. \A x \in Nodes(d) : Onward(d, x, {}) \subseteq Nodes(d)
  BY OnwardIsStep DEF IsStep, OnwardStep
<1>2. IsStep(step) /\ DOMAIN step = Nodes(d)
  BY <1>1 DEF IsStep, IsDocument
<1>3. Collected(s, d, S, t) = Closure(step, S)
  BY DEF Collected
<1>4. /\ S \subseteq Collected(s, d, S, t) /\ Collected(s, d, S, t) \subseteq Nodes(d)
      /\ \A x \in Collected(s, d, S, t) : step[x] \subseteq Collected(s, d, S, t)
  <2> HIDE DEF step
  <2> QED BY <1>2, <1>3, ClosureFacts
<1> QED BY <1>4

(* Nothing else is collected. *)
LEMMA CollectedIn ==
  ASSUME NEW s, NEW d, IsDocument(d), NEW S \in SUBSET Nodes(d), NEW t, NEW Z, S \subseteq Z,
         \A x \in Z \cap Nodes(d) :
           d.nodes[x].kind # "field" /\ Applies(s, Condition(d, x), t) => Onward(d, x, {}) \subseteq Z
  PROVE  Collected(s, d, S, t) \subseteq Z
<1> DEFINE step == [x \in Nodes(d) |->
                      IF d.nodes[x].kind # "field" /\ Applies(s, Condition(d, x), t)
                      THEN Onward(d, x, {}) ELSE {}]
<1>1. \A x \in Nodes(d) : Onward(d, x, {}) \subseteq Nodes(d)
  BY OnwardIsStep DEF IsStep, OnwardStep
<1>2. IsStep(step) /\ DOMAIN step = Nodes(d)
  BY <1>1 DEF IsStep, IsDocument
<1>3. Collected(s, d, S, t) = Closure(step, S) /\ \A x \in Z \cap DOMAIN step : step[x] \subseteq Z
  BY DEF Collected
<1> HIDE DEF step
<1> QED BY <1>2, <1>3, ClosureIn

(* The fields that are asked for *)
LEMMA AskedIs ==
  ASSUME NEW s, NEW d, NEW S, NEW t
  PROVE  /\ CollectFields(s, d, S, t) = OfKinds(d, Collected(s, d, S, t), "field")
         /\ Asked(s, d, S, t) =
              {x \in OfKinds(d, Collected(s, d, S, t), "field") : ~IsTypeName(d, x)}
         /\ (CollectFields(s, d, S, t) = Asked(s, d, S, t)) <=>
              \A x \in Collected(s, d, S, t) : ~IsTypeName(d, x)
<1>1. CollectFields(s, d, S, t) = OfKinds(d, Collected(s, d, S, t), "field")
  BY DEF CollectFields, Collected
<1>2. Asked(s, d, S, t) = {x \in OfKinds(d, Collected(s, d, S, t), "field") : ~IsTypeName(d, x)}
  BY <1>1 DEF Asked
<1> QED BY <1>1, <1>2 DEF OfKinds, IsTypeName

(* An object asks for selections of the document. *)
LEMMA AskedIn ==
  ASSUME NEW s, NEW d, IsDocument(d), NEW S \in SUBSET Nodes(d), NEW t
  PROVE  Asked(s, d, S, t) \subseteq Nodes(d)
BY CollectedFacts, AskedIs DEF OfKinds

(* hasTypeNameField() looks through the same fragments. *)
LEMMA TypeNameIsCollected ==
  ASSUME NEW s, IsSchema(s), NEW d, Decidable(s, d), NEW S, NEW t \in Objects(s)
  PROVE  HasTypeNameField(s, d, S, t) <=> \E x \in Collected(s, d, S, t) : IsTypeName(d, x)
<1>1. \A x \in Nodes(d) : d.nodes[x].kind # "field" =>
        (CheckTypeCondition(s, Condition(d, x), t) <=> Applies(s, Condition(d, x), t))
  BY ConditionsAgree DEF Decidable
<1>2. [x \in Nodes(d) |->
         IF d.nodes[x].kind # "field" /\ CheckTypeCondition(s, Condition(d, x), t)
         THEN Onward(d, x, {}) ELSE {}]
      = [x \in Nodes(d) |->
           IF d.nodes[x].kind # "field" /\ Applies(s, Condition(d, x), t)
           THEN Onward(d, x, {}) ELSE {}]
  BY <1>1
<1> QED BY <1>2 DEF HasTypeNameField, Collected

(* Fields with selections are on objects that are known. *)
LEMMA BelowIsKnown ==
  ASSUME NEW s, IsSchema(s), NEW d, NEW t \in Objects(s), NEW fields,
         NEW x \in WithSelections(s, d, fields, t)
  PROVE  TypesBelow(s, d, x, t) \subseteq Objects(s)
<1>1. d.nodes[x].name \in FieldNames(s, t) /\ IsComposite(s, Field(s, t, d.nodes[x].name).type.named)
  BY DEF WithSelections
<1> QED BY <1>1, FieldTypeKnown DEF TypesBelow

(* So are the selections of fields with one key. *)
LEMMA MergedAreNodes ==
  ASSUME NEW s, NEW d, IsDocument(d), NEW S \in SUBSET Nodes(d), NEW t, NEW key
  PROVE  MergedSelections(d, Asked(s, d, S, t), key) \subseteq Nodes(d)
<1>1. \A x \in Asked(s, d, S, t) : d.nodes[x].selections \subseteq Nodes(d)
  BY AskedIn DEF IsDocument
<1> QED BY <1>1 DEF MergedSelections, WithKey

(* The places where there may be objects in answers *)
LEMMA AnswerPlacesFacts ==
  ASSUME NEW s, IsSchema(s), NEW d, IsDocument(d), Valid(s, d)
  PROVE  /\ AnswerPlaces(s, d) \subseteq ObjectPlaces(s, d)
         /\ \A o \in DOMAIN d.operations :
              <<d.operations[o].selections, Root(s, d, o)>> \in AnswerPlaces(s, d)
         /\ \A p \in AnswerPlaces(s, d) :
              LET asked == Asked(s, d, p[1], p[2])
              IN  \A x \in WithSelections(s, d, asked, p[2]) : \A u \in TypesBelow(s, d, x, p[2]) :
                    <<MergedSelections(d, asked, d.nodes[x].key), u>> \in AnswerPlaces(s, d)
<1> DEFINE asked(p) == Asked(s, d, p[1], p[2])
           below(p, x) == {MergedSelections(d, asked(p), d.nodes[x].key)} \X TypesBelow(s, d, x, p[2])
           next(p) == UNION {below(p, x) : x \in WithSelections(s, d, asked(p), p[2])}
           step == [p \in ObjectPlaces(s, d) |-> next(p)]
           start == {<<d.operations[o].selections, Root(s, d, o)>> : o \in DOMAIN d.operations}
<1>1. ASSUME NEW p \in ObjectPlaces(s, d) PROVE next(p) \subseteq ObjectPlaces(s, d)
  <2> SUFFICES ASSUME NEW x \in WithSelections(s, d, asked(p), p[2])
               PROVE  below(p, x) \subseteq ObjectPlaces(s, d)
    OBVIOUS
  <2>1. p[1] \in SUBSET Nodes(d) /\ p[2] \in Objects(s)
    BY DEF ObjectPlaces
  <2>2. MergedSelections(d, asked(p), d.nodes[x].key) \subseteq Nodes(d)
    BY <2>1, MergedAreNodes
  <2>3. TypesBelow(s, d, x, p[2]) \subseteq Objects(s)
    BY <2>1, BelowIsKnown
  <2> QED BY <2>2, <2>3 DEF ObjectPlaces
<1>2. start \in SUBSET ObjectPlaces(s, d)
  <2>1. \A o \in DOMAIN d.operations : Root(s, d, o) \in Objects(s) /\ d.operations[o].selections \subseteq Nodes(d)
    BY DEF Valid, IsDocument
  <2> QED BY <2>1 DEF ObjectPlaces
<1>3. /\ IsStep(step) /\ DOMAIN step = ObjectPlaces(s, d)
      /\ \A p \in ObjectPlaces(s, d) : step[p] = next(p)
  <2> HIDE DEF next
  <2> QED BY <1>1, FinitelyManyPlaces DEF IsStep
<1>4. AnswerPlaces(s, d) = Closure(step, start)
  BY DEF AnswerPlaces, ObjectPlaces
<1>5. /\ start \subseteq AnswerPlaces(s, d) /\ AnswerPlaces(s, d) \subseteq ObjectPlaces(s, d)
      /\ \A p \in AnswerPlaces(s, d) : step[p] \subseteq AnswerPlaces(s, d)
  <2> HIDE DEF step, start, next
  <2> QED BY <1>2, <1>3, <1>4, ClosureFacts
<1>6. ASSUME NEW p \in AnswerPlaces(s, d),
             NEW x \in WithSelections(s, d, asked(p), p[2]), NEW u \in TypesBelow(s, d, x, p[2])
      PROVE  <<MergedSelections(d, asked(p), d.nodes[x].key), u>> \in AnswerPlaces(s, d)
  <2>1. <<MergedSelections(d, asked(p), d.nodes[x].key), u>> \in below(p, x)
    OBVIOUS
  <2> HIDE DEF below
  <2>2. below(p, x) \subseteq next(p)
    OBVIOUS
  <2>3. step[p] = next(p) /\ step[p] \subseteq AnswerPlaces(s, d)
    BY <1>3, <1>5
  <2> HIDE DEF step, next
  <2> QED BY <2>1, <2>2, <2>3
<1>7. \A o \in DOMAIN d.operations : <<d.operations[o].selections, Root(s, d, o)>> \in start
  OBVIOUS
<1> HIDE DEF step, start
<1> QED BY <1>5, <1>6, <1>7

(* Of one key there is one name. *)
LEMMA OneNamePerKey ==
  ASSUME NEW s, NEW d, Valid(s, d), NEW S, NEW t, <<S, t>> \in AnswerPlaces(s, d),
         NEW x \in Asked(s, d, S, t), NEW y \in Asked(s, d, S, t), d.nodes[x].key = d.nodes[y].key
  PROVE  d.nodes[x].name = d.nodes[y].name
<1> DEFINE p == <<S, t>>
<1>1. p[1] = S /\ p[2] = t
  OBVIOUS
<1>2. \A a, b \in Asked(s, d, p[1], p[2]) : d.nodes[a].key = d.nodes[b].key => d.nodes[a].name = d.nodes[b].name
  <2> HIDE DEF p
  <2> QED BY DEF Valid, p
<1> HIDE DEF p
<1> QED BY <1>1, <1>2

--------------------------------------------------------------------------------
(* Answers.  From here on s and d are the schema and the document of the client. *)

\* What there is when a client has been generated from a document that is supported
Ready ==
  /\ IsSchema(schema) /\ IsDocument(document)
  /\ Valid(schema, document) /\ Generatable(schema, document)
  /\ Decidable(schema, document)
  /\ DOMAIN client.types = Generated(schema, document)
  /\ \A p \in Generated(schema, document) : client.types[p] = ForObject(schema, document, p[1], p[2])
  /\ \A o \in DOMAIN document.operations : client.data[o] = DataType(schema, document, o)
  /\ \A f \in DOMAIN document.fragments : client.fragments[f] = FragmentType(schema, document, f)

(* A client of a supported document is ready. *)
LEMMA ClientIsReady == IInv /\ "client" \in generated /\ Supported(document) => Ready
<1> SUFFICES ASSUME IInv, "client" \in generated, Supported(document) PROVE Ready
  OBVIOUS
<1>1. IsSchema(schema) /\ IsDocument(document) /\ Valid(schema, document) /\ Generatable(schema, document)
  BY InputsAre DEF IInv, ClientIs
<1>2. /\ DOMAIN client.types = Generated(schema, document)
      /\ \A p \in Generated(schema, document) : client.types[p] = ForObject(schema, document, p[1], p[2])
      /\ \A o \in DOMAIN document.operations : client.data[o] = DataType(schema, document, o)
      /\ \A f \in DOMAIN document.fragments : client.fragments[f] = FragmentType(schema, document, f)
  BY DEF IInv, ClientIs
<1>3. ASSUME NEW x \in Nodes(document), document.nodes[x].kind # "field"
      PROVE  Condition(document, x) \in OfKind(schema, {"object", "interface"})
  <2>1. Kind(schema, Condition(document, x)) # "union"
    BY <1>3 DEF Supported
  <2>2. Condition(document, x) \in OfKind(schema, {"object", "interface", "union"})
    <3>1. CASE document.nodes[x].kind = "spread"
      BY <1>1, <3>1 DEF Valid, Condition
    <3>2. CASE document.nodes[x].kind = "inline"
      BY <1>1, <3>2 DEF Valid, Condition, Supported
    <3> QED BY <1>1, <1>3, <3>1, <3>2 DEF IsDocument
  <2> QED BY <2>1, <2>2 DEF OfKind
<1> QED BY <1>1, <1>2, <1>3 DEF Ready, Decidable

\* The alternatives for objects of type t at places whose selections are S together
PlacesOf(P, S, t) ==
  /\ P \subseteq Generated(schema, document) /\ t \in Objects(schema)
  /\ \A p \in P : p[2] = t
  /\ S = UNION {p[1] : p \in P}

IntersectedStep(t) ==
  [p \in DOMAIN client.types |->
     {q \in UNION {client.fragments[f] : f \in client.types[p].fragments} : q[2] = t}]

(* The fragments of an alternative are generated. *)
LEMMA IntersectedIsStep ==
  ASSUME Ready, NEW t
  PROVE  /\ IsStep(IntersectedStep(t))
         /\ \A p \in Generated(schema, document) : \A q :
              q \in IntersectedStep(t)[p] <=>
                /\ q[2] = t
                /\ \E x \in SpreadsInPlace(schema, document, p[1], p[2]) :
                     q \in FragmentType(schema, document, document.nodes[x].name)
<1> DEFINE s == schema
           d == document
<1>1. DOMAIN client.types = Generated(s, d) /\ Generated(s, d) \subseteq ObjectPlaces(s, d)
  BY GeneratedFacts DEF Ready
<1>2. IsFiniteSet(DOMAIN client.types)
  BY <1>1, FinitelyManyPlaces, FS_Subset DEF Ready
<1>3. ASSUME NEW p \in Generated(s, d)
      PROVE  /\ client.types[p].fragments = {d.nodes[x].name : x \in SpreadsInPlace(s, d, p[1], p[2])}
             /\ \A x \in SpreadsInPlace(s, d, p[1], p[2]) : d.nodes[x].name \in DOMAIN d.fragments
  <2>1. p[1] \in SUBSET Nodes(d)
    BY <1>1 DEF ObjectPlaces
  <2>2. client.types[p] = ForObject(s, d, p[1], p[2])
    BY DEF Ready
  <2>3. \A x \in SpreadsInPlace(s, d, p[1], p[2]) : x \in Nodes(d) /\ d.nodes[x].kind = "spread"
    BY <2>1, InPlaceFacts DEF SpreadsInPlace, OfKinds, Ready
  <2> QED BY <2>2, <2>3 DEF ForObject, Ready, Valid
<1>4. ASSUME NEW p \in Generated(s, d), NEW q
      PROVE  q \in IntersectedStep(t)[p] <=>
               /\ q[2] = t
               /\ \E x \in SpreadsInPlace(s, d, p[1], p[2]) : q \in FragmentType(s, d, d.nodes[x].name)
  <2>1. q \in IntersectedStep(t)[p] <=>
          q[2] = t /\ \E f \in client.types[p].fragments : q \in client.fragments[f]
    BY <1>1 DEF IntersectedStep
  <2>2. \A f \in DOMAIN d.fragments : client.fragments[f] = FragmentType(s, d, f)
    BY DEF Ready
  <2> HIDE DEF s, d
  <2> QED BY <1>3, <2>1, <2>2
<1>5. ASSUME NEW p \in Generated(s, d) PROVE IntersectedStep(t)[p] \subseteq Generated(s, d)
  <2>1. \A f \in DOMAIN d.fragments : FragmentType(s, d, f) \subseteq Generated(s, d)
    BY GeneratedFacts DEF Ready
  <2> HIDE DEF s, d
  <2> QED BY <1>3, <1>4, <2>1
<1> QED BY <1>1, <1>2, <1>4, <1>5 DEF IsStep, IntersectedStep

(* The alternatives that are intersected have all selections that are collected for an *)
(* object of their type, and no others.                                                *)
LEMMA IntersectedFacts ==
  ASSUME Ready, NEW P, NEW S, NEW t, PlacesOf(P, S, t)
  PROVE  /\ Intersected(P, t) \subseteq Generated(schema, document)
         /\ \A p \in Intersected(P, t) : p[2] = t /\ p[1] \subseteq Collected(schema, document, S, t)
         /\ \A x : x \in Collected(schema, document, S, t) <=>
              \E p \in Intersected(P, t) : x \in InPlace(schema, document, p[1], t)
<1> DEFINE s == schema
           d == document
           G == Generated(s, d)
           C == Collected(s, d, S, t)
           I == Intersected(P, t)
           step == IntersectedStep(t)
<1>1. /\ IsSchema(s) /\ IsDocument(d) /\ Decidable(s, d) /\ Valid(s, d)
      /\ t \in Objects(s) /\ P \subseteq G /\ S = UNION {p[1] : p \in P}
      /\ \A p \in P : p[2] = t
  BY DEF Ready, PlacesOf
<1>2. \A p \in G : p[1] \in SUBSET Nodes(d) /\ p[2] \in Objects(s) /\ p = <<p[1], p[2]>>
  BY <1>1, GeneratedFacts DEF ObjectPlaces
<1>3. S \in SUBSET Nodes(d)
  BY <1>1, <1>2
<1>4. /\ S \subseteq C /\ C \subseteq Nodes(d)
      /\ \A x \in C : d.nodes[x].kind # "field" /\ Applies(s, Condition(d, x), t) => Onward(d, x, {}) \subseteq C
  <2>1. IsDocument(d)
    BY <1>1
  <2> HIDE DEF s, d
  <2> QED BY <2>1, <1>3, CollectedFacts
<1>5. IsStep(step) /\ DOMAIN step = G /\ I = Closure(step, P)
  <2>1. IsStep(step)
    BY IntersectedIsStep
  <2>2. DOMAIN step = G
    BY DEF Ready, IntersectedStep
  <2> QED BY <2>1, <2>2 DEF IntersectedStep, Intersected
<1>6. P \subseteq I /\ I \subseteq G /\ \A p \in I : step[p] \subseteq I
  <2> HIDE DEF step, G, I
  <2> QED BY <1>1, <1>5, ClosureFacts
<1>7. ASSUME NEW x \in Nodes(d), d.nodes[x].kind # "field"
      PROVE  /\ CheckTypeCondition(s, Condition(d, x), t) <=> Applies(s, Condition(d, x), t)
             /\ Applies(s, Condition(d, x), t) <=> t \in PossibleTypes(s, Condition(d, x))
  BY <1>1, <1>7, ConditionsAgree DEF Decidable
<1>8. ASSUME NEW p \in G, NEW x \in SpreadsInPlace(s, d, p[1], t)
      PROVE  /\ x \in InPlace(s, d, p[1], t) /\ x \in Nodes(d) /\ d.nodes[x].kind = "spread"
             /\ d.nodes[x].name \in DOMAIN d.fragments
             /\ CheckTypeCondition(s, Condition(d, x), t)
             /\ Onward(d, x, {}) = d.fragments[d.nodes[x].name].selections
             /\ Condition(d, x) = d.fragments[d.nodes[x].name].on
  <2>1. /\ x \in InPlace(s, d, p[1], t) /\ x \in Nodes(d) /\ d.nodes[x].kind = "spread"
        /\ CheckTypeCondition(s, Condition(d, x), t)
    BY <1>1, <1>2, InPlaceFacts DEF SpreadsInPlace, OfKinds
  <2>2. d.nodes[x].name \in DOMAIN d.fragments
    BY <1>1, <2>1 DEF Valid
  <2> QED BY <2>1, <2>2 DEF Onward, Spread, Condition
<1>9. ASSUME NEW p \in G, p[1] \subseteq C PROVE InPlace(s, d, p[1], t) \subseteq C
  <2>1. ASSUME NEW x \in C, d.nodes[x].kind = "inline", CheckTypeCondition(s, d.nodes[x].on, t)
        PROVE  d.nodes[x].selections \subseteq C
    <3>1. x \in Nodes(d) /\ Condition(d, x) = d.nodes[x].on /\ Onward(d, x, {}) = d.nodes[x].selections
      BY <1>4, <2>1 DEF Condition, Onward
    <3> QED BY <1>4, <1>7, <2>1, <3>1
  <2> HIDE DEF C
  <2> QED BY <1>1, <1>2, <1>9, <2>1, InPlaceIn
<1>10. I \subseteq {p \in G : p[2] = t /\ p[1] \subseteq C}
  <2> DEFINE Z == {p \in G : p[2] = t /\ p[1] \subseteq C}
  <2>1. P \subseteq Z
    BY <1>1, <1>4
  <2>2. ASSUME NEW p \in Z, NEW q \in step[p] PROVE q \in Z
    <3>1. p \in G /\ p[2] = t /\ q \in G
      BY <1>5 DEF IsStep
    <3>2. PICK x \in SpreadsInPlace(s, d, p[1], t) : q[2] = t /\ q \in FragmentType(s, d, d.nodes[x].name)
      BY <3>1, IntersectedIsStep
    <3>3. q[1] = Onward(d, x, {})
      BY <1>8, <3>1, <3>2 DEF FragmentType, SelectionSet
    <3>4. x \in C
      BY <1>8, <1>9, <3>1
    <3>5. Onward(d, x, {}) \subseteq C
      BY <1>4, <1>7, <1>8, <3>1, <3>4
    <3> QED BY <3>1, <3>2, <3>3, <3>5
  <2>3. \A p \in Z \cap DOMAIN step : step[p] \subseteq Z
    BY <2>2
  <2>4. I \subseteq Z
    <3> HIDE DEF Z, step, G, I
    <3> QED BY <1>1, <1>5, <2>1, <2>3, ClosureIn
  <2> QED BY <2>4
<1>11. \A p \in I : p \in G /\ p[2] = t /\ p[1] \subseteq C /\ InPlace(s, d, p[1], t) \subseteq C
  BY <1>9, <1>10
<1> DEFINE Y == {x \in Nodes(d) : \E p \in I : x \in InPlace(s, d, p[1], t)}
<1>12. C \subseteq Y
  <2>1. \A p \in I : p[1] \subseteq Y /\ InPlace(s, d, p[1], t) \subseteq Y
    BY <1>1, <1>2, <1>11, InPlaceFacts
  <2>2. S \subseteq Y
    BY <1>1, <1>6, <2>1
  <2>3. ASSUME NEW x \in Y, d.nodes[x].kind # "field", Applies(s, Condition(d, x), t)
        PROVE  Onward(d, x, {}) \subseteq Y
    <3>1. PICK p \in I : x \in InPlace(s, d, p[1], t)
      OBVIOUS
    <3>2. p \in G /\ p[1] \in SUBSET Nodes(d) /\ x \in Nodes(d) /\ p[2] = t
      BY <1>2, <1>11
    <3>3. CheckTypeCondition(s, Condition(d, x), t) /\ t \in PossibleTypes(s, Condition(d, x))
      BY <1>7, <2>3, <3>2
    <3>4. CASE d.nodes[x].kind = "inline"
      <4>1. Condition(d, x) = d.nodes[x].on /\ Onward(d, x, {}) = d.nodes[x].selections
        BY <3>4 DEF Condition, Onward
      <4>2. d.nodes[x].selections \subseteq InPlace(s, d, p[1], t)
        BY <1>1, <3>1, <3>2, <3>3, <3>4, <4>1, InPlaceFacts
      <4> QED BY <2>1, <4>1, <4>2
    <3>5. CASE d.nodes[x].kind = "spread"
      <4> DEFINE f == d.nodes[x].name
                 q == <<d.fragments[f].selections, t>>
      <4>1. x \in SpreadsInPlace(s, d, p[1], t)
        BY <3>1, <3>3, <3>5 DEF SpreadsInPlace, OfKinds
      <4>2. Onward(d, x, {}) = d.fragments[f].selections /\ Condition(d, x) = d.fragments[f].on
        BY <1>8, <3>2, <4>1
      <4>3. q \in FragmentType(s, d, f)
        BY <3>3, <4>2 DEF FragmentType, SelectionSet
      <4>4. q[2] = t /\ q[1] = Onward(d, x, {})
        BY <4>2
      <4> HIDE DEF q
      <4>5. q \in step[p]
        BY <3>2, <4>1, <4>3, <4>4, IntersectedIsStep
      <4>6. q \in I
        BY <1>6, <4>5
      <4> QED BY <2>1, <4>4, <4>6
    <3> QED BY <1>1, <2>3, <3>2, <3>4, <3>5 DEF IsDocument
  <2> HIDE DEF Y, C
  <2>4. Collected(s, d, S, t) \subseteq Y
    BY <1>1, <1>3, <2>2, <2>3, CollectedIn
  <2> QED BY <2>4 DEF C
<1>13. \A x : x \in C <=> \E p \in I : x \in InPlace(s, d, p[1], t)
  BY <1>11, <1>12
<1> QED BY <1>6, <1>11, <1>13

(* Together the alternatives have the fields that are asked for. *)
LEMMA FieldsTypedAre ==
  ASSUME Ready, NEW P, NEW S, NEW t, PlacesOf(P, S, t)
  PROVE  LET asked == Asked(schema, document, S, t)
         IN  /\ FieldsTyped(P, t) = {Entry(schema, document, t, x) : x \in asked}
             /\ \A x \in asked :
                  /\ document.nodes[x].name \in FieldNames(schema, t)
                  /\ \E p \in Generated(schema, document) :
                       p[2] = t /\ x \in FieldsInPlace(schema, document, p[1], t)
<1> DEFINE s == schema
           d == document
           G == Generated(s, d)
           I == Intersected(P, t)
           asked == Asked(s, d, S, t)
<1>1. \A p \in I : p \in G /\ p[2] = t
  BY IntersectedFacts
<1>2. \A x : x \in asked <=> \E p \in I : x \in FieldsInPlace(s, d, p[1], t)
  <2>1. \A x : x \in Collected(s, d, S, t) <=> \E p \in I : x \in InPlace(s, d, p[1], t)
    BY IntersectedFacts
  <2>2. asked = {x \in OfKinds(d, Collected(s, d, S, t), "field") : ~IsTypeName(d, x)}
    BY AskedIs
  <2> HIDE DEF s, d, I, asked
  <2> QED BY <2>1, <2>2 DEF FieldsInPlace, OfKinds
<1>3. \A p \in I : client.types[p].fields = {Entry(s, d, t, x) : x \in FieldsInPlace(s, d, p[1], t)}
  <2> SUFFICES ASSUME NEW p \in I
               PROVE  client.types[p].fields = {Entry(s, d, t, x) : x \in FieldsInPlace(s, d, p[1], t)}
    OBVIOUS
  <2>1. client.types[p] = ForObject(s, d, p[1], t)
    BY <1>1 DEF Ready
  <2> QED BY <2>1 DEF ForObject
<1>4. FieldsTyped(P, t) = {Entry(s, d, t, x) : x \in asked}
  <2>1. \A e : e \in FieldsTyped(P, t) <=> \E p \in I : e \in client.types[p].fields
    BY DEF FieldsTyped
  <2>2. \A e : e \in FieldsTyped(P, t) <=>
          \E p \in I : \E x \in FieldsInPlace(s, d, p[1], t) : e = Entry(s, d, t, x)
    <3> HIDE DEF s, d, I
    <3> QED BY <1>3, <2>1
  <2>3. \A e : e \in FieldsTyped(P, t) <=> \E x \in asked : e = Entry(s, d, t, x)
    <3> HIDE DEF s, d, I, asked
    <3> QED BY <1>2, <2>2
  <2> HIDE DEF s, d, asked
  <2> QED BY <2>3
<1>5. ASSUME NEW x \in asked
      PROVE  /\ d.nodes[x].name \in FieldNames(s, t)
             /\ \E p \in G : p[2] = t /\ x \in FieldsInPlace(s, d, p[1], t)
  <2>1. PICK p \in I : x \in FieldsInPlace(s, d, p[1], t)
    BY <1>2
  <2>2. p \in G /\ p[2] = t
    BY <1>1
  <2>3. d.nodes[x].name \in FieldNames(s, t)
    BY <2>1, <2>2 DEF Ready, Generatable
  <2> QED BY <2>1, <2>2, <2>3
<1> QED BY <1>4, <1>5

(* They have a __typename if it is asked for. *)
LEMMA TypeNamesAre ==
  ASSUME Ready, NEW P, NEW S, NEW t, PlacesOf(P, S, t)
  PROVE  {client.types[p].typename : p \in Intersected(P, t)} \ {"none"} =
           IF CollectFields(schema, document, S, t) = Asked(schema, document, S, t) THEN {} ELSE {t}
<1> DEFINE s == schema
           d == document
           I == Intersected(P, t)
           C == Collected(s, d, S, t)
<1>1. /\ IsSchema(s) /\ IsDocument(d) /\ Decidable(s, d) /\ Valid(s, d)
      /\ t \in Objects(s) /\ t # "none"
  BY DEF Ready, PlacesOf, IsSchema, Objects, OfKind
<1>2. /\ \A p \in I : p \in Generated(s, d) /\ p[2] = t /\ p[1] \subseteq C
      /\ \A x : x \in C <=> \E p \in I : x \in InPlace(s, d, p[1], t)
  BY IntersectedFacts
<1>3. \A p \in I : p[1] \in SUBSET Nodes(d)
  BY <1>1, <1>2, GeneratedFacts DEF ObjectPlaces
<1>4. ASSUME NEW p \in I
      PROVE  /\ Collected(s, d, p[1], t) \subseteq C
             /\ InPlace(s, d, p[1], t) \subseteq Collected(s, d, p[1], t)
  <2>1. S \in SUBSET Nodes(d)
    <3>1. \A q \in P : q[1] \subseteq Nodes(d)
      BY <1>1, GeneratedFacts DEF PlacesOf, ObjectPlaces
    <3> QED BY <3>1 DEF PlacesOf
  <2>2. p[1] \in SUBSET Nodes(d) /\ p[1] \subseteq C
    BY <1>2, <1>3
  <2>3. /\ C \subseteq Nodes(d)
        /\ \A x \in C : d.nodes[x].kind # "field" /\ Applies(s, Condition(d, x), t) => Onward(d, x, {}) \subseteq C
    <3>1. IsDocument(d)
      BY <1>1
    <3> HIDE DEF s, d
    <3> QED BY <2>1, <3>1, CollectedFacts
  <2>4. Collected(s, d, p[1], t) \subseteq C
    <3> HIDE DEF C
    <3> QED BY <1>1, <2>2, <2>3, CollectedIn
  <2> DEFINE B == Collected(s, d, p[1], t)
  <2>5. /\ p[1] \subseteq B /\ B \subseteq Nodes(d)
        /\ \A x \in B : d.nodes[x].kind # "field" /\ Applies(s, Condition(d, x), t) => Onward(d, x, {}) \subseteq B
    <3>1. IsDocument(d)
      BY <1>1
    <3> HIDE DEF s, d
    <3> QED BY <2>2, <3>1, CollectedFacts
  <2>6. ASSUME NEW x \in B, d.nodes[x].kind = "inline", CheckTypeCondition(s, d.nodes[x].on, t)
        PROVE  d.nodes[x].selections \subseteq B
    <3>1. x \in Nodes(d) /\ Condition(d, x) = d.nodes[x].on /\ Onward(d, x, {}) = d.nodes[x].selections
      BY <2>5, <2>6 DEF Condition, Onward
    <3>2. Applies(s, Condition(d, x), t)
      BY <1>1, <2>6, <3>1, ConditionsAgree DEF Decidable
    <3> QED BY <2>5, <2>6, <3>1, <3>2
  <2>7. InPlace(s, d, p[1], t) \subseteq B
    <3> HIDE DEF B
    <3> QED BY <1>1, <2>2, <2>5, <2>6, InPlaceIn
  <2> QED BY <2>4, <2>7
<1>5. \A p \in I : client.types[p].typename = IF HasTypeNameField(s, d, p[1], t) THEN t ELSE "none"
  <2> SUFFICES ASSUME NEW p \in I
               PROVE  client.types[p].typename = IF HasTypeNameField(s, d, p[1], t) THEN t ELSE "none"
    OBVIOUS
  <2>1. client.types[p] = ForObject(s, d, p[1], t)
    BY <1>2 DEF Ready
  <2> QED BY <2>1 DEF ForObject
<1>6. \A p \in I : HasTypeNameField(s, d, p[1], t) <=> \E x \in Collected(s, d, p[1], t) : IsTypeName(d, x)
  BY <1>1, TypeNameIsCollected
<1>7. (\E p \in I : HasTypeNameField(s, d, p[1], t)) <=> \E x \in C : IsTypeName(d, x)
  <2> HIDE DEF s, d, I, C
  <2> QED BY <1>2, <1>4, <1>6
<1>8. CollectFields(s, d, S, t) = Asked(s, d, S, t) <=> ~\E x \in C : IsTypeName(d, x)
  BY AskedIs
<1> HIDE DEF s, d, I, C
<1>9. {client.types[p].typename : p \in I} \ {"none"} =
        IF \E p \in I : HasTypeNameField(s, d, p[1], t) THEN {t} ELSE {}
  BY <1>1, <1>5
<1> QED BY <1>7, <1>8, <1>9 DEF s, d, I

\* What is true of all triples: the places are those of the selections and the type, and
\* there may be such an object.
Matches(w) == PlacesOf(w[1], w[2], w[3]) /\ <<w[2], w[3]>> \in AnswerPlaces(schema, document)

(* Then the types fit. *)
LEMMA MatchesFit ==
  ASSUME Ready, NEW w, Matches(w)
  PROVE  FitsHere(w)
<1> DEFINE s == schema
           d == document
           S == w[2]
           t == w[3]
           typed == FieldsTyped(w[1], t)
           asked == Asked(s, d, S, t)
<1>1. PlacesOf(w[1], S, t) /\ <<S, t>> \in AnswerPlaces(s, d) /\ t \in Objects(s)
  BY DEF Matches, PlacesOf
<1>2. {client.types[p].typename : p \in Intersected(w[1], t)} \ {"none"} =
        IF CollectFields(s, d, S, t) = asked THEN {} ELSE {t}
  <2> HIDE DEF S, t
  <2> QED BY <1>1, TypeNamesAre
<1>3. typed = {Entry(s, d, t, x) : x \in asked} /\ \A x \in asked : d.nodes[x].name \in FieldNames(s, t)
  <2> HIDE DEF S, t
  <2> QED BY <1>1, FieldsTypedAre
<1>4. {f.key : f \in typed} = {d.nodes[x].key : x \in asked}
  <2>1. \A x : Entry(s, d, t, x).key = d.nodes[x].key
    BY DEF Entry
  <2> HIDE DEF s, d, S, t, typed, asked
  <2> QED BY <1>3, <2>1
<1>5. ASSUME NEW f \in typed, NEW x \in WithKey(d, asked, f.key)
      PROVE  LET type == FieldOf(s, d, t, x)
             IN  /\ f.named = type.named
                 /\ f.required <=> IsNonNull(type)
                 /\ f.maybes = Nullable(type)
  <2>1. PICK y \in asked : f = Entry(s, d, t, y)
    BY <1>3
  <2>2. /\ f.key = d.nodes[y].key /\ f.required = IsNonNull(FieldOf(s, d, t, y))
        /\ f.maybes = MaybeLevels(FieldOf(s, d, t, y)) /\ f.named = FieldOf(s, d, t, y).named
    BY <2>1 DEF Entry
  <2>3. x \in asked /\ d.nodes[x].key = d.nodes[y].key
    BY <2>2 DEF WithKey
  <2>4. d.nodes[x].name = d.nodes[y].name
    <3> HIDE DEF S, t
    <3> QED BY <1>1, <2>3, OneNamePerKey DEF Ready
  <2>5. FieldOf(s, d, t, x) = FieldOf(s, d, t, y)
    BY <2>4 DEF FieldOf
  <2>6. FieldOf(s, d, t, x).wrappers \in Seq({"list", "nonNull"})
    BY <1>1, <1>3, <2>3, FieldTypeKnown DEF FieldOf, Ready
  <2> HIDE DEF asked, typed
  <2> QED BY <2>2, <2>5, <2>6, LevelsAreNullable
<1> QED BY <1>2, <1>4, <1>5 DEF FitsHere

Triples == (SUBSET DOMAIN client.types) \X (SUBSET Nodes(document)) \X Objects(schema)

\* The alternatives below a field, for objects of type u
PlacesBelow(of, u) == {p \in DOMAIN client.types : p[1] \in of /\ p[2] = u}

\* The selections of a field, in all alternatives at the places
SelectionsOf(w, x) ==
  {f.of : f \in {g \in FieldsTyped(w[1], w[3]) : g.key = document.nodes[x].key}}

TripleBelow(w, x, u) ==
  <<PlacesBelow(SelectionsOf(w, x), u),
    MergedSelections(document, Asked(schema, document, w[2], w[3]), document.nodes[x].key), u>>

(* Below a triple there are triples, one for each field with selections and each object. *)
LEMMA ObjectsBelowAre ==
  ASSUME NEW w, NEW v
  PROVE  v \in ObjectsBelow(w) <=>
           \E x \in WithSelections(schema, document, Asked(schema, document, w[2], w[3]), w[3]) :
             \E u \in TypesBelow(schema, document, x, w[3]) : v = TripleBelow(w, x, u)
BY DEF ObjectsBelow, PlacesBelow, SelectionsOf, TripleBelow

(* There are finitely many triples. *)
LEMMA ObjectsBelowIsStep ==
  ASSUME Ready
  PROVE  IsStep([w \in Triples |-> ObjectsBelow(w)])
<1> DEFINE s == schema
           d == document
           step == [w \in Triples |-> ObjectsBelow(w)]
<1>1. IsSchema(s) /\ IsDocument(d) /\ DOMAIN client.types \subseteq ObjectPlaces(s, d)
  BY GeneratedFacts DEF Ready
<1>2. IsFiniteSet(Triples)
  <2>1. IsFiniteSet(SUBSET DOMAIN client.types)
    BY <1>1, FinitelyManyPlaces, FS_Subset, FS_SUBSET
  <2> QED BY <1>1, <2>1, FinitelyManyPlaces, FiniteTriples DEF Triples
<1>3. ASSUME NEW w \in Triples, NEW v \in ObjectsBelow(w) PROVE v \in Triples
  <2> DEFINE asked == Asked(s, d, w[2], w[3])
             key(x) == d.nodes[x].key
  <2>1. w[2] \in SUBSET Nodes(d) /\ w[3] \in Objects(s)
    BY DEF Triples
  <2>2. PICK x \in WithSelections(s, d, asked, w[3]) : \E u \in TypesBelow(s, d, x, w[3]) : v = TripleBelow(w, x, u)
    BY ObjectsBelowAre
  <2>3. TypesBelow(s, d, x, w[3]) \subseteq Objects(s)
    BY <1>1, <2>1, BelowIsKnown
  <2>4. MergedSelections(d, asked, key(x)) \subseteq Nodes(d)
    BY <1>1, <2>1, MergedAreNodes
  <2> QED BY <2>2, <2>3, <2>4 DEF Triples, TripleBelow, PlacesBelow
<1>4. \A w \in Triples : step[w] \subseteq Triples
  BY <1>3
<1> QED BY <1>2, <1>4 DEF IsStep

(* What is true of a triple is true of those below. *)
LEMMA BelowMatches ==
  ASSUME Ready, NEW w, Matches(w), NEW v \in ObjectsBelow(w)
  PROVE  Matches(v)
<1> DEFINE s == schema
           d == document
           G == Generated(s, d)
           P == w[1]
           S == w[2]
           t == w[3]
           asked == Asked(s, d, S, t)
           key(x) == d.nodes[x].key
           of(x) == SelectionsOf(w, x)
<1>1. /\ IsSchema(s) /\ IsDocument(d) /\ Valid(s, d) /\ DOMAIN client.types = G
      /\ PlacesOf(P, S, t) /\ <<S, t>> \in AnswerPlaces(s, d) /\ t \in Objects(s)
  BY DEF Matches, PlacesOf, Ready
<1>2. PICK x \in WithSelections(s, d, asked, t) : \E u \in TypesBelow(s, d, x, t) : v = TripleBelow(w, x, u)
  BY ObjectsBelowAre
<1>3. PICK u \in TypesBelow(s, d, x, t) :
        v = <<PlacesBelow(of(x), u), MergedSelections(d, asked, key(x)), u>>
  BY <1>2 DEF TripleBelow
<1>4. x \in asked /\ u \in Objects(s)
  BY <1>1, BelowIsKnown DEF WithSelections
<1>5. /\ FieldsTyped(P, t) = {Entry(s, d, t, y) : y \in asked}
      /\ \A y \in asked : \E p \in G : p[2] = t /\ y \in FieldsInPlace(s, d, p[1], t)
  <2> HIDE DEF P, S, t
  <2> QED BY <1>1, FieldsTypedAre
<1>6. \A a : a \in of(x) <=> \E y \in WithKey(d, asked, key(x)) : a = d.nodes[y].selections
  <2>1. of(x) = {f.of : f \in {g \in FieldsTyped(P, t) : g.key = key(x)}}
    BY DEF SelectionsOf
  <2>2. \A y : Entry(s, d, t, y).key = key(y) /\ Entry(s, d, t, y).of = d.nodes[y].selections
    BY DEF Entry
  <2> HIDE DEF s, P, S, t, asked, of
  <2>3. \A a : a \in of(x) <=> \E y \in asked : key(y) = key(x) /\ a = d.nodes[y].selections
    BY <1>5, <2>1, <2>2
  <2> QED BY <2>3 DEF WithKey
<1>7. ASSUME NEW y \in WithKey(d, asked, key(x)) PROVE <<d.nodes[y].selections, u>> \in G
  <2>1. y \in asked /\ d.nodes[y].key = d.nodes[x].key
    BY DEF WithKey
  <2>2. d.nodes[y].name = d.nodes[x].name
    <3> HIDE DEF S, t
    <3> QED BY <1>1, <1>4, <2>1, OneNamePerKey
  <2>3. PICK p \in G : p[2] = t /\ y \in FieldsInPlace(s, d, p[1], t)
    BY <1>5, <2>1
  <2> DEFINE fields == FieldsInPlace(s, d, p[1], t)
  <2>4. y \in WithSelections(s, d, fields, t)
    BY <2>2, <2>3 DEF WithSelections
  <2>5. <<d.nodes[y].selections, u>> \in SelectionSet(s, d.nodes[y].selections, FieldOf(s, d, t, y).named)
    BY <1>3, <2>2 DEF SelectionSet, TypesBelow, FieldOf
  <2>6. <<d.nodes[y].selections, u>> \in FieldTypes(s, d, fields, t)
    BY <2>4, <2>5 DEF FieldTypes
  <2>7. FieldTypes(s, d, fields, t) \subseteq G
    <3>1. \A q \in G : FieldTypes(s, d, FieldsInPlace(s, d, q[1], q[2]), q[2]) \subseteq G
      BY <1>1, GeneratedFacts
    <3> QED BY <2>3, <3>1
  <2> QED BY <2>6, <2>7
<1>8. PlacesOf(PlacesBelow(of(x), u), MergedSelections(d, asked, key(x)), u)
  <2> DEFINE Q == PlacesBelow(of(x), u)
  <2>1. Q \subseteq G /\ \A p \in Q : p[2] = u /\ p[1] \in of(x)
    BY <1>1 DEF PlacesBelow
  <2>2. ASSUME NEW a
        PROVE  a \in MergedSelections(d, asked, key(x)) <=> \E p \in Q : a \in p[1]
    <3>1. ASSUME a \in MergedSelections(d, asked, key(x)) PROVE \E p \in Q : a \in p[1]
      <4>1. PICK y \in WithKey(d, asked, key(x)) : a \in d.nodes[y].selections
        BY <3>1 DEF MergedSelections
      <4> DEFINE p == <<d.nodes[y].selections, u>>
      <4>2. p \in G /\ p[1] = d.nodes[y].selections /\ p[2] = u
        BY <1>7
      <4>3. p[1] \in of(x)
        <5> HIDE DEF p, of
        <5> QED BY <1>6, <4>2
      <4> HIDE DEF p
      <4>4. p \in Q
        BY <1>1, <4>2, <4>3 DEF PlacesBelow
      <4> QED BY <4>1, <4>2, <4>4
    <3>2. ASSUME NEW p \in Q, a \in p[1] PROVE a \in MergedSelections(d, asked, key(x))
      <4>1. PICK y \in WithKey(d, asked, key(x)) : p[1] = d.nodes[y].selections
        <5> HIDE DEF of
        <5> QED BY <1>6, <2>1
      <4> QED BY <3>2, <4>1 DEF MergedSelections
    <3> QED BY <3>1, <3>2
  <2> HIDE DEF Q
  <2>3. MergedSelections(d, asked, key(x)) = UNION {p[1] : p \in Q}
    BY <2>2
  <2> QED BY <1>4, <2>1, <2>3 DEF PlacesOf, Q
<1>9. <<MergedSelections(d, asked, key(x)), u>> \in AnswerPlaces(s, d)
  <2> DEFINE p == <<S, t>>
  <2>1. p \in AnswerPlaces(s, d) /\ p[1] = S /\ p[2] = t
    BY <1>1
  <2>2. \A y \in WithSelections(s, d, Asked(s, d, p[1], p[2]), p[2]) : \A n \in TypesBelow(s, d, y, p[2]) :
          <<MergedSelections(d, Asked(s, d, p[1], p[2]), d.nodes[y].key), n>> \in AnswerPlaces(s, d)
    <3> HIDE DEF p
    <3> QED BY <1>1, <2>1, AnswerPlacesFacts
  <2> QED BY <1>3, <2>1, <2>2
<1>10. v[1] = PlacesBelow(of(x), u) /\ v[2] = MergedSelections(d, asked, key(x)) /\ v[3] = u
  BY <1>3
<1> QED BY <1>8, <1>9, <1>10 DEF Matches

(* All triples match. *)
LEMMA AnswersMatch ==
  ASSUME Ready, NEW o \in DOMAIN document.operations, NEW w \in Answers(o)
  PROVE  Matches(w)
<1> DEFINE s == schema
           d == document
           step == [v \in Triples |-> ObjectsBelow(v)]
           first == <<client.data[o], d.operations[o].selections, Root(s, d, o)>>
           Z == {v \in Triples : Matches(v)}
<1>1. IsStep(step) /\ DOMAIN step = Triples
  BY ObjectsBelowIsStep
<1>2. Answers(o) = Closure(step, {first})
  BY DEF Answers, Triples
<1>3. first \in Z
  <2>1. /\ client.data[o] = {<<d.operations[o].selections, Root(s, d, o)>>}
        /\ client.data[o] \subseteq Generated(s, d) /\ DOMAIN client.types = Generated(s, d)
    BY GeneratedFacts DEF Ready
  <2>2. d.operations[o].selections \subseteq Nodes(d) /\ Root(s, d, o) \in Objects(s)
    BY DEF Ready, IsDocument, Valid
  <2>3. <<d.operations[o].selections, Root(s, d, o)>> \in AnswerPlaces(s, d)
    BY AnswerPlacesFacts DEF Ready
  <2>4. PlacesOf(client.data[o], d.operations[o].selections, Root(s, d, o))
    BY <2>1, <2>2 DEF PlacesOf
  <2> QED BY <2>1, <2>2, <2>3, <2>4 DEF Triples, Matches
<1>4. \A v \in Z \cap DOMAIN step : step[v] \subseteq Z
  <2> SUFFICES ASSUME NEW v \in Z, NEW u \in ObjectsBelow(v) PROVE u \in Z
    BY <1>1
  <2>1. u \in Triples
    BY <1>1 DEF IsStep
  <2> QED BY <2>1, BelowMatches
<1>5. Closure(step, {first}) \subseteq Z
  <2>1. {first} \in SUBSET DOMAIN step /\ {first} \subseteq Z
    BY <1>1, <1>3
  <2> HIDE DEF step, first, Z
  <2> QED BY <1>1, <1>4, <2>1, ClosureIn
<1> QED BY <1>2, <1>5

(* The generated type of an operation describes its answers exactly, for every schema and   *)
(* every document that the generator supports, however its fields are spread over fragments. *)
THEOREM TypesFit == Spec => []TypesFitAnswers
<1>1. IInv => TypesFitAnswers
  BY ClientIsReady, AnswersMatch, MatchesFit DEF TypesFitAnswers
<1> QED BY <1>1, Invariance, PTL

==================================================================================
