--------------------------- MODULE ExtractProofs ----------------------------
(***************************************************************************)
(* What Extract promises holds for every graph, every set of requested     *)
(* vertices and every order in which vertices and edges are walked.        *)
(***************************************************************************)
EXTENDS Extract, SequenceTheorems, TLAPS

-----------------------------------------------------------------------------
(* Reachability.                                                           *)

LEMMA ReachContains ==
  ASSUME NEW V, NEW E, NEW S \in SUBSET V
  PROVE  S \subseteq Reach(V, E, S) /\ Reach(V, E, S) \subseteq V
BY DEF Reach

LEMMA ReachStep ==
  ASSUME NEW V, NEW E, NEW S, NEW v \in Reach(V, E, S), NEW w \in V, <<v, w>> \in E
  PROVE  w \in Reach(V, E, S)
<1> SUFFICES ASSUME NEW C \in SUBSET V, S \subseteq C, ClosedUnder(E, C)
             PROVE  w \in C
  BY DEF Reach
<1>1. v \in C BY DEF Reach
<1> QED BY <1>1, \A e \in E : e[1] \in C => e[2] \in C, <<v, w>>[1] = v, <<v, w>>[2] = w
        DEF ClosedUnder

LEMMA ReachLeast ==
  ASSUME NEW V, NEW E, NEW S, NEW C \in SUBSET V, S \subseteq C, ClosedUnder(E, C)
  PROVE  Reach(V, E, S) \subseteq C
BY DEF Reach

LEMMA ReachTransitive ==
  ASSUME NEW V, NEW E, NEW S, NEW v \in Reach(V, E, S), NEW w \in Reach(V, E, {v})
  PROVE  w \in Reach(V, E, S)
<1> SUFFICES ASSUME NEW C \in SUBSET V, S \subseteq C, ClosedUnder(E, C)
             PROVE  w \in C
  BY DEF Reach
<1>1. {v} \subseteq C BY DEF Reach
<1> QED BY <1>1 DEF Reach

LEMMA ReachMoreEdges ==
  ASSUME NEW V, NEW E, NEW F, E \subseteq F, NEW S
  PROVE  Reach(V, E, S) \subseteq Reach(V, F, S)
<1>1. \A C : ClosedUnder(F, C) => ClosedUnder(E, C) BY DEF ClosedUnder
<1> QED BY <1>1 DEF Reach

LEMMA EdgesJoinVertices ==
  ASSUME TypeOK
  PROVE  /\ SearchEdges \subseteq g.verts \X g.verts
         /\ TopoEdges \subseteq g.verts \X g.verts
         /\ SortEdges \subseteq TopoEdges
         /\ CycleEdges \subseteq TopoEdges
BY DEF TypeOK, IsGraph, SearchEdges, TopoEdges, SortEdges, CycleEdges

-----------------------------------------------------------------------------
(* The breadth-first searches.  Reached is closed under the edges but for   *)
(* what leaves the frontier, and never more than what is needed.           *)

SearchInv ==
  /\ reached \subseteq Reach(g.verts, SearchEdges, targets)
  /\ targets \ pending \subseteq reached
  /\ \A e \in SearchEdges : e[1] \in reached \ frontier => e[2] \in reached
  /\ targets = {} => frontier = {}
  /\ phase # "search" => pending = {} /\ frontier = {}

\* Every step but those of the search leaves it alone.
LEMMA SearchDoneInv ==
  ASSUME SearchInv, UNCHANGED inputs, UNCHANGED searchVars, phase # "search", phase' # "search"
  PROVE  SearchInv'
<1>1. SearchEdges' = SearchEdges BY DEF SearchEdges, inputs
<1> QED BY <1>1 DEF SearchInv, inputs, searchVars

LEMMA SearchInit == Init => SearchInv
BY DEF Init, SearchInv

LEMMA SearchNext == TypeOK /\ SearchInv /\ [Next]_vars => SearchInv'
<1> SUFFICES ASSUME TypeOK, SearchInv, [Next]_vars PROVE SearchInv'
  OBVIOUS
<1>e. SearchEdges' = SearchEdges /\ UNCHANGED inputs
  BY DEF SearchEdges, inputs, Next, vars, Search, Sort, NothingFound, StartSearch, Visit,
         SearchDone, StartVertex, TreeEdge, CycleFound, NotADag, FinishVertex, SortDone,
         PrintNext, PrintDone
<1>t. SearchEdges \subseteq g.verts \X g.verts BY EdgesJoinVertices
<1>1. CASE NothingFound
  BY <1>1, <1>e DEF NothingFound, SearchInv, searchVars, inputs, TypeOK
<1>2. ASSUME NEW v \in g.verts, StartSearch(v) PROVE SearchInv'
  <2>1. v \in Reach(g.verts, SearchEdges, targets)
    BY <1>2, ReachContains DEF StartSearch, TypeOK
  <2> QED BY <1>2, <1>e, <2>1 DEF StartSearch, SearchInv, TypeOK, inputs
<1>3. ASSUME NEW u \in g.verts, Visit(u) PROVE SearchInv'
  <2> DEFINE found == {w \in g.verts : <<u, w>> \in SearchEdges} \ seen
  <2>1. /\ u \in frontier /\ u \in reached /\ phase = "search" /\ phase' = "search"
        /\ pending' = pending /\ seen' = seen \cup found
        /\ frontier' = (frontier \ {u}) \cup found /\ reached' = reached \cup found
    BY <1>3 DEF Visit, TypeOK
  <2>2. found \subseteq Reach(g.verts, SearchEdges, targets)
    BY <2>1, ReachStep DEF SearchInv
  <2>3. ASSUME NEW e \in SearchEdges, e[1] \in reached' \ frontier' PROVE e[2] \in reached'
    <3>1. e = <<e[1], e[2]>> /\ e[2] \in g.verts BY <1>t
    <3>2. CASE e[1] = u
      BY <2>1, <3>1, <3>2 DEF TypeOK
    <3>3. CASE e[1] # u
      BY <2>1, <2>3, <3>3 DEF SearchInv
    <3> QED BY <3>2, <3>3
  <2>4. targets = {} => FALSE
    BY <2>1 DEF SearchInv
  <2> HIDE DEF found
  <2>5. reached' \subseteq Reach(g'.verts, SearchEdges', targets')
    BY <1>e, <2>1, <2>2 DEF SearchInv, inputs
  <2> QED BY <1>e, <2>1, <2>3, <2>4, <2>5 DEF SearchInv, inputs
<1>4. CASE SearchDone
  BY <1>4, <1>e DEF SearchDone, SearchInv, searchVars, inputs
<1>5. CASE Sort
  BY <1>5, <1>e, SearchDoneInv
     DEF Sort, StartVertex, TreeEdge, CycleFound, NotADag, FinishVertex, SortDone, Sorting
<1>6. CASE PrintNext \/ PrintDone
  BY <1>6, <1>e, SearchDoneInv DEF PrintNext, PrintDone
<1>7. CASE UNCHANGED vars
  BY <1>7, <1>e DEF vars, SearchInv, searchVars, inputs
<1> QED BY <1>1, <1>2, <1>3, <1>4, <1>5, <1>6, <1>7 DEF Next, Search

LEMMA SearchIsExact == TypeOK /\ SearchInv => ReachedExactly
<1> SUFFICES ASSUME TypeOK, SearchInv, phase # "search"
             PROVE  reached = Reach(g.verts, SearchEdges, targets)
  BY DEF ReachedExactly
<1>1. CASE targets = {}
  <2>1. Reach(g.verts, SearchEdges, targets) = {}
    BY <1>1, ReachLeast DEF ClosedUnder
  <2> QED BY <2>1 DEF SearchInv
<1>2. CASE targets # {}
  <2>1. targets \subseteq reached BY <1>2 DEF SearchInv
  <2>2. ClosedUnder(SearchEdges, reached) BY DEF SearchInv, ClosedUnder
  <2>3. reached \in SUBSET g.verts BY DEF TypeOK
  <2> QED BY <2>1, <2>2, <2>3, ReachLeast DEF SearchInv
<1> QED BY <1>1, <1>2

-----------------------------------------------------------------------------
(* Types.                                                                  *)

LEMMA PushPop ==
  ASSUME NEW S, NEW s \in Seq(S), NEW v \in S
  PROVE  /\ <<v>> \in Seq(S)
         /\ Append(s, v) \in Seq(S)
         /\ s # <<>> => SubSeq(s, 1, Len(s) - 1) \in Seq(S)
OBVIOUS

LEMMA LinesAreTyped ==
  ASSUME TypeOK, NEW v \in g.verts
  PROVE  Lines(v) \in Seq(({"code"} \X g.verts) \cup ({"header"} \X Files))
<1>1. v.f \in SystemFiles /\ TopLevel[v.f] # None => TopLevel[v.f] \in Files
  BY ExtractAssumption
<1> QED BY <1>1 DEF Lines, AsHeader

LEMMA InitTypes == Init => TypeOK
<1> SUFFICES ASSUME Init PROVE TypeOK
  OBVIOUS
<1>1. IsGraph(g) BY ExtractAssumption DEF Init
<1> QED BY <1>1 DEF Init, TypeOK, TopoEdges

LEMMA NextTypes == TypeOK /\ [Next]_vars => TypeOK'
<1> SUFFICES ASSUME TypeOK, [Next]_vars PROVE TypeOK'
  OBVIOUS
<1>e. UNCHANGED inputs /\ TopoEdges' = TopoEdges
  BY DEF TopoEdges, inputs, Next, vars, Search, Sort, NothingFound, StartSearch, Visit,
         SearchDone, StartVertex, TreeEdge, CycleFound, NotADag, FinishVertex, SortDone,
         PrintNext, PrintDone
<1>i. IsGraph(g)' /\ opts' \in Options /\ targets' \subseteq g'.verts
  BY <1>e DEF TypeOK, inputs
<1>s. ASSUME UNCHANGED sortVars PROVE excluded' \subseteq TopoEdges' /\ stack' \in Seq(g'.verts) /\ sorted' \in Seq(g'.verts)
  BY <1>e, <1>s DEF TypeOK, inputs, sortVars
<1>p. ASSUME UNCHANGED printVars
      PROVE  rest' \in Seq(g'.verts) /\ printed' \in Seq(({"code"} \X g'.verts) \cup ({"header"} \X Files))
  BY <1>e, <1>p DEF TypeOK, inputs, printVars
<1>h. ASSUME UNCHANGED searchVars
      PROVE  pending' \subseteq targets' /\ frontier' \subseteq seen' /\ seen' \subseteq reached' /\ reached' \subseteq g'.verts
  BY <1>e, <1>h DEF TypeOK, inputs, searchVars
<1>1. CASE NothingFound
  BY <1>1, <1>e, <1>i, <1>s, <1>p, <1>h DEF NothingFound, TypeOK
<1>2. ASSUME NEW v \in g.verts, StartSearch(v) PROVE TypeOK'
  BY <1>2, <1>e, <1>i, <1>s, <1>p DEF StartSearch, TypeOK, inputs
<1>3. ASSUME NEW v \in g.verts, Visit(v) PROVE TypeOK'
  BY <1>3, <1>e, <1>i, <1>s, <1>p DEF Visit, TypeOK, inputs
<1>4. CASE SearchDone
  BY <1>4, <1>e, <1>i, <1>s, <1>p, <1>h DEF SearchDone, TypeOK
<1>5. ASSUME NEW v \in g.verts, StartVertex(v) \/ TreeEdge(v) PROVE TypeOK'
  <2>1. stack' \in Seq(g'.verts)
    <3>1. stack \in Seq(g.verts) BY DEF TypeOK
    <3>2. <<v>> \in Seq(g.verts) /\ Append(stack, v) \in Seq(g.verts) BY <3>1, PushPop
    <3> QED BY <1>5, <1>e, <3>2 DEF StartVertex, TreeEdge, inputs
  <2> QED BY <1>5, <1>e, <1>i, <1>p, <1>h, <2>1 DEF StartVertex, TreeEdge, TypeOK, inputs
<1>6. CASE CycleFound
  <2>1. CycleEdges \subseteq TopoEdges BY DEF CycleEdges
  <2> QED BY <1>6, <1>e, <1>i, <1>p, <1>h, <2>1 DEF CycleFound, TypeOK
<1>7. CASE NotADag
  BY <1>7, <1>e, <1>i, <1>s, <1>p, <1>h DEF NotADag, TypeOK
<1>8. CASE FinishVertex
  <2>1. stack \in Seq(g.verts) /\ stack # <<>> BY <1>8 DEF FinishVertex, TypeOK
  <2>2. Len(stack) \in Nat /\ Len(stack) > 0 /\ Top \in g.verts
    BY <2>1 DEF Top
  <2>3. SubSeq(stack, 1, Len(stack) - 1) \in Seq(g.verts)
    BY <2>1, <2>2, PushPop
  <2> QED BY <1>8, <1>e, <1>i, <1>p, <1>h, <2>2, <2>3 DEF FinishVertex, TypeOK, inputs
<1>9. CASE SortDone
  BY <1>9, <1>e, <1>i, <1>s, <1>h DEF SortDone, TypeOK, inputs
<1>10. CASE PrintNext
  <2>1. rest \in Seq(g.verts) /\ rest # <<>> BY <1>10 DEF PrintNext, TypeOK
  <2>2. Head(rest) \in g.verts /\ Tail(rest) \in Seq(g.verts) BY <2>1, HeadTailProperties
  <2>3. printed' \in Seq(({"code"} \X g.verts) \cup ({"header"} \X Files))
    BY <1>10, <2>2, LinesAreTyped, ConcatProperties DEF PrintNext, TypeOK
  <2> QED BY <1>10, <1>e, <1>i, <1>s, <1>h, <2>2, <2>3 DEF PrintNext, TypeOK, inputs
<1>11. CASE PrintDone
  BY <1>11, <1>e, <1>i, <1>s, <1>p, <1>h DEF PrintDone, TypeOK
<1>12. CASE UNCHANGED vars
  BY <1>12, <1>e, <1>i, <1>s, <1>p, <1>h DEF vars, TypeOK
<1> QED BY <1>1, <1>2, <1>3, <1>4, <1>5, <1>6, <1>7, <1>8, <1>9, <1>10, <1>11, <1>12
        DEF Next, Search, Sort

-----------------------------------------------------------------------------
(* The depth-first sorts.  The stack is a path of the graph, and what is    *)
(* finished is finished with all it depends on.                            *)

Distinct(s) == \A i, j \in DOMAIN s : s[i] = s[j] => i = j

StackIsPath ==
  \A i, j \in DOMAIN stack : i <= j => stack[j] \in Reach(g.verts, SortEdges, {stack[i]})

SortInv ==
  /\ phase \in {"search", "sort"} => excluded = {}
  /\ phase \in {"resort", "terminated"} => excluded = CycleEdges
  /\ excluded \subseteq CycleEdges
  /\ phase = "search" => stack = <<>> /\ sorted = <<>>
  /\ Stacked \cap Finished = {}
  /\ Distinct(sorted) /\ Distinct(stack)
  /\ StackIsPath
  /\ DependenciesFirst /\ CycleIsReal /\ OnlySelfLoopsAreFatal
  /\ phase \in {"print", "done"} /\ targets # {} => g.verts \subseteq Finished

LEMMA SortInit == Init => SortInv
BY DEF Init, SortInv, StackIsPath, Stacked, Finished, Distinct, DependenciesFirst, CycleIsReal,
       OnlySelfLoopsAreFatal

\* A back edge closes a cycle.
LEMMA BackEdgeIsCycle ==
  ASSUME TypeOK, SortInv, BackEdge
  PROVE  \E e \in SortEdges : e[1] \in Reach(g.verts, SortEdges, {e[2]})
<1>1. PICK w \in Stacked : <<Top, w>> \in SortEdges BY DEF BackEdge
<1>2. PICK i \in DOMAIN stack : w = stack[i] BY DEF Stacked
<1>3. /\ stack \in Seq(g.verts) /\ Len(stack) \in DOMAIN stack /\ i <= Len(stack)
  BY <1>2 DEF TypeOK
<1>4. Top \in Reach(g.verts, SortEdges, {w}) BY <1>2, <1>3 DEF SortInv, StackIsPath, Top
<1> WITNESS <<Top, w>> \in SortEdges
<1> QED BY <1>1, <1>4

\* Once the edges of the cycles are excluded, only a loop closes one.
LEMMA ExcludedLeavesLoops ==
  ASSUME TypeOK, excluded = CycleEdges,
         NEW e \in SortEdges, e[1] \in Reach(g.verts, SortEdges, {e[2]})
  PROVE  \E v \in g.verts : <<v, v>> \in TopoEdges \ CycleEdges
<1> DEFINE a == e[1]  b == e[2]
<1>1. e \in TopoEdges /\ e \notin CycleEdges BY DEF SortEdges
<1>2. a \in g.verts /\ b \in g.verts /\ e = <<a, b>> BY <1>1, EdgesJoinVertices
<1>3. SortEdges \subseteq TopoEdges BY DEF SortEdges
<1>4. a \in Reach(g.verts, TopoEdges, {b}) BY <1>3, ReachMoreEdges
<1>5. a \in Reach(g.verts, TopoEdges, {a}) BY <1>2, ReachContains
<1>6. b \in Reach(g.verts, TopoEdges, {a}) BY <1>1, <1>2, <1>5, ReachStep
<1> HIDE DEF a, b
<1>7. b \in Component(g.verts, TopoEdges, a) BY <1>2, <1>4, <1>6 DEF Component
<1>8. Component(g.verts, TopoEdges, a) = {a} BY <1>1, <1>7 DEF CycleEdges, a, b
<1> QED BY <1>1, <1>2, <1>7, <1>8

\* The order is kept by what leaves g alone.
LEMMA SameGraph ==
  ASSUME UNCHANGED inputs
  PROVE  TopoEdges' = TopoEdges /\ CycleEdges' = CycleEdges /\ g'.verts = g.verts
BY DEF inputs, TopoEdges, CycleEdges

\* A step that leaves the sort alone, out of the sort's phases or into another one.
LEMMA SortSame ==
  ASSUME SortInv, UNCHANGED inputs, UNCHANGED sortVars,
         phase' = phase \/ (phase = "search" /\ phase' = "sort")
           \/ (phase = "print" /\ phase' = "done")
           \/ (targets = {} /\ phase' = "done")
           \/ (phase \in {"sort", "resort"} /\ phase' = "print" /\ g.verts \subseteq Finished)
  PROVE  SortInv'
<1>1. /\ TopoEdges' = TopoEdges /\ CycleEdges' = CycleEdges /\ g' = g /\ targets' = targets
      /\ excluded' = excluded /\ stack' = stack /\ sorted' = sorted
  BY SameGraph DEF inputs, sortVars
<1>2. SortEdges' = SortEdges /\ Stacked' = Stacked /\ Finished' = Finished
  BY <1>1 DEF SortEdges, Stacked, Finished
<1>3. DependenciesFirst' BY <1>1, <1>2 DEF DependenciesFirst, SortInv
<1>4. CycleIsReal' BY <1>1 DEF CycleIsReal, SortInv
<1>5. OnlySelfLoopsAreFatal' BY <1>1 DEF OnlySelfLoopsAreFatal, SortInv
<1>6. StackIsPath' BY <1>1, <1>2 DEF SortInv, StackIsPath
<1>7. Distinct(sorted') /\ Distinct(stack') /\ Stacked' \cap Finished' = {}
  BY <1>1, <1>2 DEF SortInv
<1>8. phase' \in {"print", "done"} /\ targets' # {} => g'.verts \subseteq Finished'
  BY <1>1, <1>2 DEF SortInv
<1>9. /\ phase' \in {"search", "sort"} => excluded' = {}
      /\ phase' \in {"resort", "terminated"} => excluded' = CycleEdges'
      /\ excluded' \subseteq CycleEdges'
      /\ phase' = "search" => stack' = <<>> /\ sorted' = <<>>
  BY <1>1 DEF SortInv
<1> QED BY <1>3, <1>4, <1>5, <1>6, <1>7, <1>8, <1>9 DEF SortInv

LEMMA StartVertexInv ==
  ASSUME TypeOK, SortInv, NEW v \in g.verts, StartVertex(v)
  PROVE  SortInv'
<1>1. /\ UNCHANGED inputs /\ phase' = phase /\ excluded' = excluded /\ sorted' = sorted
      /\ stack' = <<v>> /\ v \notin Finished /\ phase \in {"sort", "resort"}
  BY DEF StartVertex, Sorting
<1>2. g' = g /\ CycleEdges' = CycleEdges /\ TopoEdges' = TopoEdges BY <1>1, SameGraph DEF inputs
<1>3. SortEdges' = SortEdges /\ Stacked' = {v} /\ Finished' = Finished
  BY <1>1, <1>2 DEF SortEdges, Stacked, Finished
<1>4. DependenciesFirst' BY <1>1, <1>3 DEF DependenciesFirst, SortInv
<1>5. CycleIsReal' /\ OnlySelfLoopsAreFatal'
  BY <1>1, <1>2 DEF CycleIsReal, OnlySelfLoopsAreFatal, SortInv
<1>6. v \in Reach(g.verts, SortEdges, {v}) BY ReachContains
<1>7. Distinct(stack') /\ Distinct(sorted') BY <1>1 DEF Distinct, SortInv
<1>8. StackIsPath'
  <2>1. \A i \in DOMAIN stack' : stack'[i] = v BY <1>1
  <2> QED BY <1>2, <1>3, <1>6, <2>1 DEF StackIsPath
<1>9. /\ phase' \in {"search", "sort"} => excluded' = {}
      /\ phase' \in {"resort", "terminated"} => excluded' = CycleEdges'
      /\ excluded' \subseteq CycleEdges' /\ Stacked' \cap Finished' = {}
      /\ phase' \notin {"search", "print", "done"}
  BY <1>1, <1>2, <1>3 DEF SortInv
<1> QED BY <1>4, <1>5, <1>7, <1>8, <1>9 DEF SortInv

LEMMA TreeEdgeInv ==
  ASSUME TypeOK, SortInv, NEW w \in g.verts, TreeEdge(w)
  PROVE  SortInv'
<1>1. /\ UNCHANGED inputs /\ phase' = phase /\ excluded' = excluded /\ sorted' = sorted
      /\ stack' = Append(stack, w) /\ w \notin Finished /\ w \notin Stacked
      /\ phase \in {"sort", "resort"} /\ <<Top, w>> \in SortEdges /\ stack # <<>>
  BY DEF TreeEdge, Sorting
<1>2. g' = g /\ CycleEdges' = CycleEdges /\ TopoEdges' = TopoEdges BY <1>1, SameGraph DEF inputs
<1> DEFINE n == Len(stack)
<1>s. /\ stack \in Seq(g.verts) /\ n \in Nat \ {0} /\ DOMAIN stack = 1 .. n
      /\ DOMAIN stack' = 1 .. n + 1 /\ stack'[n + 1] = w
      /\ \A i \in 1 .. n : stack'[i] = stack[i]
  BY <1>1 DEF TypeOK
<1> HIDE DEF n
<1>3. SortEdges' = SortEdges /\ Finished' = Finished
  BY <1>1, <1>2 DEF SortEdges, Finished
<1>4. DependenciesFirst' BY <1>1, <1>3 DEF DependenciesFirst, SortInv
<1>5. CycleIsReal' /\ OnlySelfLoopsAreFatal'
  BY <1>1, <1>2 DEF CycleIsReal, OnlySelfLoopsAreFatal, SortInv
<1>6. Stacked' \cap Finished' = {}
  BY <1>1, <1>3, <1>s DEF Stacked, SortInv
<1>7. Distinct(stack')
  BY <1>1, <1>s DEF Distinct, Stacked, SortInv
<1>8. ASSUME NEW i \in DOMAIN stack', NEW j \in DOMAIN stack', i <= j
      PROVE  stack'[j] \in Reach(g'.verts, SortEdges', {stack'[i]})
  <2>1. CASE j <= n
    <3>1. i \in DOMAIN stack /\ j \in DOMAIN stack /\ stack'[i] = stack[i] /\ stack'[j] = stack[j]
      BY <1>8, <1>s, <2>1
    <3> QED BY <1>2, <1>3, <1>8, <3>1 DEF SortInv, StackIsPath
  <2>2. CASE j = n + 1 /\ i <= n
    <3>1. n \in DOMAIN stack /\ i \in DOMAIN stack BY <1>8, <1>s, <2>2
    <3>2. Top \in Reach(g.verts, SortEdges, {stack[i]})
      BY <1>s, <2>2, <3>1 DEF SortInv, StackIsPath, Top, n
    <3>3. w \in Reach(g.verts, SortEdges, {stack[i]})
      BY <1>1, <3>2, ReachStep
    <3> QED BY <1>2, <1>3, <1>s, <2>2, <3>1, <3>3
  <2>3. CASE i = n + 1 /\ j = n + 1
    <3>1. w \in Reach(g.verts, SortEdges, {w}) BY ReachContains
    <3> QED BY <1>2, <1>3, <1>s, <2>3, <3>1
  <2> QED BY <1>8, <1>s, <2>1, <2>2, <2>3
<1>9. /\ phase' \in {"search", "sort"} => excluded' = {}
      /\ phase' \in {"resort", "terminated"} => excluded' = CycleEdges'
      /\ excluded' \subseteq CycleEdges' /\ Distinct(sorted')
      /\ phase' \notin {"search", "print", "done"}
  BY <1>1, <1>2 DEF SortInv
<1> QED BY <1>4, <1>5, <1>6, <1>7, <1>8, <1>9 DEF SortInv, StackIsPath

LEMMA CycleFoundInv ==
  ASSUME TypeOK, SortInv, CycleFound
  PROVE  SortInv'
<1>1. /\ UNCHANGED inputs /\ phase' = "resort" /\ excluded' = CycleEdges /\ sorted' = <<>>
      /\ stack' = <<>> /\ phase = "sort" /\ BackEdge
  BY DEF CycleFound
<1>2. g' = g /\ CycleEdges' = CycleEdges /\ TopoEdges' = TopoEdges BY <1>1, SameGraph DEF inputs
<1>3. Stacked' = {} /\ Finished' = {} BY <1>1 DEF Stacked, Finished
<1>4. SortEdges = TopoEdges BY <1>1 DEF SortEdges, SortInv
<1>5. CycleIsReal' BY <1>1, <1>2, <1>4, BackEdgeIsCycle DEF CycleIsReal
<1>6. StackIsPath' /\ DependenciesFirst' /\ OnlySelfLoopsAreFatal' /\ Distinct(sorted') /\ Distinct(stack')
  BY <1>1 DEF StackIsPath, DependenciesFirst, OnlySelfLoopsAreFatal, Distinct
<1> QED BY <1>1, <1>2, <1>3, <1>5, <1>6 DEF SortInv

LEMMA NotADagInv ==
  ASSUME TypeOK, SortInv, NotADag
  PROVE  SortInv'
<1>1. /\ UNCHANGED inputs /\ phase' = "terminated" /\ UNCHANGED sortVars
      /\ phase = "resort" /\ BackEdge
  BY DEF NotADag
<1>2. /\ g' = g /\ CycleEdges' = CycleEdges /\ TopoEdges' = TopoEdges
      /\ excluded' = excluded /\ stack' = stack /\ sorted' = sorted
  BY <1>1, SameGraph DEF inputs, sortVars
<1>3. SortEdges' = SortEdges /\ Stacked' = Stacked /\ Finished' = Finished
  BY <1>2 DEF SortEdges, Stacked, Finished
<1>4. excluded = CycleEdges BY <1>1 DEF SortInv
<1>5. OnlySelfLoopsAreFatal'
  BY <1>1, <1>2, <1>4, BackEdgeIsCycle, ExcludedLeavesLoops DEF OnlySelfLoopsAreFatal
<1>6. CycleIsReal' BY <1>1, <1>2 DEF CycleIsReal, SortInv
<1>7. DependenciesFirst' BY <1>2, <1>3 DEF DependenciesFirst, SortInv
<1>8. StackIsPath' BY <1>2, <1>3 DEF SortInv, StackIsPath
<1>9. Distinct(stack') /\ Distinct(sorted') /\ Stacked' \cap Finished' = {}
  BY <1>2, <1>3 DEF SortInv
<1> QED BY <1>1, <1>2, <1>4, <1>5, <1>6, <1>7, <1>8, <1>9 DEF SortInv

LEMMA FinishVertexInv ==
  ASSUME TypeOK, SortInv, FinishVertex
  PROVE  SortInv'
<1>1. /\ UNCHANGED inputs /\ phase' = phase /\ excluded' = excluded
      /\ sorted' = Append(sorted, Top) /\ stack' = SubSeq(stack, 1, Len(stack) - 1)
      /\ \A w \in g.verts : <<Top, w>> \in SortEdges => w \in Finished
      /\ phase \in {"sort", "resort"} /\ stack # <<>>
  BY DEF FinishVertex, Sorting
<1>2. g' = g /\ CycleEdges' = CycleEdges /\ TopoEdges' = TopoEdges BY <1>1, SameGraph DEF inputs
<1>3. SortEdges' = SortEdges BY <1>1, <1>2 DEF SortEdges
<1> DEFINE n == Len(stack)  m == Len(sorted)
<1>4. /\ n \in Nat \ {0} /\ DOMAIN stack = 1 .. n /\ DOMAIN stack' = 1 .. n - 1
      /\ Top = stack[n] /\ Top \in g.verts
      /\ \A i \in 1 .. n - 1 : stack'[i] = stack[i]
  BY <1>1 DEF TypeOK, Top
<1>5. /\ m \in Nat /\ DOMAIN sorted = 1 .. m /\ DOMAIN sorted' = 1 .. m + 1
      /\ sorted'[m + 1] = Top
      /\ \A i \in 1 .. m : sorted'[i] = sorted[i]
  BY <1>1, <1>4, AppendProperties DEF TypeOK
<1> HIDE DEF n, m
<1>6. Top \notin Finished /\ Stacked' \subseteq Stacked \ {Top}
  BY <1>4 DEF SortInv, Stacked, Distinct
<1>7. Finished' = Finished \cup {Top}
  BY <1>5 DEF Finished
<1>8. Stacked' \cap Finished' = {} BY <1>6, <1>7 DEF SortInv
<1>9. Distinct(stack') BY <1>4 DEF Distinct, SortInv
<1>10. Distinct(sorted') BY <1>5, <1>6 DEF Distinct, SortInv, Finished
<1>11. StackIsPath'
  <2> SUFFICES ASSUME NEW i \in DOMAIN stack', NEW j \in DOMAIN stack', i <= j
               PROVE  stack'[j] \in Reach(g'.verts, SortEdges', {stack'[i]})
    BY DEF StackIsPath
  <2>1. i \in DOMAIN stack /\ j \in DOMAIN stack /\ stack'[i] = stack[i] /\ stack'[j] = stack[j]
    BY <1>4
  <2> QED BY <1>2, <1>3, <2>1 DEF SortInv, StackIsPath
<1>12. DependenciesFirst'
  <2> SUFFICES ASSUME NEW i \in DOMAIN sorted', NEW e \in SortEdges, e[1] = sorted'[i]
               PROVE  \E j \in 1 .. i - 1 : sorted'[j] = e[2]
    BY <1>3 DEF DependenciesFirst
  <2>1. CASE i \in 1 .. m
    BY <1>5, <2>1 DEF SortInv, DependenciesFirst
  <2>2. CASE i = m + 1
    <3>1. e = <<Top, e[2]>> /\ e[2] \in g.verts BY <1>5, <2>2, EdgesJoinVertices
    <3>2. e[2] \in Finished BY <1>1, <3>1
    <3> QED BY <1>5, <2>2, <3>2 DEF Finished
  <2> QED BY <1>5, <2>1, <2>2
<1>13. CycleIsReal' /\ OnlySelfLoopsAreFatal'
  BY <1>1, <1>2 DEF CycleIsReal, OnlySelfLoopsAreFatal, SortInv
<1>14. /\ phase' \in {"search", "sort"} => excluded' = {}
       /\ phase' \in {"resort", "terminated"} => excluded' = CycleEdges'
       /\ excluded' \subseteq CycleEdges'
       /\ phase' \notin {"search", "print", "done"}
  BY <1>1, <1>2 DEF SortInv
<1> QED BY <1>8, <1>9, <1>10, <1>11, <1>12, <1>13, <1>14 DEF SortInv

LEMMA SortNext == TypeOK /\ SortInv /\ [Next]_vars => SortInv'
<1> SUFFICES ASSUME TypeOK, SortInv, [Next]_vars PROVE SortInv'
  OBVIOUS
<1>1. CASE Search
  BY <1>1, SortSame DEF Search, NothingFound, StartSearch, Visit, SearchDone
<1>2. CASE Sort
  <2>1. CASE SortDone
    BY <2>1, SortSame DEF SortDone, Sorting, sortVars, searchVars
  <2> QED BY <1>2, <2>1, StartVertexInv, TreeEdgeInv, CycleFoundInv, NotADagInv,
             FinishVertexInv DEF Sort
<1>3. CASE PrintNext \/ PrintDone
  BY <1>3, SortSame DEF PrintNext, PrintDone
<1>4. CASE UNCHANGED vars
  BY <1>4, SortSame DEF vars
<1> QED BY <1>1, <1>2, <1>3, <1>4 DEF Next

-----------------------------------------------------------------------------
(* The output: what main has looked at is a prefix of the sorted vertices,  *)
(* and each of them that is wanted has left its lines.                     *)

Looked == Len(sorted) - Len(rest)

PrintsCode(v) == Wanted(v) /\ ~AsHeader(v) /\ v.f \notin ExcludedFiles
PrintsHeader(v) == Wanted(v) /\ AsHeader(v) /\ TopLevel[v.f] # None

CodeLine(v) == <<"code", v>>
HeaderLine(v) == <<"header", TopLevel[v.f]>>
OnPaper(line) == \E j \in DOMAIN printed : printed[j] = line

LookedAt ==
  /\ Looked \in 0 .. Len(sorted)
  /\ \A i \in DOMAIN rest : rest[i] = sorted[Looked + i]
  /\ g.verts \subseteq Finished

PassedBy(v) == \E i \in 1 .. Looked : sorted[i] = v

LeftItsLines ==
  \A v \in g.verts : PassedBy(v) => /\ PrintsCode(v) => OnPaper(CodeLine(v))
                                    /\ PrintsHeader(v) => OnPaper(HeaderLine(v))

OnlyWhatWasLookedAt ==
  \A v \in g.verts : OnPaper(CodeLine(v)) => PassedBy(v)

SameOrder ==
  \A i, j \in DOMAIN printed : \A a, b \in DOMAIN sorted :
    i < j /\ printed[i] = CodeLine(sorted[a]) /\ printed[j] = CodeLine(sorted[b]) => a < b

PrintInv ==
  /\ phase \in {"search", "sort", "resort", "terminated"} => printed = <<>> /\ rest = <<>>
  /\ targets = {} => phase \in {"search", "done"} /\ printed = <<>>
  /\ phase = "done" => rest = <<>>
  /\ phase \in {"print", "done"} /\ targets # {} =>
       LookedAt /\ LeftItsLines /\ OnlyWhatWasLookedAt /\ SameOrder
  /\ Distinct(printed)

LEMMA PrintInit == Init => PrintInv
BY DEF Init, PrintInv, Distinct

\* A step that only moves on from what is printed keeps it.
LEMMA PrintSame ==
  ASSUME PrintInv, UNCHANGED inputs, UNCHANGED printVars, UNCHANGED sorted, UNCHANGED reached,
         phase' = phase \/ (phase = "print" /\ phase' = "done" /\ rest = <<>>)
  PROVE  PrintInv'
<1>1. /\ g' = g /\ opts' = opts /\ targets' = targets /\ rest' = rest /\ printed' = printed
      /\ sorted' = sorted /\ reached' = reached
  BY DEF inputs, printVars
<1>2. Finished' = Finished /\ Looked' = Looked BY <1>1 DEF Finished, Looked
<1>3. LookedAt' = LookedAt BY <1>1, <1>2 DEF LookedAt
<1>4. LeftItsLines' = LeftItsLines
  BY <1>1, <1>2 DEF LeftItsLines, PassedBy, PrintsCode, PrintsHeader, Wanted, AsHeader,
                    CodeLine, HeaderLine, OnPaper
<1>5. OnlyWhatWasLookedAt' = OnlyWhatWasLookedAt /\ SameOrder' = SameOrder
  BY <1>1, <1>2 DEF OnlyWhatWasLookedAt, PassedBy, OnPaper, SameOrder, CodeLine
<1>6. Distinct(printed') BY <1>1 DEF PrintInv
<1> QED BY <1>1, <1>3, <1>4, <1>5, <1>6 DEF PrintInv

LEMMA SortDonePrints ==
  ASSUME TypeOK, PrintInv, SortDone
  PROVE  PrintInv'
<1>1. /\ UNCHANGED inputs /\ phase' = "print" /\ rest' = sorted /\ printed' = <<>>
      /\ sorted' = sorted /\ g.verts \subseteq Finished /\ targets # {}
  BY DEF SortDone, Sorting, PrintInv, sortVars
<1>2. Finished' = Finished /\ Looked' = 0 /\ Len(sorted) \in Nat
  BY <1>1 DEF Finished, Looked, TypeOK
<1>3. LookedAt' BY <1>1, <1>2 DEF LookedAt, inputs
<1>4. LeftItsLines' BY <1>2 DEF LeftItsLines, PassedBy
<1>5. OnlyWhatWasLookedAt' /\ SameOrder' /\ Distinct(printed')
  BY <1>1 DEF OnlyWhatWasLookedAt, OnPaper, SameOrder, Distinct
<1> QED BY <1>1, <1>3, <1>4, <1>5 DEF PrintInv, inputs

\* What one vertex adds to the output.
LEMMA LinesOf ==
  ASSUME NEW v
  PROVE  \/ /\ Lines(v) = <<>> /\ ~PrintsCode(v)
            /\ PrintsHeader(v) => OnPaper(HeaderLine(v))
         \/ Lines(v) = <<CodeLine(v)>> /\ PrintsCode(v) /\ ~PrintsHeader(v)
         \/ /\ Lines(v) = <<HeaderLine(v)>> /\ ~PrintsCode(v)
            /\ ~OnPaper(HeaderLine(v))
BY DEF Lines, PrintsCode, PrintsHeader, OnPaper, CodeLine, HeaderLine

LEMMA PrintNextInv ==
  ASSUME TypeOK, SortInv, PrintInv, PrintNext
  PROVE  PrintInv'
<1> DEFINE n == Looked + 1  v == Head(rest)  m == Len(printed)
<1>1. /\ UNCHANGED inputs /\ phase' = "print" /\ phase = "print" /\ targets # {}
      /\ printed' = printed \o Lines(v) /\ rest' = Tail(rest) /\ rest # <<>>
      /\ sorted' = sorted /\ reached' = reached
  BY DEF PrintNext, PrintInv, sortVars, searchVars
<1>2. LookedAt /\ LeftItsLines /\ OnlyWhatWasLookedAt /\ SameOrder /\ Distinct(printed)
  BY <1>1 DEF PrintInv
<1>3. /\ rest \in Seq(g.verts) /\ sorted \in Seq(g.verts)
      /\ m \in Nat /\ DOMAIN printed = 1 .. m
  BY DEF TypeOK
<1>4. /\ Looked \in Nat /\ n \in DOMAIN sorted /\ v = sorted[n] /\ Looked' = n
      /\ DOMAIN sorted = 1 .. Len(sorted) /\ n \in Nat
      /\ \A i \in DOMAIN rest' : rest'[i] = sorted[n + i]
      /\ n \in 0 .. Len(sorted)
  <2>1. /\ Len(rest) \in Nat \ {0} /\ DOMAIN rest = 1 .. Len(rest) /\ v = rest[1]
        /\ Len(rest') = Len(rest) - 1
        /\ DOMAIN rest' = 1 .. Len(rest) - 1
        /\ \A i \in 1 .. Len(rest) - 1 : rest'[i] = rest[i + 1]
    BY <1>1, <1>3, HeadTailProperties
  <2>2. Len(sorted) \in Nat /\ DOMAIN sorted = 1 .. Len(sorted) BY <1>3
  <2>3. Looked \in Nat /\ Looked' = n /\ n \in 1 .. Len(sorted)
    BY <1>1, <1>2, <2>1, <2>2 DEF Looked, LookedAt
  <2>4. v = sorted[n]
    <3>1. 1 \in DOMAIN rest /\ Looked + 1 = n BY <2>1, <2>3
    <3>2. rest[1] = sorted[Looked + 1] BY <1>2, <3>1 DEF LookedAt
    <3> QED BY <2>1, <3>1, <3>2
  <2>5. ASSUME NEW i \in DOMAIN rest' PROVE rest'[i] = sorted[n + i]
    <3>1. i + 1 \in DOMAIN rest /\ rest'[i] = rest[i + 1] BY <2>1
    <3>2. Looked + (i + 1) = n + i BY <2>1, <2>3
    <3> QED BY <1>2, <3>1, <3>2 DEF LookedAt
  <2> QED BY <2>2, <2>3, <2>4, <2>5
<1>5. LookedAt' BY <1>1, <1>2, <1>4 DEF LookedAt, Finished, inputs
<1>6. ASSUME NEW w
      PROVE  /\ PrintsCode(w)' = PrintsCode(w) /\ PrintsHeader(w)' = PrintsHeader(w)
             /\ CodeLine(w)' = CodeLine(w) /\ HeaderLine(w)' = HeaderLine(w)
             /\ PassedBy(w)' <=> PassedBy(w) \/ w = v
  <2>1. /\ PrintsCode(w)' = PrintsCode(w) /\ PrintsHeader(w)' = PrintsHeader(w)
        /\ CodeLine(w)' = CodeLine(w) /\ HeaderLine(w)' = HeaderLine(w)
    BY <1>1 DEF inputs, PrintsCode, PrintsHeader, CodeLine, HeaderLine, Wanted, AsHeader
  <2>2. PassedBy(w)' <=> \E i \in 1 .. n : sorted[i] = w BY <1>1, <1>4 DEF PassedBy
  <2>3. 1 .. n = (1 .. Looked) \cup {n} BY <1>4
  <2> HIDE DEF n, v
  <2> QED BY <1>4, <2>1, <2>2, <2>3 DEF PassedBy
<1>7. ~PassedBy(v) /\ v \in g.verts
  BY <1>3, <1>4 DEF SortInv, Distinct, PassedBy
<1>8. ~OnPaper(CodeLine(v))
  BY <1>2, <1>7 DEF OnlyWhatWasLookedAt
<1>g. g' = g BY <1>1 DEF inputs
<1> HIDE DEF n, v, m
<1>9. CASE Lines(v) = <<>>
  <2>1. printed' = printed BY <1>1, <1>9 DEF TypeOK
  <2>2. ~PrintsCode(v) /\ (PrintsHeader(v) => OnPaper(HeaderLine(v)))
    BY <1>9, LinesOf
  <2>4. LeftItsLines'
    <3> SUFFICES ASSUME NEW w \in g.verts, PassedBy(w)'
                 PROVE  /\ PrintsCode(w)' => OnPaper(CodeLine(w))'
                        /\ PrintsHeader(w)' => OnPaper(HeaderLine(w))'
      BY <1>g DEF LeftItsLines
    <3>1. OnPaper(CodeLine(w))' = OnPaper(CodeLine(w))
          /\ OnPaper(HeaderLine(w))' = OnPaper(HeaderLine(w))
      BY <2>1 DEF OnPaper, CodeLine, HeaderLine
    <3> QED BY <1>2, <1>6, <2>2, <3>1 DEF LeftItsLines
  <2>5. OnlyWhatWasLookedAt'
    <3> SUFFICES ASSUME NEW w \in g.verts, OnPaper(CodeLine(w))' PROVE PassedBy(w)'
      BY <1>g DEF OnlyWhatWasLookedAt
    <3>1. OnPaper(CodeLine(w)) BY <2>1 DEF OnPaper, CodeLine
    <3> QED BY <1>2, <1>6, <3>1 DEF OnlyWhatWasLookedAt
  <2>6. SameOrder' /\ Distinct(printed')
    BY <1>1, <1>2, <2>1 DEF SameOrder, CodeLine
  <2> QED BY <1>1, <1>5, <2>4, <2>5, <2>6 DEF PrintInv, inputs
<1>10. ASSUME NEW x, Lines(v) = <<x>>, ~OnPaper(x),
              \A w \in g.verts : x = CodeLine(w) => w = v,
              PrintsCode(v) => x = CodeLine(v),
              PrintsHeader(v) => x = HeaderLine(v)
       PROVE  PrintInv'
  <2>1. /\ DOMAIN printed' = 1 .. m + 1 /\ printed'[m + 1] = x
        /\ \A j \in 1 .. m : printed'[j] = printed[j]
    BY <1>1, <1>3, <1>10 DEF TypeOK, m
  <2>2. ASSUME NEW line PROVE OnPaper(line)' <=> OnPaper(line) \/ line = x
    <3>1. DOMAIN printed' = DOMAIN printed \cup {m + 1} BY <1>3, <2>1
    <3> QED BY <1>3, <2>1, <3>1 DEF OnPaper
  <2>3. ASSUME NEW w
        PROVE  /\ OnPaper(CodeLine(w))' <=> OnPaper(CodeLine(w)) \/ CodeLine(w) = x
               /\ OnPaper(HeaderLine(w))' <=> OnPaper(HeaderLine(w)) \/ HeaderLine(w) = x
    <3>1. CodeLine(w)' = CodeLine(w) /\ HeaderLine(w)' = HeaderLine(w) BY <1>6
    <3>2. OnPaper(CodeLine(w))' <=> OnPaper(CodeLine(w)) \/ CodeLine(w) = x
      BY <2>2, <3>1 DEF CodeLine
    <3>3. PICK h : h = HeaderLine(w) OBVIOUS
    <3>4. OnPaper(h)' = OnPaper(HeaderLine(w))' BY <3>1, <3>3 DEF OnPaper
    <3> QED BY <2>2, <3>2, <3>3, <3>4
  <2>4. LeftItsLines'
    <3> SUFFICES ASSUME NEW w \in g.verts, PassedBy(w)'
                 PROVE  /\ PrintsCode(w)' => OnPaper(CodeLine(w))'
                        /\ PrintsHeader(w)' => OnPaper(HeaderLine(w))'
      BY <1>g DEF LeftItsLines
    <3> QED BY <1>2, <1>6, <1>10, <2>3 DEF LeftItsLines
  <2>5. OnlyWhatWasLookedAt'
    <3> SUFFICES ASSUME NEW w \in g.verts, OnPaper(CodeLine(w))' PROVE PassedBy(w)'
      BY <1>g DEF OnlyWhatWasLookedAt
    <3> QED BY <1>2, <1>6, <1>10, <2>3 DEF OnlyWhatWasLookedAt
  <2>6. SameOrder'
    <3> SUFFICES ASSUME NEW i \in DOMAIN printed', NEW j \in DOMAIN printed',
                        NEW a \in DOMAIN sorted, NEW b \in DOMAIN sorted,
                        i < j, printed'[i] = CodeLine(sorted[a]), printed'[j] = CodeLine(sorted[b])
                 PROVE  a < b
      BY <1>1 DEF SameOrder, CodeLine
    <3>1. i \in 1 .. m /\ printed'[i] = printed[i] BY <1>3, <2>1
    <3>2. CASE j \in 1 .. m
      BY <1>2, <1>3, <2>1, <3>1, <3>2 DEF SameOrder
    <3>3. CASE j = m + 1
      <4>s. sorted[a] \in g.verts /\ sorted[b] \in g.verts BY <1>3
      <4>1. sorted[b] = v BY <1>10, <2>1, <3>3, <4>s
      <4>2. b = n BY <1>4, <4>1 DEF SortInv, Distinct
      <4>3. PassedBy(sorted[a])
        BY <1>2, <1>3, <3>1, <4>s DEF OnlyWhatWasLookedAt, OnPaper
      <4>4. PICK k \in 1 .. Looked : sorted[a] = sorted[k] BY <4>3 DEF PassedBy
      <4>5. k \in DOMAIN sorted BY <1>4, <4>4 DEF n
      <4>6. a = k BY <4>4, <4>5 DEF SortInv, Distinct
      <4> QED BY <1>4, <4>2, <4>6 DEF n
    <3> QED BY <1>3, <2>1, <3>2, <3>3
  <2>7. Distinct(printed')
    BY <1>2, <1>3, <1>10, <2>1 DEF Distinct, OnPaper
  <2> QED BY <1>1, <1>5, <2>4, <2>5, <2>6, <2>7 DEF PrintInv, inputs
<1>11. \A w : CodeLine(w) = CodeLine(v) => w = v
  <2>1. \A w : CodeLine(w)[2] = w BY DEF CodeLine
  <2> QED BY <2>1
<1>12. \A w : HeaderLine(v) # CodeLine(w)
  <2>1. HeaderLine(v)[1] = "header" /\ \A w : CodeLine(w)[1] = "code" BY DEF CodeLine, HeaderLine
  <2> QED BY <2>1
<1>13. CASE Lines(v) = <<CodeLine(v)>> /\ PrintsCode(v) /\ ~PrintsHeader(v)
  BY <1>8, <1>10, <1>11, <1>13
<1>14. CASE Lines(v) = <<HeaderLine(v)>> /\ ~PrintsCode(v) /\ ~OnPaper(HeaderLine(v))
  BY <1>10, <1>12, <1>14
<1> QED BY <1>9, <1>13, <1>14, LinesOf

LEMMA PrintInvNext == TypeOK /\ SortInv /\ PrintInv /\ [Next]_vars => PrintInv'
<1> SUFFICES ASSUME TypeOK, SortInv, PrintInv, [Next]_vars PROVE PrintInv'
  OBVIOUS
<1>1. CASE Search
  BY <1>1 DEF Search, NothingFound, StartSearch, Visit, SearchDone, PrintInv, inputs, printVars,
              Distinct
<1>2. CASE SortDone BY <1>2, SortDonePrints
<1>3. CASE Sort /\ ~SortDone
  BY <1>3 DEF Sort, StartVertex, TreeEdge, CycleFound, NotADag, FinishVertex, Sorting,
              PrintInv, inputs, printVars, Distinct
<1>4. CASE PrintNext BY <1>4, PrintNextInv
<1>5. CASE PrintDone BY <1>5, PrintSame DEF PrintDone, searchVars, sortVars, printVars
<1>6. CASE UNCHANGED vars BY <1>6, PrintSame DEF vars, searchVars, sortVars
<1> QED BY <1>1, <1>2, <1>3, <1>4, <1>5, <1>6 DEF Next

-----------------------------------------------------------------------------
(* The theorems.                                                           *)

IInv == TypeOK /\ SearchInv /\ SortInv /\ PrintInv

LEMMA Invariance == Spec => []IInv
<1>1. Init => IInv BY InitTypes, SearchInit, SortInit, PrintInit DEF IInv
<1>2. IInv /\ [Next]_vars => IInv' BY NextTypes, SearchNext, SortNext, PrintInvNext DEF IInv
<1> QED BY <1>1, <1>2, PTL DEF Spec

\* The searches, the sorts and the printing keep their data in shape: among the
\* rest, every vertex they hold is one of the graph.
THEOREM ExtractTypes == Spec => []TypeOK
<1>1. IInv => TypeOK BY DEF IInv
<1> QED BY <1>1, Invariance, PTL

\* What reachable_code returns is exactly what the requested code needs.
THEOREM SearchFindsExactlyWhatIsNeeded == Spec => []ReachedExactly
<1>1. IInv => ReachedExactly BY SearchIsExact DEF IInv
<1> QED BY <1>1, Invariance, PTL

\* topologically_sort_code puts dependencies first, whether or not it had to leave
\* out the edges of cycles.
THEOREM SortedByDependency == Spec => []DependenciesFirst
<1>1. IInv => DependenciesFirst BY DEF IInv, SortInv
<1> QED BY <1>1, Invariance, PTL

\* A cycle is only reported, and edges are only left out, where there is one.
THEOREM ReportedCyclesExist == Spec => []CycleIsReal
<1>1. IInv => CycleIsReal BY DEF IInv, SortInv
<1> QED BY <1>1, Invariance, PTL

\* The second sort, whose exception nobody catches, only fails for a vertex that
\* depends on itself and is in no larger cycle.
THEOREM SecondSortFailsForLoopsOnly == Spec => []OnlySelfLoopsAreFatal
<1>1. IInv => OnlySelfLoopsAreFatal BY DEF IInv, SortInv
<1> QED BY <1>1, Invariance, PTL

\* main prints everything that was reached and has text, once.
THEOREM EverythingIsPrintedOnce == Spec => []PrintedOnce
<1>1. IInv => PrintedOnce
  <2> SUFFICES ASSUME IInv, phase = "done", targets # {} PROVE PrintedOnce
    BY DEF PrintedOnce
  <2>1. LookedAt /\ LeftItsLines /\ rest = <<>> BY DEF IInv, PrintInv
  <2>2. Looked = Len(sorted) /\ DOMAIN sorted = 1 .. Len(sorted)
    BY <2>1 DEF Looked, IInv, TypeOK
  <2>3. ASSUME NEW v \in reached
        PROVE  /\ PrintsCode(v) => OnPaper(CodeLine(v))
               /\ PrintsHeader(v) => OnPaper(HeaderLine(v))
    <3>1. PICK i \in DOMAIN sorted : v = sorted[i]
      BY <2>1 DEF LookedAt, Finished, IInv, TypeOK
    <3> QED BY <2>1, <2>2, <3>1 DEF LeftItsLines, PassedBy, IInv, TypeOK
  <2>4. Distinct(printed) BY DEF IInv, PrintInv
  <2>5. \A v \in reached : (Wanted(v) /\ ~AsHeader(v) /\ v.f \notin ExcludedFiles) =>
          \E i \in DOMAIN printed : printed[i] = <<"code", v>>
    BY <2>3 DEF PrintsCode, OnPaper, CodeLine
  <2>6. \A v \in reached : (Wanted(v) /\ AsHeader(v) /\ TopLevel[v.f] # None) =>
          \E i \in DOMAIN printed : printed[i] = <<"header", TopLevel[v.f]>>
    BY <2>3 DEF PrintsHeader, OnPaper, HeaderLine
  <2> QED BY <2>4, <2>5, <2>6 DEF PrintedOnce, Distinct
<1> QED BY <1>1, Invariance, PTL

\* In what main prints, no code comes before code that it depends on, unless the
\* two are part of a cycle.
THEOREM PrintedByDependency == Spec => []PrintedInOrder
<1>1. IInv => PrintedInOrder
  <2> SUFFICES ASSUME IInv, NEW e \in TopoEdges \ CycleEdges,
                      NEW i \in DOMAIN printed, NEW j \in DOMAIN printed,
                      printed[i] = <<"code", e[1]>>, printed[j] = <<"code", e[2]>>, e[1] # e[2]
               PROVE  j < i
    BY DEF PrintedInOrder
  <2>1. printed # <<>> /\ DOMAIN printed = 1 .. Len(printed) /\ Len(printed) \in Nat
    BY DEF IInv, TypeOK
  <2>2. /\ OnlyWhatWasLookedAt /\ SameOrder /\ Looked \in 0 .. Len(sorted)
        /\ DOMAIN sorted = 1 .. Len(sorted)
    BY <2>1 DEF IInv, PrintInv, LookedAt, TypeOK
  <2>3. PICK a \in DOMAIN sorted : e[1] = sorted[a]
    <3>1. e[1] \in g.verts BY EdgesJoinVertices DEF IInv
    <3> QED BY <2>2, <3>1 DEF OnlyWhatWasLookedAt, OnPaper, PassedBy, CodeLine
  <2>4. e \in SortEdges BY DEF SortEdges, IInv, SortInv
  <2>5. PICK b \in 1 .. a - 1 : sorted[b] = e[2]
    BY <2>3, <2>4 DEF IInv, SortInv, DependenciesFirst
  <2>6. b \in DOMAIN sorted /\ b < a BY <2>2, <2>3, <2>5
  <2>7. ~(i < j)
    BY <2>2, <2>3, <2>5, <2>6 DEF SameOrder, CodeLine
  <2>8. i # j
    <3>1. printed[i][2] = e[1] /\ printed[j][2] = e[2] OBVIOUS
    <3> QED BY <3>1
  <2> QED BY <2>1, <2>7, <2>8
<1> QED BY <1>1, Invariance, PTL

=============================================================================
