------------------------------ MODULE Extract -------------------------------
(***************************************************************************)
(* carbon-extract on one dependency graph: reachable_code searches it from *)
(* the requested code, topologically_sort_code orders the whole graph, and *)
(* main prints what was reached in that order.                             *)
(*                                                                         *)
(* The orders in which Boost walks vertices and edges (hash tables, sets   *)
(* of addresses) are left open.                                            *)
(***************************************************************************)
EXTENDS DepGraph, Sequences

CONSTANTS Graphs,       \* the dependency graphs a collection may hold
          SystemFiles,  \* the files that clang calls system headers
          TopLevel,     \* TopLevel[f]: the header to #include for system file f,
          None,         \* or None, the empty string of collect.cpp:299
          ExcludedFiles,\* the files below a directory given to --exclude
          Options       \* the combinations of options to consider

ASSUME ExtractAssumption == /\ Options \subseteq [onlyTys : BOOLEAN, notarget : BOOLEAN,
                                                  systCode : BOOLEAN]
                            /\ \A h \in Graphs : IsGraph(h) /\ IsFiniteSet(h.verts)
                            /\ SystemFiles \subseteq Files
                            /\ TopLevel \in [SystemFiles -> Files \cup {None}]

VARIABLES g,        \* the graph read from the collection
          opts,     \* only_tys, notarget and syst_code
          targets,  \* the vertices of the requested code
          phase,    \* how far main has got
          pending,  \* targets that are still to be searched from
          seen,     \* vertices that are not white in the current search
          frontier, \* vertices that are gray in the current search
          reached,  \* out of reachable_code
          excluded, \* bad_edges
          stack,    \* the gray vertices of the depth-first search
          sorted,   \* out of topologically_sort_code
          rest,     \* what main's loop has still to look at
          printed   \* what has been printed: <<"code", v>> or <<"header", h>>

searchVars == <<pending, seen, frontier, reached>>
sortVars == <<excluded, stack, sorted>>
printVars == <<rest, printed>>
inputs == <<g, opts, targets>>
vars == <<inputs, phase, searchVars, sortVars, printVars>>

-----------------------------------------------------------------------------
(* Reachability, said without saying how it is computed.                   *)

ClosedUnder(E, S) == \A e \in E : e[1] \in S => e[2] \in S

Reach(V, E, S) ==
  {v \in V : \A C \in SUBSET V : S \subseteq C /\ ClosedUnder(E, C) => v \in C}

Component(V, E, v) == {w \in V : w \in Reach(V, E, {v}) /\ v \in Reach(V, E, {w})}

\* reachable_ty_edges and reachable_edges
SearchEdges ==
  {e \in DOMAIN g.edge : IF opts.onlyTys THEN g.edge[e] = "NORMAL"
                                         ELSE g.edge[e] # "FOLLOWS"}

\* topo_edges
TopoEdges == {e \in DOMAIN g.edge : g.edge[e] # "FWD_DECL"}

\* topo_edges_excluding_some
SortEdges == TopoEdges \ excluded

\* The edges inside a strongly connected component of two vertices or more.
CycleEdges ==
  {e \in TopoEdges : LET c == Component(g.verts, TopoEdges, e[1])
                     IN e[2] \in c /\ c # {e[1]}}

Stacked == {stack[i] : i \in DOMAIN stack}
Finished == {sorted[i] : i \in DOMAIN sorted}
Top == stack[Len(stack)]

-----------------------------------------------------------------------------
Init == /\ g \in Graphs
        /\ opts \in Options
        /\ targets \in SUBSET g.verts
        /\ phase = "search"
        /\ pending = targets
        /\ seen = {} /\ frontier = {} /\ reached = {}
        /\ excluded = {} /\ stack = <<>> /\ sorted = <<>>
        /\ rest = <<>> /\ printed = <<>>

\* Nothing of what was asked for exists: main returns before it sorts.
NothingFound ==
  /\ phase = "search" /\ targets = {}
  /\ phase' = "done"
  /\ UNCHANGED <<inputs, searchVars, sortVars, printVars>>

\* Mutant: the target itself is not recorded.
StartUnrecorded(v) ==
  /\ phase = "search" /\ frontier = {} /\ v \in pending
  /\ pending' = pending \ {v}
  /\ seen' = {v} /\ frontier' = {v}
  /\ UNCHANGED <<inputs, phase, reached, sortVars, printVars>>

\* Every target has a search of its own, with fresh colors.
StartSearch(v) ==
  /\ phase = "search" /\ frontier = {} /\ v \in pending
  /\ pending' = pending \ {v}
  /\ seen' = {v} /\ frontier' = {v}
  /\ reached' = reached \cup {v}
  /\ UNCHANGED <<inputs, phase, sortVars, printVars>>

Visit(u) ==
  /\ phase = "search" /\ u \in frontier
  /\ LET found == {w \in g.verts : <<u, w>> \in SearchEdges} \ seen
     IN /\ seen' = seen \cup found
        /\ frontier' = (frontier \ {u}) \cup found
        /\ reached' = reached \cup found
  /\ UNCHANGED <<inputs, phase, pending, sortVars, printVars>>

\* Mutant: one search, from one target.
SearchedOne ==
  /\ phase = "search" /\ frontier = {} /\ targets # {} /\ pending # targets
  /\ phase' = "sort"
  /\ UNCHANGED <<inputs, searchVars, sortVars, printVars>>

SearchDone ==
  /\ phase = "search" /\ frontier = {} /\ pending = {} /\ targets # {}
  /\ phase' = "sort"
  /\ UNCHANGED <<inputs, searchVars, sortVars, printVars>>

-----------------------------------------------------------------------------
(* boost::topological_sort: a depth-first search whose finished vertices   *)
(* are appended to out.                                                    *)

Sorting == phase \in {"sort", "resort"}

StartVertex(v) ==
  /\ Sorting /\ stack = <<>> /\ v \in g.verts \ Finished
  /\ stack' = <<v>>
  /\ UNCHANGED <<inputs, phase, searchVars, excluded, sorted, printVars>>

TreeEdge(w) ==
  /\ Sorting /\ stack # <<>>
  /\ <<Top, w>> \in SortEdges /\ w \notin Stacked \cup Finished
  /\ stack' = Append(stack, w)
  /\ UNCHANGED <<inputs, phase, searchVars, excluded, sorted, printVars>>

\* Mutant: finished vertices are taken for gray ones.
BackOrCrossEdge ==
  Sorting /\ stack # <<>> /\ \E w \in Stacked \cup Finished : <<Top, w>> \in SortEdges

BackEdge == Sorting /\ stack # <<>> /\ \E w \in Stacked : <<Top, w>> \in SortEdges

\* Mutant: the sort starts over with all the edges.
SortAgain ==
  /\ phase = "sort" /\ BackEdge
  /\ stack' = <<>> /\ sorted' = <<>>
  /\ UNCHANGED <<inputs, phase, searchVars, excluded, printVars>>

\* Mutant: the catch block excludes no edge.
NoBadEdges ==
  /\ phase = "sort" /\ BackEdge
  /\ phase' = "resort"
  /\ stack' = <<>> /\ sorted' = <<>>
  /\ UNCHANGED <<inputs, searchVars, excluded, printVars>>

\* not_a_dag is caught once: out starts over, without the edges of any cycle.
CycleFound ==
  /\ phase = "sort" /\ BackEdge
  /\ phase' = "resort"
  /\ excluded' = CycleEdges
  /\ stack' = <<>> /\ sorted' = <<>>
  /\ UNCHANGED <<inputs, searchVars, printVars>>

\* In the catch block nothing catches it, and the process ends.
NotADag ==
  /\ phase = "resort" /\ BackEdge
  /\ phase' = "terminated"
  /\ UNCHANGED <<inputs, searchVars, sortVars, printVars>>

\* Mutant: a vertex is finished when it is first looked at again.
FinishEarly ==
  /\ Sorting /\ stack # <<>>
  /\ sorted' = Append(sorted, Top)
  /\ stack' = SubSeq(stack, 1, Len(stack) - 1)
  /\ UNCHANGED <<inputs, phase, searchVars, excluded, printVars>>

FinishVertex ==
  /\ Sorting /\ stack # <<>>
  /\ \A w \in g.verts : <<Top, w>> \in SortEdges => w \in Finished
  /\ sorted' = Append(sorted, Top)
  /\ stack' = SubSeq(stack, 1, Len(stack) - 1)
  /\ UNCHANGED <<inputs, phase, searchVars, excluded, printVars>>

SortDone ==
  /\ Sorting /\ stack = <<>> /\ g.verts \subseteq Finished
  /\ phase' = "print"
  /\ rest' = sorted
  /\ UNCHANGED <<inputs, searchVars, sortVars, printed>>

-----------------------------------------------------------------------------
(* The loop of main that prints.                                           *)

Wanted(v) == v \in reached /\ ~(opts.notarget /\ v \in targets)

AsHeader(v) == v.f \in SystemFiles /\ ~opts.systCode

\* Mutant: every piece of a header includes it.
LinesWithoutMemory(v) ==
  IF ~Wanted(v) THEN <<>>
  ELSE IF AsHeader(v) THEN <<<<"header", TopLevel[v.f]>>>>
       ELSE IF v.f \in ExcludedFiles THEN <<>> ELSE <<<<"code", v>>>>

\* A header is included once; code of an excluded file has no text.
Lines(v) ==
  IF ~Wanted(v) THEN <<>>
  ELSE IF AsHeader(v)
       THEN IF \/ TopLevel[v.f] = None
               \/ \E i \in DOMAIN printed : printed[i] = <<"header", TopLevel[v.f]>>
            THEN <<>> ELSE <<<<"header", TopLevel[v.f]>>>>
       ELSE IF v.f \in ExcludedFiles THEN <<>> ELSE <<<<"code", v>>>>

\* Mutant: the order of front_inserter.
PrintBefore ==
  /\ phase = "print" /\ rest # <<>>
  /\ printed' = Lines(Head(rest)) \o printed
  /\ rest' = Tail(rest)
  /\ UNCHANGED <<inputs, phase, searchVars, sortVars>>

PrintNext ==
  /\ phase = "print" /\ rest # <<>>
  /\ printed' = printed \o Lines(Head(rest))
  /\ rest' = Tail(rest)
  /\ UNCHANGED <<inputs, phase, searchVars, sortVars>>

PrintDone ==
  /\ phase = "print" /\ rest = <<>>
  /\ phase' = "done"
  /\ UNCHANGED <<inputs, searchVars, sortVars, printVars>>

-----------------------------------------------------------------------------
Search == NothingFound \/ (\E v \in g.verts : StartSearch(v) \/ Visit(v)) \/ SearchDone

Sort == \/ \E v \in g.verts : StartVertex(v) \/ TreeEdge(v)
        \/ CycleFound \/ NotADag \/ FinishVertex \/ SortDone

Next == Search \/ Sort \/ PrintNext \/ PrintDone

\* One thread that never waits for anything.
Spec == Init /\ [][Next]_vars /\ WF_vars(Next)

-----------------------------------------------------------------------------
(* Properties                                                              *)

TypeOK ==
  /\ IsGraph(g) /\ opts \in Options /\ targets \subseteq g.verts
  /\ phase \in {"search", "sort", "resort", "terminated", "print", "done"}
  /\ pending \subseteq targets /\ frontier \subseteq seen /\ seen \subseteq reached
  /\ reached \subseteq g.verts
  /\ excluded \subseteq TopoEdges
  /\ stack \in Seq(g.verts) /\ sorted \in Seq(g.verts) /\ rest \in Seq(g.verts)
  /\ printed \in Seq(({"code"} \X g.verts) \cup ({"header"} \X Files))

\* What the searches reach is what the requested code needs, transitively, and
\* nothing else: several targets with overlapping closures, cycles, and edges the
\* filter hides lose nothing and add nothing.
ReachedExactly ==
  phase # "search" => reached = Reach(g.verts, SearchEdges, targets)

\* In the order found, what a vertex depends on or must follow stands before it:
\* before the first cycle is met, all of it; after that, all but what its own cycle
\* contains.
DependenciesFirst ==
  \A i \in DOMAIN sorted : \A e \in SortEdges :
    e[1] = sorted[i] => \E j \in 1 .. i - 1 : sorted[j] = e[2]

\* "cycle(s) found in dependency graph" is only said of a graph that has a cycle.
CycleIsReal ==
  phase \in {"resort", "terminated"} =>
    \E e \in TopoEdges : e[1] \in Reach(g.verts, TopoEdges, {e[2]})

\* Without the edges inside its strongly connected components the graph can be
\* sorted, unless a vertex that is a component by itself has an edge to itself.
OnlySelfLoopsAreFatal ==
  phase = "terminated" => \E v \in g.verts : <<v, v>> \in TopoEdges \ CycleEdges

\* The output is complete and has no duplicates: every reached vertex with text is
\* printed once, or its header is.
PrintedOnce ==
  (phase = "done" /\ targets # {}) =>
    /\ \A v \in reached : (Wanted(v) /\ ~AsHeader(v) /\ v.f \notin ExcludedFiles) =>
         \E i \in DOMAIN printed : printed[i] = <<"code", v>>
    /\ \A v \in reached : (Wanted(v) /\ AsHeader(v) /\ TopLevel[v.f] # None) =>
         \E i \in DOMAIN printed : printed[i] = <<"header", TopLevel[v.f]>>
    /\ \A i, j \in DOMAIN printed : printed[i] = printed[j] => i = j

\* In the output, no definition comes after code that needs it, cycles apart.
PrintedInOrder ==
  \A e \in TopoEdges \ CycleEdges : \A i, j \in DOMAIN printed :
    printed[i] = <<"code", e[1]>> /\ printed[j] = <<"code", e[2]>> /\ e[1] # e[2] => j < i

\* The search, the two sorts and the printing end.
Terminates == <>(phase \in {"terminated", "done"})

=============================================================================
