----------------------------- MODULE Collector ------------------------------
(***************************************************************************)
(* class collector (collect/src/collect.cpp) as its callers see it: any    *)
(* sequence of calls while clang lexes and parses, then finalize, then the *)
(* fix-up of static functions that write_carbon_output begins with.  The   *)
(* plugin that makes the calls is module Plugin.                           *)
(***************************************************************************)
EXTENDS CodeLoop, Sequences

CONSTANTS Symbols,      \* names of functions and variables
          CallRanges,   \* the ranges, and
          CallPositions,\* the positions, that calls mention
          MaxCalls      \* bound on the number of calls before finalize

ASSUME CallAssumption == /\ CallRanges \subseteq SourceRange
                         /\ CallPositions \subseteq Pos
                         /\ MaxCalls \in Nat

VARIABLES g,          \* res: the dependency graph
          syms,       \* depctx.glbl_defs, glbl_decls, static_defs, static_decls
          inclusions, \* every #include: where, and of which file
          fileIncs,   \* includes of the entire-file vertices
          extra,      \* uses and #endif's put off until finalize
          phase,      \* how far finalize and write_carbon_output have got
          calls,      \* number of calls so far
          uses        \* history: the pairs of positions of every use recorded

vars == <<g, syms, inclusions, fileIncs, extra, phase, calls, uses>>

SymKinds == {"glbl_defs", "glbl_decls", "static_defs", "static_decls"}
LaterUse == Pos \X SourceRange
Phases == {"collect", "defined", "ifndef", "ifdef", "inclusions", "endif",
           "fixup", "done"}

-----------------------------------------------------------------------------
Init == /\ g = EmptyGraph
        /\ syms = [kind \in SymKinds |-> {}]
        /\ inclusions = {}
        /\ fileIncs = {}
        /\ extra = [defined |-> <<>>, ifndef |-> <<>>, ifdef |-> <<>>, endif |-> <<>>]
        /\ phase = "collect"
        /\ calls = 0
        /\ uses = {}

Call == phase = "collect" /\ calls < MaxCalls /\ calls' = calls + 1

AddCode(r) ==
  /\ Call
  /\ g' = Code(g, r)
  /\ UNCHANGED <<syms, inclusions, fileIncs, extra, phase, uses>>

UseCode(user, usee) ==
  /\ Call
  /\ g' = Use(g, user, usee)
  /\ uses' = uses \cup {<<Begin(user), Begin(usee)>>}
  /\ UNCHANGED <<syms, inclusions, fileIncs, extra, phase>>

Follow(prior, following) ==
  /\ Call
  /\ g' \in FollowUsersOf(g, prior, following)
  /\ UNCHANGED <<syms, inclusions, fileIncs, extra, phase, uses>>

\* A second definition of a global replaces the first; the other tables are sets.
NoteSymbol(tables, kind, s, x) ==
  [tables EXCEPT ![kind] = {e \in @ : kind = "glbl_defs" => e[1] # s} \cup {<<s, x>>}]

\* Mutant: the symbol is noted and its range is not marked as code.
SymbolOnly(kind, r, s) ==
  /\ Call
  /\ syms' = NoteSymbol(syms, kind, s, Begin(r))
  /\ UNCHANGED <<g, inclusions, fileIncs, extra, phase, uses>>

SymbolCode(kind, r, s) ==
  /\ Call
  /\ g' = Code(g, r)
  /\ syms' = NoteSymbol(syms, kind, s, Begin(r))
  /\ UNCHANGED <<inclusions, fileIncs, extra, phase, uses>>

GlobalCode(r, s, isDefinition) ==
  SymbolCode(IF isDefinition THEN "glbl_defs" ELSE "glbl_decls", r, s)

StaticCode(r, s, isDefinition) ==
  SymbolCode(IF isDefinition THEN "static_defs" ELSE "static_decls", r, s)

Inclusion(x, f) ==
  /\ Call
  /\ inclusions' = inclusions \cup {<<x, f>>}
  /\ UNCHANGED <<g, syms, fileIncs, extra, phase, uses>>

\* ifdef, ifndef, defined: put off, "because we only want to consider those uses
\* which fall within top-level declarations".
Conditional(list, x, r) ==
  /\ Call
  /\ extra' = [extra EXCEPT ![list] = Append(@, <<x, r>>)]
  /\ UNCHANGED <<g, syms, inclusions, fileIncs, phase, uses>>

Endif(r) ==
  /\ Call
  /\ extra' = [extra EXCEPT !.endif = Append(@, r)]
  /\ UNCHANGED <<g, syms, inclusions, fileIncs, phase, uses>>

-----------------------------------------------------------------------------
(* finalize: its loops, one iteration per step, and nothing else runs.     *)

Finalize ==
  /\ phase = "collect"
  /\ phase' = "defined"
  /\ UNCHANGED <<g, syms, inclusions, fileIncs, extra, calls, uses>>

Following(list) == CASE list = "defined" -> "ifndef"
                     [] list = "ifndef"  -> "ifdef"
                     [] list = "ifdef"   -> "inclusions"

\* process_extra_uses, the next element of a list.
ExtraUse(list) ==
  /\ phase = list
  /\ extra[list] # <<>>
  /\ LET x == Head(extra[list])[1]
         usee == Head(extra[list])[2]
     IN /\ g' = UseIfUserExists(g, x, usee)
        /\ uses' = IF Covered(g'.verts, x) THEN uses \cup {<<x, Begin(usee)>>} ELSE uses
  /\ extra' = [extra EXCEPT ![list] = Tail(@)]
  /\ UNCHANGED <<syms, inclusions, fileIncs, phase, calls>>

ExtraUsesDone(list) ==
  /\ phase = list
  /\ extra[list] = <<>>
  /\ phase' = Following(list)
  /\ UNCHANGED <<g, syms, inclusions, fileIncs, extra, calls, uses>>

\* process_inclusions: the vertex an #include falls in has its offset from the
\* start of the vertex, the entire file has its absolute position.
ProcessInclusions ==
  /\ phase = "inclusions"
  /\ phase' = "endif"
  /\ fileIncs' = fileIncs \cup inclusions
  /\ g' = [g EXCEPT !.incs =
             [v \in g.verts |-> @[v] \cup {<<i[1].p - v.beg, i[2]>> :
                                  i \in {j \in inclusions : Within(j[1], v)}}]]
  /\ UNCHANGED <<syms, inclusions, extra, calls, uses>>

\* An #endif whose range holds an #include of the same file is ignored.
ProcessEndif ==
  /\ phase = "endif"
  /\ extra.endif # <<>>
  /\ LET r == Head(extra.endif)
     IN g' = IF \E i \in fileIncs : Within(i[1], r) THEN g ELSE CodeIfExists(g, r)
  /\ extra' = [extra EXCEPT !.endif = Tail(@)]
  /\ UNCHANGED <<syms, inclusions, fileIncs, phase, calls, uses>>

FinalizeDone ==
  /\ phase = "endif"
  /\ extra.endif = <<>>
  /\ phase' = "fixup"
  /\ UNCHANGED <<g, syms, inclusions, fileIncs, extra, calls, uses>>

\* fixup_static_functions: which definition a static declaration gets when
\* there are several is the first of a set whose order is not an order.
Definitions(s) ==
  LET static == {d \in syms["static_defs"] : d[1] = s}
  IN IF static # {} THEN static ELSE {d \in syms["glbl_defs"] : d[1] = s}

Resolvable == {s \in Symbols : Definitions(s) # {}}

\* From the vertex of every static declaration to that of the definition chosen.
FixupEdges(V, def) ==
  {<<At(V, d[2]), At(V, def[d[1]])>> :
      d \in {e \in syms["static_decls"] : /\ e[1] \in Resolvable
                                         /\ Covered(V, def[e[1]])
                                         /\ Covered(V, e[2])}}

FixupStaticFunctions ==
  /\ phase = "fixup"
  /\ \E def \in [Resolvable -> {d[2] : d \in syms["static_defs"] \cup syms["glbl_defs"]}] :
       /\ \A s \in Resolvable : <<s, def[s]>> \in Definitions(s)
       /\ g' = PutEdges(g, FixupEdges(g.verts, def), "FWD_DECL")
  /\ phase' = "done"
  /\ UNCHANGED <<syms, inclusions, fileIncs, extra, calls, uses>>

-----------------------------------------------------------------------------
Collect ==
  \/ \E r \in CallRanges : AddCode(r)
  \/ \E r, s \in CallRanges : UseCode(r, s)
  \/ \E r, s \in CallRanges : Follow(r, s)
  \/ \E r \in CallRanges, s \in Symbols, d \in BOOLEAN : GlobalCode(r, s, d)
  \/ \E r \in CallRanges, s \in Symbols, d \in BOOLEAN : StaticCode(r, s, d)
  \/ \E x \in CallPositions, f \in Files : Inclusion(x, f)
  \/ \E x \in CallPositions, r \in CallRanges, list \in {"defined", "ifndef", "ifdef"} :
       Conditional(list, x, r)
  \/ \E r \in CallRanges : Endif(r)

FinalizeStep ==
  \/ Finalize
  \/ \E list \in {"defined", "ifndef", "ifdef"} : ExtraUse(list) \/ ExtraUsesDone(list)
  \/ ProcessInclusions
  \/ ProcessEndif
  \/ FinalizeDone
  \/ FixupStaticFunctions

Next == Collect \/ FinalizeStep

Spec == Init /\ [][Next]_vars

-----------------------------------------------------------------------------
(* Properties                                                              *)

\* Types; in particular an edge only joins vertices of the graph.
TypeOK == /\ IsGraph(g)
          /\ syms \in [SymKinds -> SUBSET (Symbols \X Pos)]
          /\ inclusions \subseteq Pos \X Files
          /\ fileIncs \subseteq Pos \X Files
          /\ extra \in [defined : Seq(LaterUse), ifndef : Seq(LaterUse),
                       ifdef : Seq(LaterUse), endif : Seq(SourceRange)]
          /\ phase \in Phases
          /\ calls \in 0 .. MaxCalls
          /\ uses \subseteq Pos \X Pos

\* The vertices of a file never overlap, so that the interval map has at most one
\* vertex at a position (the assertions container.size() == 1 of use and code).
Disjoint == NoOverlap(g.verts)

\* What is code in one inclusion of a file is code, in no smaller a piece, in
\* every lower band: band 0, which positions given on the command line refer to,
\* has everything, and code<true> may stop at the first band without overlap.
BandClosed == Closed(g.verts)

\* No merge, no reversed use and no later call loses a use altogether: user and
\* usee are in one vertex or an edge still joins their vertices, in one of the
\* two directions.
UsesConnected == \A u \in uses : Connected(g, u[1], u[2])

\* Every symbol's location is inside a vertex: the lookups of fixup_static_functions
\* and of the extractor cannot miss ("warning (bug): ... not found in source ranges
\* map").
SymbolsLocated == \A kind \in SymKinds : \A d \in syms[kind] : Covered(g.verts, d[2])

\* The includes of a vertex, which merges re-base to the new start, are #include's
\* that were seen at that position and lie inside the vertex.
IncludesInside == IncludesIn(g, inclusions)

\* Before process_inclusions and after it, the closed form of code is what the loop of
\* the source computes: the vertices, the type every edge is left with, the re-based
\* includes, in every band, for both variants of code.
CodeIsTheLoop ==
  phase \in {"collect", "endif"} =>
    \A r \in CallRanges : /\ Code(g, r) = LoopCode(g, r, FALSE)
                          /\ CodeIfExists(g, r) = LoopCode(g, r, TRUE)

\* A piece of code never shrinks: whatever a vertex covered stays inside one
\* vertex, through every merge and through finalize.
NeverShrinks == [][\A v \in g.verts : \E w \in g'.verts : Encloses(w, v)]_vars

=============================================================================
