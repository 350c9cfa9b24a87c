--------------------------- MODULE CollectorProofs --------------------------
(***************************************************************************)
(* The invariants of Collector hold for every translation unit and every   *)
(* sequence of calls.  Inv is inductive: the closure of the bands and the  *)
(* absence of overlaps are needed for one another and for the edges.       *)
(***************************************************************************)
EXTENDS Collector, DepGraphProofs

Inv == /\ TypeOK /\ Disjoint /\ BandClosed /\ UsesConnected /\ SymbolsLocated
       /\ IncludesInside

\* A step that replaces g by a graph that keeps it, and leaves the tables and the
\* recorded uses alone.
Grows == Good(g') /\ Keeps(g, g')

LEMMA InvIsGood == Inv => Good(g) /\ IsGraph(g)
BY DEF Inv, TypeOK, Disjoint, BandClosed, Good

LEMMA GrowsKeeps ==
  ASSUME Inv, Grows
  PROVE  /\ IsGraph(g)' /\ Disjoint' /\ BandClosed'
         /\ \A v \in g.verts : \E w \in g'.verts : Encloses(w, v)
         /\ \A x \in Pos : Covered(g.verts, x) => Covered(g'.verts, x)
         /\ \A x, y \in Pos : Connected(g, x, y) => Connected(g', x, y)
         /\ \A I : IncludesIn(g, I) => IncludesIn(g', I)
<1>1. Good(g) /\ IsGraph(g) /\ IsGraph(g') BY InvIsGood DEF Grows, Good
<1>2. \A x \in Pos : Covered(g.verts, x) => Covered(g'.verts, x)
  BY <1>1, KeepsCovered DEF Grows
<1> QED BY <1>1, <1>2, Zenon DEF Grows, Good, Disjoint, BandClosed, Keeps

LEMMA SameGrows ==
  ASSUME Inv, UNCHANGED g
  PROVE  Grows
BY InvIsGood, KeepsReflexive DEF Grows

LEMMA InitInv == Init => Inv
<1> SUFFICES ASSUME Init PROVE Inv
  OBVIOUS
<1>1. g.verts = {} /\ DOMAIN g.edge = {} /\ DOMAIN g.incs = {} BY DEF Init, EmptyGraph
<1>2. IsGraph(g) BY <1>1 DEF IsGraph, Init, EmptyGraph
<1>3. TypeOK BY <1>2, CallAssumption DEF TypeOK, Init, Phases, SymKinds
<1>4. Disjoint /\ BandClosed /\ IncludesInside
  BY <1>1 DEF Disjoint, NoOverlap, BandClosed, Closed, IncludesInside, IncludesIn
<1>5. UsesConnected /\ SymbolsLocated BY DEF UsesConnected, SymbolsLocated, Init
<1> QED BY <1>3, <1>4, <1>5 DEF Inv

\* Any call with any range and position, whether Collector's runs make it or not.
AnyCall ==
  \/ \E r \in SourceRange : AddCode(r)
  \/ \E r, s \in SourceRange : UseCode(r, s)
  \/ \E r, s \in SourceRange : Follow(r, s)
  \/ \E r \in SourceRange, s \in Symbols, d \in BOOLEAN : GlobalCode(r, s, d)
  \/ \E r \in SourceRange, s \in Symbols, d \in BOOLEAN : StaticCode(r, s, d)
  \/ \E x \in Pos, f \in Files : Inclusion(x, f)
  \/ \E x \in Pos, r \in SourceRange, list \in {"defined", "ifndef", "ifdef"} :
       Conditional(list, x, r)
  \/ \E r \in SourceRange : Endif(r)

LEMMA CollectIsCall == Collect => AnyCall
BY CallAssumption DEF Collect, AnyCall

\* Every step but process_inclusions grows the graph.
LEMMA CallGrows ==
  ASSUME Inv, AnyCall
  PROVE  Grows
<1>1. Good(g) BY InvIsGood
<1>2. ASSUME NEW r \in SourceRange, AddCode(r) PROVE Grows
  BY <1>1, <1>2, CodeGood DEF AddCode, Grows
<1>3. ASSUME NEW r \in SourceRange, NEW s \in SourceRange, UseCode(r, s) PROVE Grows
  BY <1>1, <1>3, UseGood DEF UseCode, Grows
<1>4. ASSUME NEW r \in SourceRange, NEW s \in SourceRange, Follow(r, s) PROVE Grows
  BY <1>1, <1>4, FollowUsersOfGood DEF Follow, Grows
<1>5. ASSUME NEW r \in SourceRange, NEW s \in Symbols, NEW kind, SymbolCode(kind, r, s) PROVE Grows
  BY <1>1, <1>5, CodeGood DEF SymbolCode, Grows
<1>6. ASSUME NEW r \in SourceRange, NEW s \in Symbols, NEW d \in BOOLEAN,
             GlobalCode(r, s, d) \/ StaticCode(r, s, d)
      PROVE  Grows
  BY <1>5, <1>6 DEF GlobalCode, StaticCode
<1>7. ASSUME NEW x, NEW f, Inclusion(x, f) PROVE Grows
  BY <1>7, SameGrows DEF Inclusion
<1>8. ASSUME NEW x, NEW r, NEW list, Conditional(list, x, r) PROVE Grows
  BY <1>8, SameGrows DEF Conditional
<1>9. ASSUME NEW r, Endif(r) PROVE Grows
  BY <1>9, SameGrows DEF Endif
<1> QED BY <1>2, <1>3, <1>4, <1>6, <1>7, <1>8, <1>9 DEF AnyCall

-----------------------------------------------------------------------------
(* Steps that grow the graph preserve the invariant when what they add to   *)
(* the tables and to the recorded uses is in the graph.                     *)

ExtraOK == extra \in [defined : Seq(LaterUse), ifndef : Seq(LaterUse),
                      ifdef : Seq(LaterUse), endif : Seq(SourceRange)]

SymsOK == syms \in [SymKinds -> SUBSET (Symbols \X Pos)]

LEMMA GrowsInv ==
  ASSUME Inv, Grows,
         SymsOK',
         \A kind \in SymKinds : \A d \in syms'[kind] :
            d \in syms[kind] \/ Covered(g'.verts, d[2]),
         inclusions \subseteq inclusions', inclusions' \subseteq Pos \X Files,
         UNCHANGED fileIncs,
         ExtraOK', phase' \in Phases, calls' \in 0 .. MaxCalls,
         uses' \subseteq Pos \X Pos,
         \A u \in uses' : u \in uses \/ Connected(g', u[1], u[2])
  PROVE  Inv'
<1>1. /\ IsGraph(g)' /\ Disjoint' /\ BandClosed'
      /\ \A x \in Pos : Covered(g.verts, x) => Covered(g'.verts, x)
      /\ \A x, y \in Pos : Connected(g, x, y) => Connected(g', x, y)
      /\ \A I : IncludesIn(g, I) => IncludesIn(g', I)
  BY GrowsKeeps
<1>2. TypeOK' BY <1>1 DEF TypeOK, Inv, SymsOK, ExtraOK
<1>3. UsesConnected'
  <2> SUFFICES ASSUME NEW u \in uses' PROVE Connected(g', u[1], u[2])
    BY DEF UsesConnected
  <2>1. u[1] \in Pos /\ u[2] \in Pos OBVIOUS
  <2>2. u \in uses => Connected(g, u[1], u[2]) BY DEF Inv, UsesConnected
  <2> QED BY <1>1, <2>1, <2>2
<1>4. SymbolsLocated'
  <2> SUFFICES ASSUME NEW kind \in SymKinds, NEW d \in syms'[kind]
               PROVE  Covered(g'.verts, d[2])
    BY DEF SymbolsLocated
  <2>1. d[2] \in Pos BY DEF SymsOK
  <2>2. d \in syms[kind] => Covered(g.verts, d[2]) BY DEF Inv, SymbolsLocated
  <2> QED BY <1>1, <2>1, <2>2
<1>5. IncludesInside'
  <2>1. IncludesIn(g', inclusions) BY <1>1 DEF Inv, IncludesInside
  <2> QED BY <2>1 DEF IncludesInside, IncludesIn
<1> QED BY <1>1, <1>2, <1>3, <1>4, <1>5 DEF Inv

LEMMA CallInv ==
  ASSUME Inv, AnyCall
  PROVE  Inv'
<1> USE DEF SymsOK, ExtraOK
<1>1. Grows BY CallGrows
<1>2. TypeOK /\ SymsOK /\ ExtraOK BY DEF Inv, TypeOK
<1>3. calls' \in 0 .. MaxCalls /\ phase = "collect"
  <2>1. Call
    BY DEF AnyCall, AddCode, UseCode, Follow, GlobalCode, StaticCode, SymbolCode,
           Inclusion, Conditional, Endif
  <2> QED BY <1>2, <2>1, CallAssumption DEF Call, TypeOK
<1>4. \A r \in SourceRange : Begin(r) \in Pos
  BY DEF Begin, Pos, SourceRange
<1>5. ASSUME NEW r \in SourceRange, AddCode(r) PROVE Inv'
  BY <1>1, <1>2, <1>3, <1>5, GrowsInv DEF AddCode, TypeOK
<1>6. ASSUME NEW r \in SourceRange, NEW s \in SourceRange, UseCode(r, s) PROVE Inv'
  <2>1. Connected(g', Begin(r), Begin(s))
    BY <1>6, InvIsGood, UseGood DEF UseCode
  <2> QED BY <1>1, <1>2, <1>3, <1>4, <1>6, <2>1, GrowsInv DEF UseCode, TypeOK
<1>7. ASSUME NEW r \in SourceRange, NEW s \in SourceRange, Follow(r, s) PROVE Inv'
  BY <1>1, <1>2, <1>3, <1>7, GrowsInv DEF Follow, TypeOK
<1>8. ASSUME NEW r \in SourceRange, NEW s \in Symbols, NEW kind \in SymKinds,
             SymbolCode(kind, r, s)
      PROVE  Inv'
  <2>1. Covered(g'.verts, Begin(r))
    BY <1>8, InvIsGood, CodeGood DEF SymbolCode
  <2>2. \A k \in SymKinds : \A d \in syms'[k] : d \in syms[k] \/ d = <<s, Begin(r)>>
    BY <1>8 DEF SymbolCode, NoteSymbol
  <2>3. \A k \in SymKinds : \A d \in syms'[k] : d \in syms[k] \/ Covered(g'.verts, d[2])
    BY <2>1, <2>2
  <2>4. SymsOK'
    <3>1. <<s, Begin(r)>> \in Symbols \X Pos BY <1>4
    <3>2. syms' = [syms EXCEPT ![kind] = {e \in @ : kind = "glbl_defs" => e[1] # s}
                                            \cup {<<s, Begin(r)>>}]
      BY <1>8 DEF SymbolCode, NoteSymbol
    <3> QED BY <1>2, <3>1, <3>2
  <2> QED BY <1>1, <1>2, <1>3, <1>8, <2>3, <2>4, GrowsInv DEF SymbolCode, TypeOK
<1>9. ASSUME NEW r \in SourceRange, NEW s \in Symbols, NEW d \in BOOLEAN,
             GlobalCode(r, s, d) \/ StaticCode(r, s, d)
      PROVE  Inv'
  BY <1>8, <1>9 DEF GlobalCode, StaticCode, SymKinds
<1>10. ASSUME NEW x \in Pos, NEW f \in Files, Inclusion(x, f) PROVE Inv'
  BY <1>1, <1>2, <1>3, <1>10, GrowsInv DEF Inclusion, TypeOK
<1>11. ASSUME NEW x \in Pos, NEW r \in SourceRange,
              NEW list \in {"defined", "ifndef", "ifdef"}, Conditional(list, x, r)
       PROVE  Inv'
  <2>1. <<x, r>> \in LaterUse BY DEF LaterUse
  <2>2. ExtraOK'
    <3>1. extra' = [extra EXCEPT ![list] = Append(@, <<x, r>>)] BY <1>11 DEF Conditional
    <3>2. extra[list] \in Seq(LaterUse) BY <1>2
    <3> HIDE DEF LaterUse
    <3>3. Append(extra[list], <<x, r>>) \in Seq(LaterUse) BY <2>1, <3>2
    <3> QED BY <1>2, <3>1, <3>3
  <2> QED BY <1>1, <1>2, <1>3, <1>11, <2>2, GrowsInv DEF Conditional, TypeOK
<1>12. ASSUME NEW r \in SourceRange, Endif(r) PROVE Inv'
  <2>1. Append(extra.endif, r) \in Seq(SourceRange) BY <1>2
  <2>2. ExtraOK' BY <1>2, <1>12, <2>1 DEF Endif
  <2> QED BY <1>1, <1>2, <1>3, <1>12, <2>2, GrowsInv DEF Endif, TypeOK
<1> QED BY <1>5, <1>6, <1>7, <1>9, <1>10, <1>11, <1>12 DEF AnyCall

-----------------------------------------------------------------------------
(* finalize and the fix-up of static functions.                            *)

LEMMA ProcessInclusionsInv ==
  ASSUME Inv, ProcessInclusions
  PROVE  Inv' /\ \A v \in g.verts : \E w \in g'.verts : Encloses(w, v)
<1> DEFINE new(v) == {<<i[1].p - v.beg, i[2]>> : i \in {j \in inclusions : Within(j[1], v)}}
<1>1. g = [verts |-> g.verts, edge |-> g.edge, incs |-> g.incs] BY DEF Inv, TypeOK, IsGraph
<1>2. /\ g' = [verts |-> g.verts, edge |-> g.edge,
               incs |-> [v \in g.verts |-> g.incs[v] \cup new(v)]]
      /\ inclusions' = inclusions /\ fileIncs' = fileIncs \cup inclusions
      /\ phase' = "endif"
      /\ UNCHANGED <<syms, extra, calls, uses>>
  BY <1>1 DEF ProcessInclusions
<1>3. g'.verts = g.verts /\ g'.edge = g.edge BY <1>2
<1>4. ASSUME NEW v \in g.verts, NEW i \in new(v)
      PROVE  /\ i \in Nat \X Files
             /\ LET x == [f |-> v.f, k |-> v.k, p |-> v.beg + i[1]]
                IN Within(x, v) /\ <<x, i[2]>> \in inclusions
  <2>1. PICK j \in inclusions : Within(j[1], v) /\ i = <<j[1].p - v.beg, j[2]>> OBVIOUS
  <2>2. v \in SourceRange /\ j[1] \in Pos /\ j[2] \in Files /\ j = <<j[1], j[2]>>
    BY DEF Inv, TypeOK, IsGraph
  <2>3. /\ j[1].f = v.f /\ j[1].k = v.k /\ v.beg <= j[1].p
        /\ v.beg \in Nat /\ j[1].p \in Nat
    BY <2>1, <2>2 DEF Within, SourceRange, Pos
  <2>4. j[1].p - v.beg \in Nat /\ v.beg + (j[1].p - v.beg) = j[1].p BY <2>3
  <2>5. j[1] = [f |-> v.f, k |-> v.k, p |-> j[1].p] BY <2>2, <2>3 DEF Pos
  <2> QED BY <2>1, <2>2, <2>4, <2>5
<1>5. IsGraph(g)'
  <2>1. \A v \in g.verts : g'.incs[v] \subseteq Nat \X Files
    BY <1>2, <1>4 DEF Inv, TypeOK, IsGraph
  <2>2. g'.incs \in [g.verts -> SUBSET (Nat \X Files)] BY <1>2, <2>1
  <2>3. g' = [verts |-> g'.verts, edge |-> g'.edge, incs |-> g'.incs] BY <1>2
  <2>4. IsGraph(g) BY DEF Inv, TypeOK
  <2> QED BY <1>3, <2>2, <2>3, <2>4 DEF IsGraph
<1>6. TypeOK' BY <1>2, <1>5 DEF Inv, TypeOK, Phases
<1>7. Disjoint' /\ BandClosed' /\ UsesConnected' /\ SymbolsLocated'
  BY <1>2, <1>3 DEF Inv, Disjoint, BandClosed, UsesConnected, Connected, SymbolsLocated
<1>8. IncludesInside'
  <2>1. \A v \in g.verts : \A i \in g'.incs[v] : i \in g.incs[v] \/ i \in new(v)
    BY <1>2
  <2>2. ASSUME NEW v \in g.verts, NEW i \in g'.incs[v]
        PROVE  LET x == [f |-> v.f, k |-> v.k, p |-> v.beg + i[1]]
               IN Within(x, v) /\ <<x, i[2]>> \in inclusions
    <3>1. CASE i \in new(v) BY <1>4, <3>1
    <3>2. CASE i \in g.incs[v] BY <3>2 DEF Inv, IncludesInside, IncludesIn
    <3> QED BY <2>1, <3>1, <3>2
  <2>3. inclusions' = inclusions BY <1>2
  <2> QED BY <1>3, <2>2, <2>3 DEF IncludesInside, IncludesIn
<1>9. \A v \in g.verts : \E w \in g'.verts : Encloses(w, v)
  <2>1. \A v \in g.verts : Encloses(v, v)
    BY DEF Inv, TypeOK, IsGraph, Encloses, SourceRange
  <2> QED BY <1>3, <2>1
<1> QED BY <1>6, <1>7, <1>8, <1>9 DEF Inv

LEMMA FixupGrows ==
  ASSUME Inv, FixupStaticFunctions
  PROVE  Grows
<1>1. PICK def : g' = PutEdges(g, FixupEdges(g.verts, def), "FWD_DECL")
  BY DEF FixupStaticFunctions
<1>2. FixupEdges(g.verts, def) \in SUBSET (g.verts \X g.verts)
  BY AtFinds DEF FixupEdges
<1> QED BY <1>1, <1>2, InvIsGood, PutEdgesGood DEF Grows, EdgeTypes

LEMMA ExtraUseGrows ==
  ASSUME Inv, NEW list \in {"defined", "ifndef", "ifdef"}, ExtraUse(list)
  PROVE  Inv' /\ Grows
<1> DEFINE x == Head(extra[list])[1]
           usee == Head(extra[list])[2]
<1>1. extra[list] \in Seq(LaterUse) /\ extra[list] # <<>>
  BY DEF Inv, TypeOK, ExtraUse
<1>2. Head(extra[list]) \in LaterUse /\ Tail(extra[list]) \in Seq(LaterUse) BY <1>1
<1>3. x \in Pos /\ usee \in SourceRange BY <1>2 DEF LaterUse
<1>4. /\ g' = UseIfUserExists(g, x, usee)
      /\ uses' = IF Covered(g'.verts, x) THEN uses \cup {<<x, Begin(usee)>>} ELSE uses
      /\ extra' = [extra EXCEPT ![list] = Tail(@)]
      /\ UNCHANGED <<syms, inclusions, fileIncs, phase, calls>>
  BY DEF ExtraUse
<1> HIDE DEF x, usee
<1>5. Grows /\ (Covered(g'.verts, x) => Connected(g', x, Begin(usee)))
  BY <1>3, <1>4, InvIsGood, UseIfUserExistsGood DEF Grows
<1>6. ExtraOK' BY <1>2, <1>4 DEF Inv, TypeOK, ExtraOK
<1>7. Begin(usee) \in Pos BY <1>3 DEF Begin, Pos, SourceRange
<1>8. /\ uses' \subseteq Pos \X Pos
      /\ \A u \in uses' : u \in uses \/ Connected(g', u[1], u[2])
  BY <1>3, <1>4, <1>5, <1>7 DEF Inv, TypeOK
<1> QED BY <1>4, <1>5, <1>6, <1>8, GrowsInv DEF Inv, TypeOK, SymsOK

LEMMA ProcessEndifGrows ==
  ASSUME Inv, ProcessEndif
  PROVE  Inv' /\ Grows
<1> DEFINE r == Head(extra.endif)
<1>1. extra.endif \in Seq(SourceRange) /\ extra.endif # <<>>
  BY DEF Inv, TypeOK, ProcessEndif
<1>2. r \in SourceRange /\ Tail(extra.endif) \in Seq(SourceRange) BY <1>1
<1>3. g' = g \/ g' = CodeIfExists(g, r) BY DEF ProcessEndif
<1>4. Grows BY <1>2, <1>3, InvIsGood, SameGrows, CodeIfExistsGood DEF Grows
<1>5. ExtraOK' BY <1>2 DEF ProcessEndif, Inv, TypeOK, ExtraOK
<1> QED BY <1>4, <1>5, GrowsInv DEF ProcessEndif, Inv, TypeOK, SymsOK

LEMMA FinalizeInv ==
  ASSUME Inv, FinalizeStep
  PROVE  Inv' /\ \A v \in g.verts : \E w \in g'.verts : Encloses(w, v)
<1> USE DEF SymsOK, ExtraOK
<1>1. TypeOK /\ SymsOK /\ ExtraOK BY DEF Inv, TypeOK
<1>2. CASE Finalize
  BY <1>1, <1>2, SameGrows, GrowsInv, GrowsKeeps DEF Finalize, TypeOK, Phases
<1>3. ASSUME NEW list \in {"defined", "ifndef", "ifdef"}, ExtraUse(list)
      PROVE  Inv' /\ Grows
  BY <1>3, ExtraUseGrows
<1>4. ASSUME NEW list \in {"defined", "ifndef", "ifdef"}, ExtraUsesDone(list)
      PROVE  Inv' /\ Grows
  <2>1. Following(list) \in Phases BY DEF Following, Phases
  <2> QED BY <1>1, <1>4, <2>1, SameGrows, GrowsInv DEF ExtraUsesDone, TypeOK
<1>5. CASE ProcessInclusions BY <1>5, ProcessInclusionsInv
<1>6. CASE ProcessEndif BY <1>6, ProcessEndifGrows, GrowsKeeps
<1>7. CASE FinalizeDone
  BY <1>1, <1>7, SameGrows, GrowsInv, GrowsKeeps DEF FinalizeDone, TypeOK, Phases
<1>8. CASE FixupStaticFunctions
  BY <1>1, <1>8, FixupGrows, GrowsInv, GrowsKeeps DEF FixupStaticFunctions, TypeOK, Phases
<1> QED BY <1>2, <1>3, <1>4, <1>5, <1>6, <1>7, <1>8, GrowsKeeps DEF FinalizeStep

LEMMA StutterInv ==
  ASSUME Inv, UNCHANGED vars
  PROVE  Inv' /\ \A v \in g.verts : \E w \in g'.verts : Encloses(w, v)
<1>1. Grows BY SameGrows DEF vars
<1> QED BY <1>1, GrowsInv, GrowsKeeps DEF Inv, TypeOK, vars, SymsOK, ExtraOK

LEMMA NextInv ==
  ASSUME Inv, [Next]_vars
  PROVE  Inv' /\ \A v \in g.verts : \E w \in g'.verts : Encloses(w, v)
<1>1. CASE Collect BY <1>1, CollectIsCall, CallInv, CallGrows, GrowsKeeps
<1>2. CASE FinalizeStep BY <1>2, FinalizeInv
<1>3. CASE UNCHANGED vars BY <1>3, StutterInv
<1> QED BY <1>1, <1>2, <1>3 DEF Next

-----------------------------------------------------------------------------
LEMMA Invariance == Spec => []Inv
<1>1. Init => Inv BY InitInv
<1>2. Inv /\ [Next]_vars => Inv' BY NextInv
<1> QED BY <1>1, <1>2, PTL DEF Spec

\* Types, in particular that an edge only joins vertices, for every program.
THEOREM TypeCorrect == Spec => []TypeOK
<1>1. Inv => TypeOK BY DEF Inv
<1> QED BY <1>1, Invariance, PTL

\* No two vertices ever overlap: the assertions of collect.cpp that at most one
\* vertex is at a position hold.
THEOREM NoTwoVerticesOverlap == Spec => []Disjoint
<1>1. Inv => Disjoint BY DEF Inv
<1> QED BY <1>1, Invariance, PTL

\* What is code in a band is code in every lower band.
THEOREM LowerBandsHaveEverything == Spec => []BandClosed
<1>1. Inv => BandClosed BY DEF Inv
<1> QED BY <1>1, Invariance, PTL

\* However vertices merge and edges are turned around, a use that was recorded
\* stays recorded, in one direction or the other.
THEOREM NoUseIsLost == Spec => []UsesConnected
<1>1. Inv => UsesConnected BY DEF Inv
<1> QED BY <1>1, Invariance, PTL

\* The position of every symbol of the tables is inside a vertex.
THEOREM EverySymbolHasItsVertex == Spec => []SymbolsLocated
<1>1. Inv => SymbolsLocated BY DEF Inv
<1> QED BY <1>1, Invariance, PTL

\* Re-basing the includes of merged vertices never moves one.
THEOREM IncludesStayInPlace == Spec => []IncludesInside
<1>1. Inv => IncludesInside BY DEF Inv
<1> QED BY <1>1, Invariance, PTL

\* Of every reachable graph, the closed form of code is what the loop of the source
\* computes, with and without OnlyIfAlreadyExists: whatever overlaps what, however many
\* bands there are and whichever types the edges have.
THEOREM CodeComputesItsClosedForm == Spec => []CodeIsTheLoop
<1>1. Inv => CodeIsTheLoop
  <2> SUFFICES ASSUME Inv, NEW r \in CallRanges
               PROVE  /\ Code(g, r) = LoopCode(g, r, FALSE)
                      /\ CodeIfExists(g, r) = LoopCode(g, r, TRUE)
    BY DEF CodeIsTheLoop
  <2>1. IsGraph(g) /\ NoOverlap(g.verts) BY DEF Inv, TypeOK, Disjoint
  <2>2. r \in SourceRange BY CallAssumption
  <2> QED BY <2>1, <2>2, LoopIsCode
<1> QED BY <1>1, Invariance, PTL

\* No step takes text away from a vertex.
THEOREM VerticesOnlyGrow == Spec => NeverShrinks
<1>1. Inv /\ [Next]_vars => [\A v \in g.verts : \E w \in g'.verts : Encloses(w, v)]_vars
  BY NextInv
<1> QED BY <1>1, Invariance, PTL DEF Spec, NeverShrinks

=============================================================================
