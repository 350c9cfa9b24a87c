-------------------------------- MODULE Link --------------------------------
(***************************************************************************)
(* carbon-extract --link (extract/src/link.cpp): the collections of several *)
(* translation units become one dependency graph.  The files of each are    *)
(* renumbered to those of the result (relocate), its vertices, edges and    *)
(* tables are added (link_into), and in the end the declarations of every   *)
(* defined symbol are led to its definition (resolve_references).           *)
(*                                                                          *)
(* A collection is a record:                                                *)
(*   user, syst  the paths of its source files; file f >= 0 is user[f + 1], *)
(*               file f < 0 is syst[-f]                                     *)
(*   toplvl      parallel to syst, the header to #include for it            *)
(*   verts       ranges [f, beg, end], no two of which overlap; a range that *)
(*               stands for an entire file is a vertex like any other        *)
(*   edge        the type of every edge                                     *)
(*   incs        incs[v]: the #include's inside v, <<offset, file>>         *)
(*   defs        defs[s]: where s is defined, or None                       *)
(*   locs        locs[t][s]: the places of table t for s                    *)
(* Positions are absolute: the band of an inclusion and the offset in one.  *)
(*                                                                          *)
(* The order in which Boost and the hash tables hand out vertices, edges    *)
(* and symbols is left open.                                                *)
(***************************************************************************)
EXTENDS Integers, Sequences, FiniteSets

CONSTANTS Paths,        \* paths of source files
          Symbols,      \* names of functions and variables, no numbers
          Collections,  \* what a collection may be
          Inputs,       \* the collections --link reads, in the order of paths
          None

EdgeTypes == {"NORMAL", "FWD_DECL", "FOLLOWS"}
Tables == {"glbl_decls", "static_defs"}

\* source_file_t, in the tables of user and system files of a collection or of
\* the result.
FilesOf(us, sy) == -Len(sy) .. Len(us) - 1
PathOf(us, sy, f) == IF f < 0 THEN sy[-f] ELSE us[f + 1]

Ranges(F) == {r \in [f : F, beg : Int, end : Int] : r.beg < r.end}
Places(F) == [f : F, pos : Int]

Overlap(a, b) == a.f = b.f /\ a.beg < b.end /\ b.beg < a.end
Within(x, v) == x.f = v.f /\ v.beg <= x.pos /\ x.pos < v.end

\* What a collection is: the types of its parts, and no two vertices overlap.
IsCollection(c) ==
  LET F == FilesOf(c.user, c.syst)
  IN /\ c.user \in Seq(Paths) /\ c.syst \in Seq(Paths) /\ c.toplvl \in Seq(Paths)
     /\ Len(c.toplvl) = Len(c.syst)
     /\ c.verts \subseteq Ranges(F)
     /\ \A a, b \in c.verts : Overlap(a, b) => a = b
     /\ DOMAIN c.edge \subseteq c.verts \X c.verts
     /\ \A e \in DOMAIN c.edge : c.edge[e] \in EdgeTypes
     /\ DOMAIN c.incs = c.verts
     /\ \A v \in c.verts : c.incs[v] \subseteq Int \X F
     /\ c.defs \in [Symbols -> Places(F) \cup {None}]
     /\ c.locs \in [Tables -> [Symbols -> SUBSET Places(F)]]

ASSUME LinkAssumption == /\ \A c \in Collections : IsCollection(c)
                         /\ Inputs \subseteq Seq(Collections)
                         /\ \A s \in Symbols : s \notin Ranges(Int)
                         /\ None \notin Places(Int)

VARIABLES from,   \* the collections
          n,      \* how many of them have been read
          phase,  \* what link does with collection n
          fmap,   \* f_map: the files of collection n in the result
          left,   \* what of collection n that loop has still to look at
          user, syst, toplvl,   \* the file tables of the result
          verts, edge, incs,    \* its vertices, edges and #include's
          dummies,              \* the symbols that have a dummy vertex
          defs,                 \* glbl_defs
          locs                  \* glbl_decls and static_defs: the std::set of
                                \* places of a symbol, in its own order

files == <<user, syst, toplvl>>
graph == <<verts, edge, incs, dummies>>
tables == <<defs, locs>>
vars == <<from, n, phase, fmap, left, files, graph, tables>>

\* The collection being linked.
C == from[n]

\* A place or a range of the collection, in the numbering of the result.
Relocated(x) == [x EXCEPT !.f = fmap[x.f]]

-----------------------------------------------------------------------------
Init == /\ from \in Inputs /\ n = 0 /\ phase = "read"
        /\ fmap = [f \in {} |-> 0] /\ left = {}
        /\ user = <<>> /\ syst = <<>> /\ toplvl = <<>>
        /\ verts = {} /\ edge = [e \in {} |-> "NORMAL"] /\ incs = [v \in {} |-> {}]
        /\ dummies = {}
        /\ defs = [s \in Symbols |-> None]
        /\ locs = [t \in Tables |-> [s \in Symbols |-> <<>>]]

\* read_collection_file
Read ==
  /\ phase = "read" /\ n < Len(from)
  /\ n' = n + 1 /\ phase' = "files"
  /\ fmap' = [f \in {} |-> 0]
  /\ left' = FilesOf(from[n + 1].user, from[n + 1].syst)
  /\ UNCHANGED <<from, files, graph, tables>>

-----------------------------------------------------------------------------
(* relocate: the files of the collection, the user files first, each table  *)
(* in its order.  A path that the result has in the same table keeps its    *)
(* place there; another is appended, a system file with its top-level       *)
(* header.                                                                  *)

Files == phase = "files"

\* The first file that has no number yet.
NextFile(f) == /\ f \in left
               /\ \A e \in left : IF f < 0 THEN e <= f ELSE e < 0 \/ f <= e

Numbered(f, to) == [e \in DOMAIN fmap \cup {f} |-> IF e = f THEN to ELSE fmap[e]]

\* Mutant: a system file gets the number after the one it has.
SystFileOff(f) ==
  /\ Files /\ NextFile(f) /\ f < 0
  /\ left' = left \ {f}
  /\ LET p == C.syst[-f]
     IN \/ \E i \in DOMAIN syst : /\ syst[i] = p
                                  /\ fmap' = Numbered(f, -i)
                                  /\ UNCHANGED <<syst, toplvl>>
        \/ /\ \A i \in DOMAIN syst : syst[i] # p
           /\ fmap' = Numbered(f, -Len(syst))
           /\ syst' = Append(syst, p)
           /\ toplvl' = Append(toplvl, C.toplvl[-f])
  /\ UNCHANGED <<from, n, phase, user, graph, tables>>

UserFile(f) ==
  /\ Files /\ NextFile(f) /\ f >= 0
  /\ left' = left \ {f}
  /\ LET p == C.user[f + 1]
     IN \/ \E i \in DOMAIN user : /\ user[i] = p
                                  /\ fmap' = Numbered(f, i - 1)
                                  /\ UNCHANGED user
        \/ /\ \A i \in DOMAIN user : user[i] # p
           /\ fmap' = Numbered(f, Len(user))
           /\ user' = Append(user, p)
  /\ UNCHANGED <<from, n, phase, syst, toplvl, graph, tables>>

SystFile(f) ==
  /\ Files /\ NextFile(f) /\ f < 0
  /\ left' = left \ {f}
  /\ LET p == C.syst[-f]
     IN \/ \E i \in DOMAIN syst : /\ syst[i] = p
                                  /\ fmap' = Numbered(f, -i)
                                  /\ UNCHANGED <<syst, toplvl>>
        \/ /\ \A i \in DOMAIN syst : syst[i] # p
           /\ fmap' = Numbered(f, -(Len(syst) + 1))
           /\ syst' = Append(syst, p)
           /\ toplvl' = Append(toplvl, C.toplvl[-f])
  /\ UNCHANGED <<from, n, phase, user, graph, tables>>

FilesDone ==
  /\ Files /\ left = {}
  /\ phase' = "vertices" /\ left' = C.verts
  /\ UNCHANGED <<from, n, fmap, files, graph, tables>>

-----------------------------------------------------------------------------
(* link_into                                                                *)

\* interval_map::find(interval): the lowest vertex that overlaps.
Find(r) == CHOOSE v \in verts : Overlap(v, r) /\ \A w \in verts : Overlap(w, r) => v.beg <= w.beg

\* Mutant: only a vertex of the same range stands in the way.
AddVertexUnlessSame(v) ==
  /\ phase = "vertices" /\ v \in left
  /\ left' = left \ {v}
  /\ LET r == Relocated(v)
     IN verts' = verts \cup {r}
        /\ incs' = [w \in verts \cup {r} |-> IF w \in verts THEN incs[w] ELSE C.incs[v]]
  /\ UNCHANGED <<from, n, phase, fmap, files, edge, dummies, tables>>

\* A vertex is dropped when anything of the result overlaps it.  The files of its
\* #include's keep the numbers they have in the collection.
AddVertex(v) ==
  /\ phase = "vertices" /\ v \in left
  /\ left' = left \ {v}
  /\ LET r == Relocated(v)
     IN IF \E w \in verts : Overlap(w, r)
        THEN UNCHANGED <<verts, incs>>
        ELSE /\ verts' = verts \cup {r}
             /\ incs' = [w \in verts \cup {r} |-> IF w = r THEN C.incs[v] ELSE incs[w]]
  /\ UNCHANGED <<from, n, phase, fmap, files, edge, dummies, tables>>

VerticesDone ==
  /\ phase = "vertices" /\ left = {}
  /\ phase' = "edges" /\ left' = DOMAIN C.edge
  /\ UNCHANGED <<from, n, fmap, files, graph, tables>>

\* add_edge(e).t = t
Put(E, t) == [d \in DOMAIN edge \cup E |-> IF d \in E THEN t ELSE edge[d]]

\* Mutant: only an edge between vertices that were taken over is added.
AddEdgeOfSame(e) ==
  /\ phase = "edges" /\ e \in left
  /\ left' = left \ {e}
  /\ LET r == Relocated(e[1])
         s == Relocated(e[2])
     IN edge' = IF {r, s} \subseteq verts /\ <<s, r>> \notin DOMAIN edge
                THEN Put({<<r, s>>}, C.edge[e]) ELSE edge
  /\ UNCHANGED <<from, n, phase, fmap, files, verts, incs, dummies, tables>>

\* Mutant: the edge is added whatever edge is there.
AddEdgeBothWays(e) ==
  /\ phase = "edges" /\ e \in left
  /\ left' = left \ {e}
  /\ edge' = Put({<<Find(Relocated(e[1])), Find(Relocated(e[2]))>>}, C.edge[e])
  /\ UNCHANGED <<from, n, phase, fmap, files, verts, incs, dummies, tables>>

\* An edge joins whatever overlaps its ends, which may be one vertex.  It is
\* dropped when the result has the opposite edge.
AddEdge(e) ==
  /\ phase = "edges" /\ e \in left
  /\ left' = left \ {e}
  /\ LET a == Find(Relocated(e[1]))
         b == Find(Relocated(e[2]))
     IN edge' = IF <<b, a>> \in DOMAIN edge THEN edge ELSE Put({<<a, b>>}, C.edge[e])
  /\ UNCHANGED <<from, n, phase, fmap, files, verts, incs, dummies, tables>>

EdgesDone ==
  /\ phase = "edges" /\ left = {}
  /\ phase' = "defs" /\ left' = {}
  /\ UNCHANGED <<from, n, fmap, files, graph, tables>>

Entries == UNION {{<<t, s, x>> : x \in C.locs[t][s]} : t \in Tables, s \in Symbols}

\* Mutant: the last definition wins.
AddDefinitionsOver ==
  /\ phase = "defs"
  /\ phase' = "locs"
  /\ left' = Entries
  /\ defs' = [s \in Symbols |-> IF C.defs[s] # None THEN Relocated(C.defs[s]) ELSE defs[s]]
  /\ UNCHANGED <<from, n, fmap, files, graph, locs>>

\* The first definition stays.
AddDefinitions ==
  /\ phase = "defs"
  /\ phase' = "locs"
  /\ left' = Entries
  /\ defs' = [s \in Symbols |-> IF defs[s] = None /\ C.defs[s] # None
                                THEN Relocated(C.defs[s]) ELSE defs[s]]
  /\ UNCHANGED <<from, n, fmap, files, graph, locs>>

\* Mutant: both parts have to be smaller.
BothLess(x, y) == x.f < y.f /\ x.pos < y.pos

\* full_source_location_t::operator<.  Two places may each be less than the other.
Less(x, y) == x.f < y.f \/ x.pos < y.pos

\* The gaps of the set in which its search for x can end, whatever the shape of
\* the tree: the elements at both sides of the gap have been compared with x.
Gaps(set, x) == {i \in 0 .. Len(set) : /\ i > 0 => ~Less(x, set[i])
                                       /\ i < Len(set) => Less(x, set[i + 1])}

\* std::set::insert, when the search ends in gap i.
Inserted(set, x, i) ==
  IF i = 0 \/ Less(set[i], x)
  THEN SubSeq(set, 1, i) \o <<x>> \o SubSeq(set, i + 1, Len(set))
  ELSE set

AddPlace(t, s, x) ==
  /\ phase = "locs" /\ <<t, s, x>> \in left
  /\ left' = left \ {<<t, s, x>>}
  /\ \E i \in Gaps(locs[t][s], Relocated(x)) :
       locs' = [locs EXCEPT ![t][s] = Inserted(@, Relocated(x), i)]
  /\ UNCHANGED <<from, n, phase, fmap, files, graph, defs>>

LocsDone ==
  /\ phase = "locs" /\ left = {}
  /\ phase' = "read"
  /\ UNCHANGED <<from, n, fmap, left, files, graph, tables>>

-----------------------------------------------------------------------------
(* resolve_references, on the tables of all collections together            *)

AllRead ==
  /\ phase = "read" /\ n = Len(from)
  /\ phase' = "resolve"
  /\ left' = {s \in Symbols : locs["glbl_decls"][s] # <<>>}
  /\ UNCHANGED <<from, n, fmap, files, graph, tables>>

Covered(x) == \E v \in verts : Within(x, v)
At(x) == CHOOSE v \in verts : Within(x, v)

Declared(s) == {At(x) : x \in {locs["glbl_decls"][s][i] : i \in
                                {j \in DOMAIN locs["glbl_decls"][s] :
                                   Covered(locs["glbl_decls"][s][j])}}}

\* The dummy vertex of a symbol is the symbol.  A declaration that is in no vertex
\* is skipped; a symbol whose definition is in none gets no dummy.
Resolve(s) ==
  /\ phase = "resolve" /\ s \in left
  /\ left' = left \ {s}
  /\ IF defs[s] # None /\ Covered(defs[s])
     THEN /\ dummies' = dummies \cup {s}
          /\ edge' = Put({<<v, s>> : v \in Declared(s)} \cup {<<s, At(defs[s])>>}, "FWD_DECL")
     ELSE UNCHANGED <<dummies, edge>>
  /\ UNCHANGED <<from, n, phase, fmap, files, verts, incs, tables>>

Linked ==
  /\ phase = "resolve" /\ left = {}
  /\ phase' = "linked"
  /\ UNCHANGED <<from, n, fmap, left, files, graph, tables>>

-----------------------------------------------------------------------------
Relocate == (\E f \in left : UserFile(f) \/ SystFile(f)) \/ FilesDone

LinkInto == \/ (\E v \in left : AddVertex(v)) \/ VerticesDone
            \/ (\E e \in left : AddEdge(e)) \/ EdgesDone
            \/ AddDefinitions
            \/ (\E q \in left : AddPlace(q[1], q[2], q[3])) \/ LocsDone

ResolveReferences == AllRead \/ (\E s \in left : Resolve(s)) \/ Linked

Next == Read \/ Relocate \/ LinkInto \/ ResolveReferences

Spec == Init /\ [][Next]_vars

-----------------------------------------------------------------------------
(* Properties                                                              *)

\* The file of the result that is file f of collection i, by its path.
FileOf(i, f) ==
  CHOOSE e \in FilesOf(user, syst) :
    /\ (e < 0) = (f < 0)
    /\ PathOf(user, syst, e) = PathOf(from[i].user, from[i].syst, f)

\* A place or a range of collection i in the result.
To(i, x) == [x EXCEPT !.f = FileOf(i, x.f)]

\* What of collection i has gone through the loop of phase p.
Past(p) == CASE p = "vertices" -> {"edges", "defs", "locs", "read", "resolve", "linked"}
             [] p = "edges" -> {"defs", "locs", "read", "resolve", "linked"}
Added(i, p, x) == i < n \/ (i = n /\ (phase \in Past(p) \/ (phase = p /\ x \notin left)))

\* The maps and tables of the result fit together (link.cpp:135-137, 242-243): a path has one
\* place in its table, the vertices of the interval maps do not overlap, and while
\* edges are added both ends of each find a vertex (the assertions of link.cpp:315).
LinkTypeOK ==
  LET F == FilesOf(user, syst)
  IN /\ user \in Seq(Paths) /\ syst \in Seq(Paths) /\ toplvl \in Seq(Paths)
     /\ Len(toplvl) = Len(syst)
     /\ \A i, j \in DOMAIN user : user[i] = user[j] => i = j
     /\ \A i, j \in DOMAIN syst : syst[i] = syst[j] => i = j
     /\ verts \subseteq Ranges(F)
     /\ \A a, b \in verts : Overlap(a, b) => a = b
     /\ DOMAIN edge \subseteq (verts \cup dummies) \X (verts \cup dummies)
     /\ \A e \in DOMAIN edge : edge[e] \in EdgeTypes
     /\ DOMAIN incs = verts /\ dummies \subseteq Symbols
     /\ defs \in [Symbols -> Places(F) \cup {None}]
     /\ \A t \in Tables, s \in Symbols : locs[t][s] \in Seq(Places(F))
     /\ phase = "edges" => \A v \in C.verts : \E w \in verts : Overlap(w, Relocated(v))

\* Merging loses no dependency (link_into): of every edge of a linked collection, what
\* stands in the result where its ends were is joined by an edge, one way or the other.
UsesStayConnected ==
  \A i \in 1 .. n : \A e \in DOMAIN from[i].edge :
    Added(i, "edges", e) =>
      \E a, b \in verts : /\ Overlap(a, To(i, e[1])) /\ Overlap(b, To(i, e[2]))
                          /\ <<a, b>> \in DOMAIN edge \/ <<b, a>> \in DOMAIN edge

\* No piece of one collection overlaps another piece of another.
Agree == \A i, j \in 1 .. Len(from) : \A v \in from[i].verts, w \in from[j].verts :
           Overlap(To(i, v), To(j, w)) => To(i, v) = To(j, w)

\* Collections that agree add up (link_into): the result has their vertices, and of their
\* edges one of each pair of opposites, with the type some collection gives it.
AgreeingCollectionsAddUp ==
  (phase = "linked" /\ Agree) =>
    /\ verts = UNION {{To(i, v) : v \in from[i].verts} : i \in 1 .. Len(from)}
    /\ \A e \in DOMAIN edge \cap (verts \X verts) :
         /\ \E i \in 1 .. Len(from) : \E d \in DOMAIN from[i].edge :
              e = <<To(i, d[1]), To(i, d[2])>> /\ edge[e] = from[i].edge[d]
         /\ <<e[2], e[1]>> \in DOMAIN edge => e[1] = e[2]

\* The definition of s that stays: that of the first collection to define it.
Defines(i, s) == from[i].defs[s] # None /\ \A j \in 1 .. i - 1 : from[j].defs[s] = None

\* What the comment at link.cpp:402 promises: from a declaration of a symbol in any
\* collection, forward declaration edges lead by its dummy to the definition of the
\* symbol in any other, the first one read, if both are in some vertex.
DeclarationsReachDefinition ==
  phase = "linked" =>
    \A i, j \in 1 .. Len(from) : \A s \in Symbols :
      \A x \in from[i].locs["glbl_decls"][s] :
        (Defines(j, s) /\ Covered(To(i, x)) /\ Covered(To(j, from[j].defs[s]))) =>
          /\ <<At(To(i, x)), s>> \in DOMAIN edge
          /\ <<s, At(To(j, from[j].defs[s]))>> \in DOMAIN edge
          /\ edge[<<At(To(i, x)), s>>] = "FWD_DECL"
          /\ edge[<<s, At(To(j, from[j].defs[s]))>>] = "FWD_DECL"

\* The comments at link.cpp:140 and 246, that the file indices of a collection are
\* adjusted to the tables of the result, for the #include's of its vertices.
IncludesNameTheirFiles ==
  \A w \in verts : \E i \in 1 .. n : \E v \in from[i].verts :
    /\ w = To(i, v)
    /\ incs[w] = {<<inc[1], FileOf(i, inc[2])>> : inc \in from[i].incs[v]}

=============================================================================
