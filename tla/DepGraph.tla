------------------------------ MODULE DepGraph ------------------------------
(***************************************************************************)
(* The dependency graph the collector builds for one translation unit, as  *)
(* a value, and the operations of collect/src/collect.cpp on it.           *)
(*                                                                         *)
(* A vertex is a range of source text, and no two vertices of a file       *)
(* overlap while the collector runs, so a vertex IS its range.             *)
(*                                                                         *)
(* A source_location_t is band * size + offset: every FileID (every        *)
(* inclusion) of a file has a band of its own.  Here a location is the     *)
(* pair (band k, offset), which is the same thing as long as the product   *)
(* does not overflow; dec_source_range, which subtracts the size, is then  *)
(* the step from band k to band k - 1.                                     *)
(*                                                                         *)
(* A graph is a record:                                                    *)
(*   verts  the ranges that are vertices                                   *)
(*   edge   the type of every edge, a function on pairs of vertices (setS: *)
(*          no parallel edges)                                             *)
(*   incs   the #include's inside each vertex: <<offset, file>>            *)
(* The vertices that stand for an entire file never have an edge and never *)
(* overlap a piece of code; only their includes matter, and the collector  *)
(* keeps them apart (Collector!fileIncs).                                  *)
(***************************************************************************)
EXTENDS Naturals, FiniteSets

CONSTANTS Files,   \* the source files of the translation unit
          Size     \* Size[f]: the number of characters of file f

\* An empty file has no text and no range; dec_source_range would not make
\* progress on it.
ASSUME SizeAssumption == Size \in [Files -> Nat \ {0}]

EdgeTypes == {"NORMAL", "FWD_DECL", "FOLLOWS"}

\* A source_range_t for which operator bool holds, within its band.
SourceRange == {r \in [f : Files, k : Nat, beg : Nat, end : Nat] :
             r.beg < r.end /\ r.end <= Size[r.f]}

\* A full_source_location_t.
Pos == [f : Files, k : Nat, p : Nat]

Begin(r) == [f |-> r.f, k |-> r.k, p |-> r.beg]

Within(x, v) == x.f = v.f /\ x.k = v.k /\ v.beg <= x.p /\ x.p < v.end

Overlap(a, b) == a.f = b.f /\ a.k = b.k /\ a.beg < b.end /\ b.beg < a.end

Encloses(a, b) == a.f = b.f /\ a.k = b.k /\ a.beg <= b.beg /\ b.end <= a.end

EmptyGraph == [verts |-> {}, edge |-> [e \in {} |-> "NORMAL"],
               incs |-> [v \in {} |-> {}]]

-----------------------------------------------------------------------------
(* The interval map of a file: find(position).                             *)

Covered(V, x) == \E v \in V : Within(x, v)
At(V, x) == CHOOSE v \in V : Within(x, v)

-----------------------------------------------------------------------------
(* collector_priv::code.                                                   *)

\* dec_source_range, from the band of r down to band j.
InBand(r, j) == [r EXCEPT !.k = j]

\* Mutant: only what the new range swallows whole is displaced.
AbsorbedInside(V, r) == {v \in V : Encloses(r, v)}

\* The vertices a new range displaces: those it overlaps, unless one of them
\* already contains it.
Absorbed(V, r) == {v \in V : Overlap(v, r) /\ ~Encloses(v, r)}

\* Mutant: the interval is not replaced by the hull.
HullIsRange(V, r) == r

\* The range after it has grown to the hull of everything it overlaps: only the
\* vertices at its two ends can reach beyond it.
Hull(V, r) ==
  LET last == [f |-> r.f, k |-> r.k, p |-> r.end - 1]
  IN [f   |-> r.f,
      k   |-> r.k,
      beg |-> IF Covered(V, Begin(r)) THEN At(V, Begin(r)).beg ELSE r.beg,
      end |-> IF Covered(V, last) THEN At(V, last).end ELSE r.end]

Gone(V, r, bands) == {v \in V : v.k \in bands /\ v \in Absorbed(V, InBand(r, v.k))}

\* Where vertex v is after the range r was marked as code in these bands.
Moved(V, r, bands, v) ==
  IF v \in Gone(V, r, bands) THEN Hull(V, InBand(r, v.k)) ELSE v

\* Mutant: every edge of a displaced vertex is dropped.
KeptEdgesElsewhere(g, r, bands) ==
  {e \in DOMAIN g.edge : /\ e[1] \notin Gone(g.verts, r, bands)
                         /\ e[2] \notin Gone(g.verts, r, bands)}

\* Edges between two vertices of one merge are dropped.
KeptEdges(g, r, bands) ==
  {e \in DOMAIN g.edge :
     ~(/\ e[1] \in Gone(g.verts, r, bands)
       /\ e[2] \in Gone(g.verts, r, bands)
       /\ e[1].k = e[2].k)}

\* Mutant: only the in-edges are attached to the new vertex.
MovedInEdge(V, r, bands, e) == <<e[1], Moved(V, r, bands, e[2])>>

MovedEdge(V, r, bands, e) == <<Moved(V, r, bands, e[1]), Moved(V, r, bands, e[2])>>

\* Mutant: the type written first stays.
WrittenBefore(e, d) ==
  IF e[1].k <= e[2].k
  THEN e[1].beg < d[1].beg \/ (e[1] = d[1] /\ e[2].beg < d[2].beg)
  ELSE e[2].beg < d[2].beg \/ (e[2] = d[2] /\ e[1].beg < d[1].beg)

\* When two edges become one, the type written last stays: the bands are
\* merged from the highest to band 0, and the vertices of a merge in ascending
\* order.
WrittenAfter(e, d) ==
  IF e[1].k <= e[2].k
  THEN e[1].beg > d[1].beg \/ (e[1] = d[1] /\ e[2].beg > d[2].beg)
  ELSE e[2].beg > d[2].beg \/ (e[2] = d[2] /\ e[1].beg > d[1].beg)

LastWritten(S) == CHOOSE e \in S : \A d \in S : d = e \/ WrittenAfter(e, d)

\* Mutant: the includes keep the offsets they had.
IncsUnmoved(g, r, bands, w) ==
  UNION {g.incs[v] : v \in {u \in g.verts : Moved(g.verts, r, bands, u) = w}}

\* The includes of the vertices that became w, relative to the start of w.
IncsOf(g, r, bands, w) ==
  UNION {{<<i[1] + v.beg - w.beg, i[2]>> : i \in g.incs[v]} :
            v \in {u \in g.verts : Moved(g.verts, r, bands, u) = w}}

CodeIn(g, r, bands) ==
  LET V  == (g.verts \ Gone(g.verts, r, bands))
              \cup {Hull(g.verts, InBand(r, j)) : j \in bands}
      E  == KeptEdges(g, r, bands)
      to(e) == MovedEdge(g.verts, r, bands, e)
  IN [verts |-> V,
      edge  |-> [d \in {to(e) : e \in E} |->
                   g.edge[LastWritten({e \in E : to(e) = d})]],
      incs  |-> [w \in V |-> IncsOf(g, r, bands, w)]]

\* Mutant: the lower bands are forgotten.
CodeOneBand(g, r) == CodeIn(g, r, {r.k})

\* code<false>: the range, and the same text in every lower band.
Code(g, r) == CodeIn(g, r, 0 .. r.k)

\* code<true>: the recursion ends at the first band in which nothing overlaps.
CodeIfExists(g, r) ==
  CodeIn(g, r, {j \in 0 .. r.k :
                  \A i \in j .. r.k : \E v \in g.verts : Overlap(v, InBand(r, i))})

-----------------------------------------------------------------------------
(* The operations that add edges.                                          *)

\* add_edge leaves the type of an edge that is there already alone.
AddEdge(g, e) ==
  [g EXCEPT !.edge = [d \in DOMAIN @ \cup {e} |->
                        IF d \in DOMAIN @ THEN @[d] ELSE "NORMAL"]]

\* add_edge(...).t = FOLLOWS or FWD_DECL overwrites it.
PutEdges(g, E, t) ==
  [g EXCEPT !.edge = [d \in DOMAIN @ \cup E |-> IF d \in E THEN t ELSE @[d]]]

DelEdge(g, e) == [g EXCEPT !.edge = [d \in DOMAIN @ \ {e} |-> @[d]]]

\* collector_priv::use
Use(g, user, usee) ==
  LET h == Code(Code(g, user), usee)
      a == At(h.verts, Begin(user))
      b == At(h.verts, Begin(usee))
  IN IF a = b THEN h ELSE AddEdge(DelEdge(h, <<b, a>>), <<a, b>>)

\* collector_priv::use_if_user_exists
UseIfUserExists(g, x, usee) ==
  LET h == Code(g, usee)
      a == At(h.verts, x)
      b == At(h.verts, Begin(usee))
  IN IF ~Covered(h.verts, x) \/ a = b \/ <<b, a>> \in DOMAIN h.edge
     THEN h
     ELSE AddEdge(h, <<a, b>>)

\* collector_priv::follow_users_of: whatever uses the prior definition is
\* followed by the new one.  When the prior definition has an edge to itself the
\* loop inserts into the set of in-edges it walks; whether it then visits the
\* new one depends on addresses.
FollowUsersOf(g, prior, following) ==
  LET h == Code(Code(g, following), prior)
      n == At(h.verts, Begin(following))
      o == At(h.verts, Begin(prior))
      followed == {s \in h.verts : <<s, o>> \in DOMAIN h.edge
                                     /\ <<s, n>> \notin DOMAIN h.edge}
      visited == IF o \in followed THEN {followed, followed \cup {n}} ELSE {followed}
  IN IF n = o
     THEN {h}
     ELSE {PutEdges(h, {<<n, s>> : s \in S}, "FOLLOWS") : S \in visited}

-----------------------------------------------------------------------------
(* What it takes to be such a graph; Collector states these of every        *)
(* reachable one.                                                          *)

\* Vertices are ranges and edges join vertices.
IsGraph(h) == /\ h = [verts |-> h.verts, edge |-> h.edge, incs |-> h.incs]
              /\ h.verts \subseteq SourceRange
              /\ DOMAIN h.edge \subseteq h.verts \X h.verts
              /\ h.edge \in [DOMAIN h.edge -> EdgeTypes]
              /\ h.incs \in [h.verts -> SUBSET (Nat \X Files)]

\* No two vertices overlap.
NoOverlap(V) == \A a, b \in V : Overlap(a, b) => a = b

\* What is code in one band is code, in no smaller a piece, in the band below.
Closed(V) == \A v \in V : v.k > 0 => \E w \in V : Encloses(w, InBand(v, v.k - 1))

\* Positions x and y are in one vertex, or an edge joins their vertices.
Connected(h, x, y) ==
  \E a, b \in h.verts : /\ Within(x, a) /\ Within(y, b)
                        /\ a = b \/ <<a, b>> \in DOMAIN h.edge \/ <<b, a>> \in DOMAIN h.edge

\* The includes of every vertex lie inside it, at places of I.
IncludesIn(h, I) ==
  \A v \in h.verts : \A i \in h.incs[v] :
    LET x == [f |-> v.f, k |-> v.k, p |-> v.beg + i[1]]
    IN Within(x, v) /\ <<x, i[2]>> \in I

=============================================================================
