----------------------------- MODULE CodeLoop -------------------------------
(***************************************************************************)
(* collector_priv::code written the way the source computes it: find an    *)
(* overlapping vertex, take the hull, erase it from the interval map, find *)
(* again, until nothing overlaps; re-attach the edges one by one; go down  *)
(* one band and start over.  DepGraph!Code says in closed form what this   *)
(* loop leaves; Collector!CodeIsTheLoop says that the two agree.           *)
(***************************************************************************)
EXTENDS DepGraph

Overlaps(V, r) == \E v \in V : Overlap(v, r)

\* interval_map::find(interval): the first vertex that overlaps.
FirstOverlap(V, r) ==
  CHOOSE v \in V : Overlap(v, r) /\ \A w \in V : Overlap(w, r) => v.beg <= w.beg

Smaller(a, b) == IF a < b THEN a ELSE b
Larger(a, b) == IF a < b THEN b ELSE a

\* boost::icl::hull
HullOf(a, b) == [f |-> a.f, k |-> a.k,
                 beg |-> Smaller(a.beg, b.beg), end |-> Larger(a.end, b.end)]

\* in_verts and out_verts are lists of pairs, of a vertex and the type of an edge:
\* what add_edge makes of such a list is a function, a later pair over an earlier.
NoVerts == [x \in {} |-> "NORMAL"]
PushBack(list, more) ==
  [x \in DOMAIN list \cup DOMAIN more |-> IF x \in DOMAIN more THEN more[x] ELSE list[x]]

\* The variables of the do-while loop when it begins (map is the interval map).
Untouched(h, r) == [intervl |-> r, map |-> h.verts, in |-> NoVerts, out |-> NoVerts,
                    abs_includes |-> {}]

\* One turn: the first vertex met is taken from the map, with its includes and edges.
Swallow(h, s) ==
  LET v == FirstOverlap(s.map, s.intervl)
      into == [x \in {x \in h.verts : <<x, v>> \in DOMAIN h.edge} |-> h.edge[<<x, v>>]]
      from == [x \in {x \in h.verts : <<v, x>> \in DOMAIN h.edge} |-> h.edge[<<v, x>>]]
  IN [intervl |-> HullOf(s.intervl, v),
      map |-> s.map \ {v},
      in  |-> PushBack(s.in, into),
      out |-> PushBack(s.out, from),
      abs_includes |-> s.abs_includes \cup {<<v.beg + i[1], i[2]>> : i \in h.incs[v]}]

\* The loop ends when nothing overlaps, at the latest when every character of the
\* file has been met.
Swallowed(h, r) ==
  LET turn[n \in Nat] ==
        IF n = 0 THEN Untouched(h, r)
        ELSE LET s == turn[n - 1]
             IN IF Overlaps(s.map, s.intervl) THEN Swallow(h, s) ELSE s
  IN turn[Size[r.f]]

\* A band in which something overlaps and nothing contains r: the vertices met are
\* cleared and removed, and the new one gets their in-edges, then their out-edges,
\* except for those that join two of them.
Merge(h, r) ==
  LET s == Swallowed(h, r)
      in == {<<x, s.intervl>> : x \in DOMAIN s.in \cap s.map}
      out == {<<s.intervl, x>> : x \in DOMAIN s.out \cap s.map}
      kept == {e \in DOMAIN h.edge : e[1] \in s.map /\ e[2] \in s.map}
  IN [verts |-> s.map \cup {s.intervl},
      edge  |-> [e \in kept \cup in \cup out |->
                   CASE e \in out -> s.out[e[2]]
                     [] e \in in \ out -> s.in[e[1]]
                     [] OTHER -> h.edge[e]],
      incs  |-> [v \in s.map \cup {s.intervl} |->
                   IF v = s.intervl
                   THEN {<<i[1] - v.beg, i[2]>> : i \in s.abs_includes}
                   ELSE h.incs[v]]]

AddVertex(h, r) == [h EXCEPT !.verts = @ \cup {r},
                             !.incs = [v \in h.verts \cup {r} |->
                                         IF v = r THEN {} ELSE h.incs[v]]]

\* What one call of code does before it calls itself for the band below.
CodeHere(h, r) ==
  IF ~Overlaps(h.verts, r) THEN AddVertex(h, r)
  ELSE IF Encloses(FirstOverlap(h.verts, r), r) THEN h
  ELSE Merge(h, r)

\* The graph after n of the calls, from the band of r downwards, and whether one of
\* them returned because nothing overlaps (OnlyIfAlreadyExists).
LoopCode(h, r, onlyIfExists) ==
  LET call(s, q) ==
        IF s.returned \/ (onlyIfExists /\ ~Overlaps(s.graph.verts, q))
        THEN [s EXCEPT !.returned = TRUE]
        ELSE [s EXCEPT !.graph = CodeHere(@, q)]
      after[n \in 0 .. r.k + 1] ==
        IF n = 0 THEN [graph |-> h, returned |-> FALSE]
        ELSE call(after[n - 1], InBand(r, r.k + 1 - n))
  IN after[r.k + 1].graph

=============================================================================
