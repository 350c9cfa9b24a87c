--------------------------- MODULE DepGraphProofs ---------------------------
(***************************************************************************)
(* Lemmas about the operations of DepGraph, for all files, sizes, ranges   *)
(* and bands.  CollectorProofs derives the invariants from them.           *)
(***************************************************************************)
EXTENDS CodeLoop, TLAPS, NaturalsInduction, WellFoundedInduction

\* find(position) returns a vertex at that position, and with disjoint vertices
\* it is the only one.
LEMMA AtFinds ==
  ASSUME NEW V, NEW x, Covered(V, x)
  PROVE  At(V, x) \in V /\ Within(x, At(V, x))
BY DEF Covered, At

LEMMA AtUnique ==
  ASSUME NEW V \in SUBSET SourceRange, NoOverlap(V), NEW x \in Pos,
         NEW v \in V, Within(x, v)
  PROVE  At(V, x) = v
<1>1. Covered(V, x) BY DEF Covered
<1>2. At(V, x) \in V /\ Within(x, At(V, x)) BY <1>1, AtFinds
<1>3. Overlap(At(V, x), v) BY <1>2 DEF Overlap, Within, SourceRange, Pos
<1> QED BY <1>2, <1>3 DEF NoOverlap

\* The hull of a range is a range that encloses it and everything it overlaps,
\* and it overlaps nothing else.
LEMMA HullEncloses ==
  ASSUME NEW V \in SUBSET SourceRange, NoOverlap(V), NEW r \in SourceRange
  PROVE  /\ Hull(V, r) \in SourceRange
         /\ Hull(V, r).f = r.f /\ Hull(V, r).k = r.k
         /\ Encloses(Hull(V, r), r)
         /\ \A v \in V : Overlap(v, r) => Encloses(Hull(V, r), v)
         /\ \A v \in V : Overlap(v, Hull(V, r)) => Overlap(v, r)
<1> DEFINE first == Begin(r)
           last == [f |-> r.f, k |-> r.k, p |-> r.end - 1]
           H == Hull(V, r)
<1>0. /\ first \in Pos /\ first.f = r.f /\ first.k = r.k /\ first.p = r.beg
      /\ last \in Pos /\ last.f = r.f /\ last.k = r.k /\ last.p = r.end - 1
  BY SizeAssumption DEF Begin, Pos, SourceRange
<1>1. H.f = r.f /\ H.k = r.k BY DEF Hull
<1>2. /\ H.beg \in Nat /\ H.beg <= r.beg
      /\ \A v \in V : Overlap(v, r) => H.beg <= v.beg
      /\ \A v \in V : v.f = r.f /\ v.k = r.k /\ v.end > H.beg => v.end > r.beg
  <2>1. CASE Covered(V, first)
    <3>1. At(V, first) \in V /\ Within(first, At(V, first)) BY <2>1, AtFinds
    <3>2. H.beg = At(V, first).beg BY <2>1 DEF Hull
    <3>3. \A v \in V : v.f = r.f /\ v.k = r.k /\ v.beg <= r.beg /\ v.end > H.beg => v = At(V, first)
      BY <1>0, <3>1, <3>2 DEF Within, SourceRange, NoOverlap, Overlap
    <3> QED BY <1>0, <3>1, <3>2, <3>3 DEF Within, SourceRange, Overlap
  <2>2. CASE ~Covered(V, first)
    <3>1. H.beg = r.beg BY <2>2 DEF Hull
    <3> QED BY <1>0, <2>2, <3>1 DEF Covered, Within, SourceRange, Overlap
  <2> QED BY <2>1, <2>2
<1>3. /\ H.end \in Nat /\ H.end >= r.end /\ H.end <= Size[r.f]
      /\ \A v \in V : Overlap(v, r) => H.end >= v.end
      /\ \A v \in V : v.f = r.f /\ v.k = r.k /\ v.beg < H.end => v.beg < r.end
  <2>1. CASE Covered(V, last)
    <3>1. At(V, last) \in V /\ Within(last, At(V, last)) BY <2>1, AtFinds
    <3>2. H.end = At(V, last).end BY <2>1 DEF Hull
    <3>3. \A v \in V : v.f = r.f /\ v.k = r.k /\ v.end >= r.end /\ v.beg < H.end => v = At(V, last)
      BY <1>0, <3>1, <3>2 DEF Within, SourceRange, NoOverlap, Overlap
    <3> QED BY <1>0, <3>1, <3>2, <3>3 DEF Within, SourceRange, Overlap
  <2>2. CASE ~Covered(V, last)
    <3>1. H.end = r.end BY <2>2 DEF Hull
    <3> QED BY <1>0, <2>2, <3>1 DEF Covered, Within, SourceRange, Overlap
  <2> QED BY <2>1, <2>2
<1>4. H = [f |-> r.f, k |-> r.k, beg |-> H.beg, end |-> H.end] BY DEF Hull
<1>5. H \in SourceRange BY <1>2, <1>3, <1>4 DEF SourceRange
<1>6. Encloses(H, r) BY <1>1, <1>2, <1>3 DEF Encloses
<1>7. \A v \in V : Overlap(v, r) => Encloses(H, v) BY <1>1, <1>2, <1>3 DEF Encloses, Overlap
<1>8. \A v \in V : Overlap(v, H) => Overlap(v, r) BY <1>1, <1>2, <1>3 DEF Overlap
<1> HIDE DEF H
<1> QED BY <1>1, <1>5, <1>6, <1>7, <1>8 DEF H

\* The hull of a range that a vertex already encloses is that vertex.
LEMMA HullOfEnclosed ==
  ASSUME NEW V \in SUBSET SourceRange, NoOverlap(V), NEW r \in SourceRange,
         NEW v \in V, Encloses(v, r)
  PROVE  Hull(V, r) = v
<1> DEFINE last == [f |-> r.f, k |-> r.k, p |-> r.end - 1]
<1>1. /\ Begin(r) \in Pos /\ last \in Pos
      /\ Within(Begin(r), v) /\ Within(last, v)
  BY SizeAssumption DEF Begin, Pos, SourceRange, Within, Encloses
<1>2. At(V, Begin(r)) = v /\ At(V, last) = v BY <1>1, AtUnique
<1>3. Covered(V, Begin(r)) /\ Covered(V, last) BY <1>1 DEF Covered
<1>4. Hull(V, r) = [f |-> r.f, k |-> r.k, beg |-> v.beg, end |-> v.end]
  BY <1>2, <1>3 DEF Hull
<1> QED BY <1>4 DEF Encloses, SourceRange

LEMMA InBandIsRange ==
  ASSUME NEW r \in SourceRange, NEW j \in Nat
  PROVE  /\ InBand(r, j) \in SourceRange
         /\ InBand(r, j).f = r.f /\ InBand(r, j).k = j
         /\ InBand(r, j).beg = r.beg /\ InBand(r, j).end = r.end
BY DEF InBand, SourceRange

\* code moves a vertex to one that encloses it, in the same file and band.
LEMMA MovedEncloses ==
  ASSUME NEW V \in SUBSET SourceRange, NoOverlap(V), NEW r \in SourceRange,
         NEW bands \in SUBSET Nat, NEW v \in V
  PROVE  /\ Moved(V, r, bands, v) \in SourceRange
         /\ Encloses(Moved(V, r, bands, v), v)
<1>1. CASE v \in Gone(V, r, bands)
  <2>1. v.k \in Nat /\ Overlap(v, InBand(r, v.k)) BY <1>1 DEF Gone, Absorbed, SourceRange
  <2>2. InBand(r, v.k) \in SourceRange BY <2>1, InBandIsRange
  <2> QED BY <1>1, <2>1, <2>2, HullEncloses DEF Moved
<1>2. CASE v \notin Gone(V, r, bands)
  BY <1>2 DEF Moved, Encloses, SourceRange
<1> QED BY <1>1, <1>2

\* code leaves disjoint ranges; every vertex is found again where it moved, and
\* the range is inside a vertex in every band it was marked in.
LEMMA CodeVerts ==
  ASSUME NEW g, IsGraph(g), NoOverlap(g.verts), NEW r \in SourceRange,
         NEW bands \in SUBSET Nat
  PROVE  LET W == CodeIn(g, r, bands).verts IN
         /\ W \subseteq SourceRange
         /\ NoOverlap(W)
         /\ \A v \in g.verts : Moved(g.verts, r, bands, v) \in W
         /\ \A j \in bands : /\ Hull(g.verts, InBand(r, j)) \in W
                             /\ Encloses(Hull(g.verts, InBand(r, j)), InBand(r, j))
<1> DEFINE V == g.verts
           H(j) == Hull(V, InBand(r, j))
           W == (V \ Gone(V, r, bands)) \cup {H(j) : j \in bands}
<1>0. CodeIn(g, r, bands).verts = W BY DEF CodeIn
<1>1. V \in SUBSET SourceRange /\ NoOverlap(V) BY DEF IsGraph
<1>2. \A j \in bands : /\ H(j) \in SourceRange
                       /\ H(j).f = r.f /\ H(j).k = j
                       /\ Encloses(H(j), InBand(r, j))
                       /\ \A v \in V : Overlap(v, H(j)) => Overlap(v, InBand(r, j))
  BY <1>1, InBandIsRange, HullEncloses
<1>3. \A v \in V : Moved(V, r, bands, v) \in W
  <2> TAKE v \in V
  <2>1. v \in Gone(V, r, bands) => v.k \in bands BY DEF Gone
  <2> QED BY <2>1 DEF Moved
<1>4. \A j \in bands : \A v \in V \ Gone(V, r, bands) : Overlap(v, H(j)) => v = H(j)
  <2> SUFFICES ASSUME NEW j \in bands, NEW v \in V, v \notin Gone(V, r, bands),
                      Overlap(v, H(j))
               PROVE  v = H(j)
    OBVIOUS
  <2>1. v.k = j BY <1>2 DEF Overlap
  <2>2. Overlap(v, InBand(r, j)) BY <1>2
  <2>3. Encloses(v, InBand(r, j)) BY <2>1, <2>2 DEF Gone, Absorbed
  <2> QED BY <1>1, <2>3, InBandIsRange, HullOfEnclosed
<1>5. NoOverlap(W)
  <2> SUFFICES ASSUME NEW a \in W, NEW b \in W, Overlap(a, b)
               PROVE  a = b
    BY DEF NoOverlap
  <2>1. CASE a \in V \ Gone(V, r, bands) /\ b \in V \ Gone(V, r, bands)
    BY <1>1, <2>1 DEF NoOverlap
  <2>2. CASE a \in V \ Gone(V, r, bands) /\ b \in {H(j) : j \in bands}
    BY <1>4, <2>2
  <2>3. CASE b \in V \ Gone(V, r, bands) /\ a \in {H(j) : j \in bands}
    <3>1. Overlap(b, a) BY DEF Overlap
    <3> QED BY <1>4, <2>3, <3>1
  <2>4. CASE a \in {H(j) : j \in bands} /\ b \in {H(j) : j \in bands}
    <3>1. PICK i \in bands : a = H(i) BY <2>4
    <3>2. PICK j \in bands : b = H(j) BY <2>4
    <3>3. i = j BY <1>2, <3>1, <3>2 DEF Overlap
    <3> QED BY <3>1, <3>2, <3>3
  <2> QED BY <2>1, <2>2, <2>3, <2>4
<1>6. W \subseteq SourceRange BY <1>1, <1>2
<1> HIDE DEF W
<1>7. \A j \in bands : H(j) \in W BY DEF W
<1> QED BY <1>0, <1>2, <1>3, <1>5, <1>6, <1>7

\* When the bands reach down to band 0, closure is kept.
LEMMA CodeClosed ==
  ASSUME NEW g, IsGraph(g), NoOverlap(g.verts), Closed(g.verts), NEW r \in SourceRange,
         NEW bands \in SUBSET Nat, \A j \in bands : j > 0 => j - 1 \in bands
  PROVE  Closed(CodeIn(g, r, bands).verts)
<1> DEFINE V == g.verts
           W == CodeIn(g, r, bands).verts
           H(j) == Hull(V, InBand(r, j))
<1>1. V \in SUBSET SourceRange /\ NoOverlap(V) BY DEF IsGraph
<1>2. W = (V \ Gone(V, r, bands)) \cup {H(j) : j \in bands} BY DEF CodeIn
<1> HIDE DEF W
<1>3. ASSUME NEW v \in V, v.k > 0
      PROVE  \E w \in W : Encloses(w, InBand(v, v.k - 1))
  <2>1. PICK u \in V : Encloses(u, InBand(v, v.k - 1)) BY <1>3 DEF Closed
  <2>2. Moved(V, r, bands, u) \in W BY CodeVerts DEF W
  <2>3. Encloses(Moved(V, r, bands, u), u) BY <1>1, MovedEncloses
  <2>4. Moved(V, r, bands, u) \in SourceRange BY <1>1, MovedEncloses
  <2>5. v.k - 1 \in Nat /\ v \in SourceRange /\ u \in SourceRange BY <1>1, <1>3 DEF SourceRange
  <2>6. InBand(v, v.k - 1) \in SourceRange BY <2>5, InBandIsRange
  <2>7. Encloses(Moved(V, r, bands, u), InBand(v, v.k - 1))
    BY <2>1, <2>3, <2>4, <2>5, <2>6 DEF Encloses, SourceRange
  <2> QED BY <2>2, <2>7
<1>4. ASSUME NEW j \in bands, j > 0
      PROVE  \E w \in W : Encloses(w, InBand(H(j), j - 1))
  <2>1. j - 1 \in bands /\ j - 1 \in Nat /\ j \in Nat BY <1>4
  <2>2. /\ H(j) \in SourceRange /\ H(j).f = r.f /\ H(j).k = j
        /\ H(j - 1) \in SourceRange /\ H(j - 1).f = r.f /\ H(j - 1).k = j - 1
    <3>1. \A i \in Nat : H(i) \in SourceRange /\ H(i).f = r.f /\ H(i).k = i
      BY <1>1, InBandIsRange, HullEncloses
    <3> QED BY <2>1, <3>1
  <2>3. Encloses(H(j - 1), InBand(r, j - 1)) BY <1>1, <2>1, InBandIsRange, HullEncloses
  <2>4. \A v \in V : Overlap(v, InBand(r, j)) => H(j - 1).beg <= v.beg /\ v.end <= H(j - 1).end
    <3> SUFFICES ASSUME NEW v \in V, Overlap(v, InBand(r, j))
                 PROVE  H(j - 1).beg <= v.beg /\ v.end <= H(j - 1).end
      OBVIOUS
    <3>1. v \in SourceRange /\ v.k = j /\ v.f = r.f
      BY <1>1, <2>1, InBandIsRange DEF Overlap
    <3>2. PICK u \in V : Encloses(u, InBand(v, j - 1)) BY <1>4, <3>1 DEF Closed
    <3>3. u \in SourceRange BY <1>1
    <3>4. /\ InBand(v, j - 1).f = r.f /\ InBand(v, j - 1).k = j - 1
          /\ InBand(v, j - 1).beg = v.beg /\ InBand(v, j - 1).end = v.end
      BY <2>1, <3>1, InBandIsRange
    <3>5. /\ InBand(r, j - 1).f = r.f /\ InBand(r, j - 1).k = j - 1
          /\ InBand(r, j - 1).beg = r.beg /\ InBand(r, j - 1).end = r.end
          /\ InBand(r, j).beg = r.beg /\ InBand(r, j).end = r.end
      BY <2>1, InBandIsRange
    <3>6. Overlap(u, InBand(r, j - 1))
      BY <3>1, <3>2, <3>3, <3>4, <3>5 DEF Overlap, Encloses, SourceRange
    <3>7. Encloses(H(j - 1), u)
      <4> DEFINE q == InBand(r, j - 1)
      <4>1. q \in SourceRange BY <2>1, InBandIsRange
      <4>2. u \in V /\ Overlap(u, q) BY <3>2, <3>6
      <4> HIDE DEF q
      <4>3. Encloses(Hull(V, q), u) BY <1>1, <4>1, <4>2, HullEncloses
      <4> QED BY <4>3 DEF q
    <3>8. /\ u.beg <= v.beg /\ v.end <= u.end /\ H(j - 1).beg <= u.beg /\ u.end <= H(j - 1).end
      BY <3>2, <3>4, <3>7 DEF Encloses
    <3>9. /\ H(j - 1).beg \in Nat /\ H(j - 1).end \in Nat /\ u.beg \in Nat /\ u.end \in Nat
          /\ v.beg \in Nat /\ v.end \in Nat
      BY <2>2, <3>1, <3>3 DEF SourceRange
    <3> QED BY <3>8, <3>9
  <2>5. H(j).beg = r.beg \/ \E v \in V : Overlap(v, InBand(r, j)) /\ H(j).beg = v.beg
    <3> DEFINE x == Begin(InBand(r, j))
    <3>1. Covered(V, x) => At(V, x) \in V /\ Within(x, At(V, x)) BY AtFinds
    <3>2. InBand(r, j) \in SourceRange BY <2>1, InBandIsRange
    <3>3. Covered(V, x) => Overlap(At(V, x), InBand(r, j))
      BY <1>1, <3>1, <3>2 DEF Within, Overlap, Begin, SourceRange
    <3>4. InBand(r, j).beg = r.beg BY <2>1, InBandIsRange
    <3> QED BY <3>1, <3>3, <3>4 DEF Hull
  <2>6. H(j).end = r.end \/ \E v \in V : Overlap(v, InBand(r, j)) /\ H(j).end = v.end
    <3> DEFINE q == InBand(r, j)
               x == [f |-> q.f, k |-> q.k, p |-> q.end - 1]
    <3>1. Covered(V, x) => At(V, x) \in V /\ Within(x, At(V, x)) BY AtFinds
    <3>2. q \in SourceRange BY <2>1, InBandIsRange
    <3>3. Covered(V, x) => Overlap(At(V, x), q)
      BY <1>1, <3>1, <3>2, SizeAssumption DEF Within, Overlap, SourceRange
    <3>4. q.end = r.end BY <2>1, InBandIsRange
    <3> QED BY <3>1, <3>3, <3>4 DEF Hull
  <2>7. H(j - 1).beg <= r.beg /\ r.end <= H(j - 1).end
    BY <2>1, <2>3, InBandIsRange DEF Encloses
  <2>8. H(j - 1).beg <= H(j).beg /\ H(j).end <= H(j - 1).end
    BY <2>4, <2>5, <2>6, <2>7
  <2>9. Encloses(H(j - 1), InBand(H(j), j - 1))
    BY <2>1, <2>2, <2>8, InBandIsRange DEF Encloses
  <2> QED BY <1>2, <2>1, <2>9
<1>5. ASSUME NEW j \in bands PROVE H(j).k = j
  <2> DEFINE q == InBand(r, j)
  <2>1. q \in SourceRange /\ q.k = j BY InBandIsRange
  <2> HIDE DEF q
  <2>2. Hull(V, q).k = q.k BY <1>1, <2>1, HullEncloses
  <2> QED BY <2>1, <2>2 DEF q
<1> QED BY <1>2, <1>3, <1>4, <1>5 DEF Closed, W

\* A set of natural numbers has a least element.
LEMMA Least ==
  ASSUME NEW M \in SUBSET Nat, M # {}
  PROVE  \E m \in M : \A n \in M : m <= n
<1> DEFINE Less == {ss \in Nat \X Nat : ss[1] < ss[2]}
<1>1. IsWellFoundedOn(Less, Nat) BY NatLessThanWellFounded, Zenon DEF OpToRel
<1>2. \A m, n \in Nat : n < m => <<n, m>> \in Less OBVIOUS
<1> HIDE DEF Less
<1>3. PICK m \in M : \A n \in M : ~(<<n, m>> \in Less) BY <1>1, WFMin
<1>4. ASSUME NEW n \in M PROVE m <= n
  <2>1. m \in Nat /\ n \in Nat OBVIOUS
  <2>2. ~(n < m) BY <1>2, <1>3, <2>1
  <2> QED BY <2>1, <2>2
<1> QED BY <1>4

\* Of the ranges of one file, some range begins last.
LEMMA LastBegin ==
  ASSUME NEW T \in SUBSET SourceRange, T # {}, NEW f, \A t \in T : t.f = f
  PROVE  \E t \in T : \A u \in T : u.beg <= t.beg
<1> DEFINE M == {Size[f] - t.beg : t \in T}
<1>1. \A t \in T : Size[f] \in Nat /\ t.beg \in Nat /\ Size[f] - t.beg \in Nat
  BY SizeAssumption DEF SourceRange
<1>2. M \subseteq Nat /\ M # {} BY <1>1
<1> HIDE DEF M
<1>4. PICK m \in M : \A n \in M : m <= n BY <1>2, Least
<1>5. PICK t \in T : m = Size[f] - t.beg BY DEF M
<1>6. \A u \in T : m <= Size[f] - u.beg BY <1>4 DEF M
<1> QED BY <1>1, <1>5, <1>6

\* Of the edges that become one edge, some edge is written last.
LEMMA LastWrittenIn ==
  ASSUME NEW V \in SUBSET SourceRange, NoOverlap(V),
         NEW S \in SUBSET (V \X V), S # {},
         \A e, d \in S : /\ e[1].f = d[1].f /\ e[1].k = d[1].k
                         /\ e[2].f = d[2].f /\ e[2].k = d[2].k
  PROVE  /\ LastWritten(S) \in S
         /\ \A d \in S : d = LastWritten(S) \/ WrittenAfter(LastWritten(S), d)
<1>0. \A a, b \in V : a.f = b.f /\ a.k = b.k /\ a.beg = b.beg => a = b
  BY DEF NoOverlap, Overlap, SourceRange
<1>1. PICK s \in S : TRUE OBVIOUS
<1>2. \A e \in S : e = <<e[1], e[2]>> /\ e[1] \in V /\ e[2] \in V OBVIOUS
<1>3. \A a, b \in V : a.beg \in Nat /\ b.beg \in Nat BY DEF SourceRange
<1>4. CASE s[1].k <= s[2].k
  <2> DEFINE A == {e[1] : e \in S}
  <2>1. A \in SUBSET SourceRange /\ A # {} /\ \A a \in A : a.f = s[1].f BY <1>1, <1>2
  <2>2. PICK a \in A : \A u \in A : u.beg <= a.beg BY <2>1, LastBegin
  <2> DEFINE B == {e[2] : e \in {d \in S : d[1] = a}}
  <2>3. B \in SUBSET SourceRange /\ B # {} /\ \A b \in B : b.f = s[2].f BY <1>1, <1>2
  <2>4. PICK b \in B : \A u \in B : u.beg <= b.beg BY <2>3, LastBegin
  <2>5. <<a, b>> \in S BY <1>2
  <2>6. \A d \in S : d = <<a, b>> \/ WrittenAfter(<<a, b>>, d)
    <3> SUFFICES ASSUME NEW d \in S, d # <<a, b>> PROVE WrittenAfter(<<a, b>>, d)
      OBVIOUS
    <3>1. a.k <= b.k BY <1>1, <1>4, <2>5
    <3>2. d[1].beg <= a.beg /\ a.f = d[1].f /\ a.k = d[1].k BY <2>2, <2>5
    <3>3. CASE d[1] = a
      <4>1. d[2] \in B BY <3>3
      <4>2. d[2].beg <= b.beg /\ b.f = d[2].f /\ b.k = d[2].k BY <2>4, <2>5, <4>1
      <4>3. d[2] # b BY <1>2, <3>3
      <4>4. d[2] \in V /\ b \in V BY <1>2, <2>5
      <4>5. d[2].beg # b.beg BY <1>0, <4>2, <4>3, <4>4
      <4>6. b.beg > d[2].beg BY <1>3, <4>2, <4>4, <4>5
      <4> QED BY <3>1, <3>3, <4>6 DEF WrittenAfter
    <3>4. CASE d[1] # a
      <4>1. d[1] \in V /\ a \in V BY <1>2, <2>5
      <4>2. d[1].beg # a.beg BY <1>0, <3>2, <3>4, <4>1
      <4>3. a.beg > d[1].beg BY <1>3, <3>2, <4>1, <4>2
      <4> QED BY <3>1, <4>3 DEF WrittenAfter
    <3> QED BY <3>3, <3>4
  <2> QED BY <2>5, <2>6 DEF LastWritten
<1>5. CASE ~(s[1].k <= s[2].k)
  <2> DEFINE A == {e[2] : e \in S}
  <2>1. A \in SUBSET SourceRange /\ A # {} /\ \A a \in A : a.f = s[2].f BY <1>1, <1>2
  <2>2. PICK a \in A : \A u \in A : u.beg <= a.beg BY <2>1, LastBegin
  <2> DEFINE B == {e[1] : e \in {d \in S : d[2] = a}}
  <2>3. B \in SUBSET SourceRange /\ B # {} /\ \A b \in B : b.f = s[1].f BY <1>1, <1>2
  <2>4. PICK b \in B : \A u \in B : u.beg <= b.beg BY <2>3, LastBegin
  <2>5. <<b, a>> \in S BY <1>2
  <2>6. \A d \in S : d = <<b, a>> \/ WrittenAfter(<<b, a>>, d)
    <3> SUFFICES ASSUME NEW d \in S, d # <<b, a>> PROVE WrittenAfter(<<b, a>>, d)
      OBVIOUS
    <3>1. ~(b.k <= a.k) BY <1>1, <1>5, <2>5
    <3>2. d[2].beg <= a.beg /\ a.f = d[2].f /\ a.k = d[2].k BY <2>2, <2>5
    <3>3. CASE d[2] = a
      <4>1. d[1] \in B BY <3>3
      <4>2. d[1].beg <= b.beg /\ b.f = d[1].f /\ b.k = d[1].k BY <2>4, <2>5, <4>1
      <4>3. d[1] # b BY <1>2, <3>3
      <4>4. d[1] \in V /\ b \in V BY <1>2, <2>5
      <4>5. d[1].beg # b.beg BY <1>0, <4>2, <4>3, <4>4
      <4>6. b.beg > d[1].beg BY <1>3, <4>2, <4>4, <4>5
      <4> QED BY <3>1, <3>3, <4>6 DEF WrittenAfter
    <3>4. CASE d[2] # a
      <4>1. d[2] \in V /\ a \in V BY <1>2, <2>5
      <4>2. d[2].beg # a.beg BY <1>0, <3>2, <3>4, <4>1
      <4>3. a.beg > d[2].beg BY <1>3, <3>2, <4>1, <4>2
      <4> QED BY <3>1, <4>3 DEF WrittenAfter
    <3> QED BY <3>3, <3>4
  <2> QED BY <2>5, <2>6 DEF LastWritten
<1> QED BY <1>4, <1>5

\* Positions of a file keep their vertex when the vertex is enclosed by another.
LEMMA EnclosesTransitive ==
  ASSUME NEW a \in SourceRange, NEW b \in SourceRange, NEW c \in SourceRange,
         Encloses(a, b), Encloses(b, c)
  PROVE  Encloses(a, c)
BY DEF Encloses, SourceRange

LEMMA WithinEnclosing ==
  ASSUME NEW a \in SourceRange, NEW b \in SourceRange, Encloses(a, b),
         NEW x \in Pos, Within(x, b)
  PROVE  Within(x, a)
BY DEF Encloses, Within, SourceRange, Pos

\* An edge is found again between the vertices its two ends moved to, unless they
\* became one vertex.
LEMMA CodeEdges ==
  ASSUME NEW g, IsGraph(g), NoOverlap(g.verts), NEW r \in SourceRange,
         NEW bands \in SUBSET Nat, NEW e \in DOMAIN g.edge
  PROVE  LET a == Moved(g.verts, r, bands, e[1])
             b == Moved(g.verts, r, bands, e[2])
         IN a = b \/ <<a, b>> \in DOMAIN CodeIn(g, r, bands).edge
<1> DEFINE V == g.verts
<1>1. e[1] \in V /\ e[2] \in V BY DEF IsGraph
<1>2. CASE e \in KeptEdges(g, r, bands)
  BY <1>2 DEF CodeIn, MovedEdge
<1>3. CASE e \notin KeptEdges(g, r, bands)
  <2>1. /\ e[1] \in Gone(V, r, bands) /\ e[2] \in Gone(V, r, bands) /\ e[1].k = e[2].k
    BY <1>3 DEF KeptEdges
  <2> QED BY <2>1 DEF Moved
<1> QED BY <1>2, <1>3

\* code leaves a graph: in particular every edge still joins vertices and has the
\* type of an edge it comes from.
LEMMA CodeGraph ==
  ASSUME NEW g, IsGraph(g), NoOverlap(g.verts), NEW r \in SourceRange,
         NEW bands \in SUBSET Nat
  PROVE  IsGraph(CodeIn(g, r, bands))
<1> DEFINE V == g.verts
           h == CodeIn(g, r, bands)
           M(v) == Moved(V, r, bands, v)
           E == KeptEdges(g, r, bands)
           to(e) == MovedEdge(V, r, bands, e)
           S(d) == {e \in E : to(e) = d}
<1>1. V \in SUBSET SourceRange /\ NoOverlap(V) BY DEF IsGraph
<1>2. h = [verts |-> h.verts, edge |-> h.edge, incs |-> h.incs] BY DEF CodeIn
<1>3. h.verts \subseteq SourceRange /\ \A v \in V : M(v) \in h.verts BY CodeVerts
<1>4. E \subseteq V \X V /\ E \subseteq DOMAIN g.edge BY DEF KeptEdges, IsGraph
<1>5. DOMAIN h.edge = {to(e) : e \in E} BY DEF CodeIn
<1>6. DOMAIN h.edge \subseteq h.verts \X h.verts
  <2>1. \A e \in E : e[1] \in V /\ e[2] \in V BY <1>4
  <2> QED BY <1>3, <1>5, <2>1 DEF MovedEdge
<1>7. \A v \in V : M(v) \in SourceRange /\ M(v).f = v.f /\ M(v).k = v.k
  BY <1>1, MovedEncloses DEF Encloses
<1>8. ASSUME NEW d \in DOMAIN h.edge PROVE h.edge[d] \in EdgeTypes
  <2>1. h.edge[d] = g.edge[LastWritten(S(d))] BY <1>5 DEF CodeIn
  <2>2. S(d) \in SUBSET (V \X V) /\ S(d) # {} BY <1>4, <1>5
  <2>3. \A e \in S(d) : /\ e[1] \in V /\ e[2] \in V
                        /\ M(e[1]) = d[1] /\ M(e[2]) = d[2]
    BY <2>2 DEF MovedEdge
  <2>4. \A e, c \in S(d) : /\ e[1].f = c[1].f /\ e[1].k = c[1].k
                           /\ e[2].f = c[2].f /\ e[2].k = c[2].k
    BY <1>7, <2>3
  <2> HIDE DEF S
  <2>5. LastWritten(S(d)) \in S(d) BY <1>1, <2>2, <2>4, LastWrittenIn
  <2>6. S(d) \subseteq DOMAIN g.edge BY <1>4 DEF S
  <2> QED BY <2>1, <2>5, <2>6 DEF IsGraph
<1>9. DOMAIN h.incs = h.verts BY DEF CodeIn
<1>10. ASSUME NEW w \in h.verts PROVE h.incs[w] \subseteq Nat \X Files
  <2>1. h.incs[w] = IncsOf(g, r, bands, w) BY DEF CodeIn
  <2>2. ASSUME NEW v \in V, M(v) = w, NEW i \in g.incs[v]
        PROVE  <<i[1] + v.beg - w.beg, i[2]>> \in Nat \X Files
    <3>1. w.beg <= v.beg /\ v.beg \in Nat /\ w.beg \in Nat
      BY <1>1, <1>7, <2>2, MovedEncloses DEF Encloses, SourceRange
    <3>2. i[1] \in Nat /\ i[2] \in Files BY DEF IsGraph
    <3>3. i[1] + v.beg - w.beg \in Nat BY <3>1, <3>2
    <3> QED BY <3>2, <3>3
  <2> QED BY <2>1, <2>2 DEF IncsOf
<1>11. /\ h.edge = [d \in DOMAIN h.edge |-> h.edge[d]]
       /\ h.incs = [w \in h.verts |-> h.incs[w]]
  BY DEF CodeIn
<1> HIDE DEF h
<1>12. h.edge \in [DOMAIN h.edge -> EdgeTypes] BY <1>8, <1>11
<1>13. h.incs \in [h.verts -> SUBSET (Nat \X Files)] BY <1>10, <1>11
<1>14. IsGraph(h) BY <1>2, <1>3, <1>6, <1>12, <1>13 DEF IsGraph
<1> QED BY <1>14 DEF h

-----------------------------------------------------------------------------
(* What every operation of DepGraph preserves, and what it never loses.    *)

Good(h) == IsGraph(h) /\ NoOverlap(h.verts) /\ Closed(h.verts)

Keeps(h1, h2) ==
  /\ \A v \in h1.verts : \E w \in h2.verts : Encloses(w, v)
  /\ \A x, y \in Pos : Connected(h1, x, y) => Connected(h2, x, y)
  /\ \A I : IncludesIn(h1, I) => IncludesIn(h2, I)

LEMMA KeepsReflexive ==
  ASSUME NEW h, IsGraph(h)
  PROVE  Keeps(h, h)
BY DEF Keeps, IsGraph, Encloses, SourceRange

LEMMA KeepsTransitive ==
  ASSUME NEW h1, NEW h2, NEW h3, IsGraph(h1), IsGraph(h2), IsGraph(h3),
         Keeps(h1, h2), Keeps(h2, h3)
  PROVE  Keeps(h1, h3)
<1>1. \A v \in h1.verts : \E w \in h3.verts : Encloses(w, v)
  <2> TAKE v \in h1.verts
  <2>1. PICK u \in h2.verts : Encloses(u, v) BY DEF Keeps
  <2>2. PICK w \in h3.verts : Encloses(w, u) BY DEF Keeps
  <2>3. v \in SourceRange /\ u \in SourceRange /\ w \in SourceRange BY DEF IsGraph
  <2> QED BY <2>1, <2>2, <2>3, EnclosesTransitive
<1> QED BY <1>1, Zenon DEF Keeps

LEMMA KeepsCovered ==
  ASSUME NEW h1, NEW h2, IsGraph(h1), IsGraph(h2), Keeps(h1, h2),
         NEW x \in Pos, Covered(h1.verts, x)
  PROVE  Covered(h2.verts, x)
<1>1. PICK v \in h1.verts : Within(x, v) BY DEF Covered
<1>2. PICK w \in h2.verts : Encloses(w, v) BY DEF Keeps
<1>3. v \in SourceRange /\ w \in SourceRange BY DEF IsGraph
<1> QED BY <1>1, <1>2, <1>3, WithinEnclosing DEF Covered

\* code in bands that reach down to band 0.
LEMMA CodeInKeeps ==
  ASSUME NEW g, IsGraph(g), NoOverlap(g.verts), NEW r \in SourceRange,
         NEW bands \in SUBSET Nat
  PROVE  Keeps(g, CodeIn(g, r, bands))
<1> DEFINE V == g.verts
           h == CodeIn(g, r, bands)
           M(v) == Moved(V, r, bands, v)
<1>1. V \in SUBSET SourceRange /\ NoOverlap(V) BY DEF IsGraph
<1>2. \A v \in V : M(v) \in h.verts BY CodeVerts
<1>3. \A v \in V : M(v) \in SourceRange /\ Encloses(M(v), v) BY <1>1, MovedEncloses
<1>4. \A e \in DOMAIN g.edge : M(e[1]) = M(e[2]) \/ <<M(e[1]), M(e[2])>> \in DOMAIN h.edge
  BY CodeEdges
<1> HIDE DEF h, M
<1>5. ASSUME NEW x \in Pos, NEW y \in Pos, Connected(g, x, y)
      PROVE  Connected(h, x, y)
  <2>1. PICK a \in V, b \in V :
           /\ Within(x, a) /\ Within(y, b)
           /\ a = b \/ <<a, b>> \in DOMAIN g.edge \/ <<b, a>> \in DOMAIN g.edge
    BY <1>5 DEF Connected
  <2>2. Within(x, M(a)) /\ Within(y, M(b)) BY <1>1, <1>3, <2>1, WithinEnclosing
  <2>3. <<a, b>> \in DOMAIN g.edge => M(a) = M(b) \/ <<M(a), M(b)>> \in DOMAIN h.edge
    BY <1>4
  <2>4. <<b, a>> \in DOMAIN g.edge => M(b) = M(a) \/ <<M(b), M(a)>> \in DOMAIN h.edge
    BY <1>4
  <2> QED BY <1>2, <2>1, <2>2, <2>3, <2>4 DEF Connected
<1>6. ASSUME NEW I, IncludesIn(g, I)
      PROVE  IncludesIn(h, I)
  <2> SUFFICES ASSUME NEW w \in h.verts, NEW j \in h.incs[w]
               PROVE  LET x == [f |-> w.f, k |-> w.k, p |-> w.beg + j[1]]
                      IN Within(x, w) /\ <<x, j[2]>> \in I
    BY DEF IncludesIn
  <2>1. h.incs[w] = IncsOf(g, r, bands, w) BY DEF h, CodeIn
  <2>2. PICK v \in V : M(v) = w /\ \E i \in g.incs[v] : j = <<i[1] + v.beg - w.beg, i[2]>>
    BY <2>1 DEF IncsOf, M
  <2>3. PICK i \in g.incs[v] : j = <<i[1] + v.beg - w.beg, i[2]>> BY <2>2
  <2>4. v \in SourceRange /\ w \in SourceRange /\ Encloses(w, v) BY <1>1, <1>3, <2>2
  <2>5. i[1] \in Nat BY DEF IsGraph
  <2>6. v.beg \in Nat /\ w.beg \in Nat /\ v.beg + i[1] \in Nat BY <2>4, <2>5 DEF SourceRange
  <2>7. w.beg + j[1] = v.beg + i[1] BY <2>3, <2>5, <2>6
  <2>8. w.f = v.f /\ w.k = v.k BY <2>4 DEF Encloses
  <2> DEFINE x == [f |-> v.f, k |-> v.k, p |-> v.beg + i[1]]
  <2>9. Within(x, v) /\ <<x, i[2]>> \in I BY <1>6 DEF IncludesIn
  <2>10. x \in Pos BY <2>4, <2>6 DEF Pos, SourceRange
  <2>11. Within(x, w) BY <2>4, <2>9, <2>10, WithinEnclosing
  <2> QED BY <2>3, <2>7, <2>8, <2>9, <2>11
<1> QED BY <1>2, <1>3, <1>5, <1>6 DEF Keeps, h

LEMMA CodeGood ==
  ASSUME NEW g, Good(g), NEW r \in SourceRange
  PROVE  /\ Good(Code(g, r)) /\ Keeps(g, Code(g, r))
         /\ Covered(Code(g, r).verts, Begin(r))
<1> DEFINE bands == 0 .. r.k
<1>1. /\ r.k \in Nat /\ bands \in SUBSET Nat /\ r.k \in bands
      /\ \A j \in bands : j > 0 => j - 1 \in bands
  BY DEF SourceRange
<1>2. Code(g, r) = CodeIn(g, r, bands) BY DEF Code
<1> HIDE DEF bands
<1>3. IsGraph(g) /\ NoOverlap(g.verts) /\ Closed(g.verts) BY DEF Good
<1>4. IsGraph(Code(g, r)) BY <1>1, <1>2, <1>3, CodeGraph
<1>5. NoOverlap(Code(g, r).verts) BY <1>1, <1>2, <1>3, CodeVerts
<1>6. Closed(Code(g, r).verts) BY <1>1, <1>2, <1>3, CodeClosed
<1>7. Keeps(g, Code(g, r)) BY <1>1, <1>2, <1>3, CodeInKeeps
<1>8. Covered(Code(g, r).verts, Begin(r))
  <2> DEFINE H == Hull(g.verts, InBand(r, r.k))
  <2>1. H \in Code(g, r).verts /\ Encloses(H, InBand(r, r.k)) BY <1>1, <1>2, <1>3, CodeVerts
  <2>2. InBand(r, r.k) = r BY DEF InBand, SourceRange
  <2>3. H \in SourceRange BY <1>4, <2>1 DEF IsGraph
  <2>4. Within(Begin(r), H) BY <2>1, <2>2, <2>3 DEF Within, Begin, Encloses, SourceRange
  <2> QED BY <2>1, <2>4 DEF Covered
<1> QED BY <1>4, <1>5, <1>6, <1>7, <1>8 DEF Good

\* code<true> stops at the first band without overlap.  As the graph is closed, a
\* range that overlaps something in its own band does so in every lower band: it
\* is marked in all of them or in none.
LEMMA CodeIfExistsGood ==
  ASSUME NEW g, Good(g), NEW r \in SourceRange
  PROVE  Good(CodeIfExists(g, r)) /\ Keeps(g, CodeIfExists(g, r))
<1> DEFINE hit(i) == \E v \in g.verts : Overlap(v, InBand(r, i))
           bands == {j \in 0 .. r.k : \A i \in j .. r.k : hit(i)}
<1>1. r.k \in Nat /\ bands \in SUBSET Nat BY DEF SourceRange
<1>2. CodeIfExists(g, r) = CodeIn(g, r, bands) BY DEF CodeIfExists
<1>3. IsGraph(g) /\ NoOverlap(g.verts) /\ Closed(g.verts) BY DEF Good
<1>4. ASSUME NEW j \in bands, j > 0 PROVE j - 1 \in bands
  <2>1. j \in Nat /\ j - 1 \in 0 .. r.k /\ j \in j .. r.k BY <1>1, <1>4
  <2>2. PICK v \in g.verts : Overlap(v, InBand(r, j)) BY <2>1
  <2>3. v \in SourceRange /\ v.k = j /\ v.k > 0
    BY <1>3, <1>4, <2>1, <2>2, InBandIsRange DEF Overlap, IsGraph
  <2>4. PICK w \in g.verts : Encloses(w, InBand(v, j - 1)) BY <1>3, <2>3 DEF Closed
  <2>5. w \in SourceRange BY <1>3 DEF IsGraph
  <2>6. j - 1 \in Nat BY <2>1
  <2>7. Overlap(w, InBand(r, j - 1))
    <3>1. \A s \in SourceRange, i \in Nat :
            /\ InBand(s, i).f = s.f /\ InBand(s, i).k = i
            /\ InBand(s, i).beg = s.beg /\ InBand(s, i).end = s.end
      BY InBandIsRange
    <3>2. v.f = r.f /\ v.beg < r.end /\ r.beg < v.end BY <2>1, <2>2, <3>1 DEF Overlap
    <3>3. w.f = v.f /\ w.k = j - 1 /\ w.beg <= v.beg /\ v.end <= w.end
      BY <2>3, <2>4, <2>6, <3>1 DEF Encloses
    <3>4. w.beg < r.end /\ r.beg < w.end BY <2>3, <2>5, <3>2, <3>3 DEF SourceRange
    <3> QED BY <2>6, <3>1, <3>2, <3>3, <3>4 DEF Overlap
  <2>8. \A i \in (j - 1) .. r.k : i = j - 1 \/ i \in j .. r.k BY <1>1, <2>1
  <2> QED BY <2>1, <2>7, <2>8
<1> HIDE DEF bands
<1>5. IsGraph(CodeIfExists(g, r)) BY <1>1, <1>2, <1>3, CodeGraph
<1>6. NoOverlap(CodeIfExists(g, r).verts) BY <1>1, <1>2, <1>3, CodeVerts
<1>7. Closed(CodeIfExists(g, r).verts) BY <1>1, <1>2, <1>3, <1>4, CodeClosed
<1>8. Keeps(g, CodeIfExists(g, r)) BY <1>1, <1>2, <1>3, CodeInKeeps
<1> QED BY <1>5, <1>6, <1>7, <1>8 DEF Good

\* Edges between vertices may be put, with any type.
LEMMA PutEdgesGood ==
  ASSUME NEW h, Good(h), NEW E \in SUBSET (h.verts \X h.verts), NEW t \in EdgeTypes
  PROVE  Good(PutEdges(h, E, t)) /\ Keeps(h, PutEdges(h, E, t))
<1> DEFINE k == PutEdges(h, E, t)
<1>1. h = [verts |-> h.verts, edge |-> h.edge, incs |-> h.incs] BY DEF Good, IsGraph
<1>2. k = [verts |-> h.verts,
           edge  |-> [d \in DOMAIN h.edge \cup E |-> IF d \in E THEN t ELSE h.edge[d]],
           incs  |-> h.incs]
  BY <1>1 DEF PutEdges
<1>3. Good(k) BY <1>2 DEF Good, IsGraph
<1>4. \A x, y \in Pos : Connected(h, x, y) => Connected(k, x, y) BY <1>2 DEF Connected
<1>5. \A v \in h.verts : \E w \in k.verts : Encloses(w, v)
  BY <1>2 DEF Good, IsGraph, Encloses, SourceRange
<1>6. \A I : IncludesIn(h, I) => IncludesIn(k, I)
  <2>1. k.verts = h.verts /\ k.incs = h.incs BY <1>2
  <2> HIDE DEF k
  <2> QED BY <2>1 DEF IncludesIn
<1> QED BY <1>3, <1>4, <1>5, <1>6 DEF Keeps

LEMMA AddEdgeGood ==
  ASSUME NEW h, Good(h), NEW a \in h.verts, NEW b \in h.verts
  PROVE  /\ Good(AddEdge(h, <<a, b>>)) /\ Keeps(h, AddEdge(h, <<a, b>>))
         /\ AddEdge(h, <<a, b>>).verts = h.verts
         /\ AddEdge(h, <<a, b>>).incs = h.incs
         /\ DOMAIN AddEdge(h, <<a, b>>).edge = DOMAIN h.edge \cup {<<a, b>>}
<1> DEFINE k == AddEdge(h, <<a, b>>)
<1>1. h = [verts |-> h.verts, edge |-> h.edge, incs |-> h.incs] BY DEF Good, IsGraph
<1>2. k = [verts |-> h.verts,
           edge  |-> [d \in DOMAIN h.edge \cup {<<a, b>>} |->
                        IF d \in DOMAIN h.edge THEN h.edge[d] ELSE "NORMAL"],
           incs  |-> h.incs]
  BY <1>1 DEF AddEdge
<1>3. Good(k) BY <1>2 DEF Good, IsGraph, EdgeTypes
<1>4. \A x, y \in Pos : Connected(h, x, y) => Connected(k, x, y) BY <1>2 DEF Connected
<1>5. \A v \in h.verts : \E w \in k.verts : Encloses(w, v)
  BY <1>2 DEF Good, IsGraph, Encloses, SourceRange
<1>6. \A I : IncludesIn(h, I) => IncludesIn(k, I)
  <2>1. k.verts = h.verts /\ k.incs = h.incs BY <1>2
  <2> HIDE DEF k
  <2> QED BY <2>1 DEF IncludesIn
<1> QED BY <1>2, <1>3, <1>4, <1>5, <1>6 DEF Keeps

\* Turning an edge around keeps its two ends connected.
LEMMA ReverseGood ==
  ASSUME NEW h, Good(h), NEW a \in h.verts, NEW b \in h.verts
  PROVE  LET k == AddEdge(DelEdge(h, <<b, a>>), <<a, b>>)
         IN Good(k) /\ Keeps(h, k) /\ k.verts = h.verts /\ <<a, b>> \in DOMAIN k.edge
<1> DEFINE m == DelEdge(h, <<b, a>>)
           k == AddEdge(m, <<a, b>>)
<1>1. h = [verts |-> h.verts, edge |-> h.edge, incs |-> h.incs] BY DEF Good, IsGraph
<1>2. m = [verts |-> h.verts,
           edge  |-> [d \in DOMAIN h.edge \ {<<b, a>>} |-> h.edge[d]],
           incs  |-> h.incs]
  BY <1>1 DEF DelEdge
<1>3. Good(m) BY <1>2 DEF Good, IsGraph
<1>4. m.verts = h.verts /\ m.incs = h.incs /\ DOMAIN m.edge = DOMAIN h.edge \ {<<b, a>>} BY <1>2
<1> HIDE DEF m
<1>5. /\ Good(k) /\ k.verts = h.verts /\ k.incs = h.incs
      /\ DOMAIN k.edge = (DOMAIN h.edge \ {<<b, a>>}) \cup {<<a, b>>}
  BY <1>3, <1>4, AddEdgeGood
<1> HIDE DEF k
<1>6. ASSUME NEW x \in Pos, NEW y \in Pos, Connected(h, x, y)
      PROVE  Connected(k, x, y)
  <2>1. PICK c \in h.verts, d \in h.verts :
           /\ Within(x, c) /\ Within(y, d)
           /\ c = d \/ <<c, d>> \in DOMAIN h.edge \/ <<d, c>> \in DOMAIN h.edge
    BY <1>6 DEF Connected
  <2>2. CASE c = d BY <1>5, <2>1, <2>2 DEF Connected
  <2>3. CASE <<c, d>> = <<b, a>> \/ <<d, c>> = <<b, a>>
    <3>1. <<c, d>> \in DOMAIN k.edge \/ <<d, c>> \in DOMAIN k.edge BY <1>5, <2>3
    <3> QED BY <1>5, <2>1, <3>1 DEF Connected
  <2>4. CASE c # d /\ <<c, d>> # <<b, a>> /\ <<d, c>> # <<b, a>>
    <3>1. <<c, d>> \in DOMAIN k.edge \/ <<d, c>> \in DOMAIN k.edge BY <1>5, <2>1, <2>4
    <3> QED BY <1>5, <2>1, <3>1 DEF Connected
  <2> QED BY <2>2, <2>3, <2>4
<1>7. \A v \in h.verts : \E w \in k.verts : Encloses(w, v)
  BY <1>5 DEF Good, IsGraph, Encloses, SourceRange
<1>8. <<a, b>> \in DOMAIN k.edge BY <1>5
<1>9. \A I : IncludesIn(h, I) => IncludesIn(k, I) BY <1>5 DEF IncludesIn
<1> QED BY <1>5, <1>6, <1>7, <1>8, <1>9 DEF Keeps, k, m

\* use connects user and usee.
LEMMA UseGood ==
  ASSUME NEW g, Good(g), NEW user \in SourceRange, NEW usee \in SourceRange
  PROVE  /\ Good(Use(g, user, usee)) /\ Keeps(g, Use(g, user, usee))
         /\ Connected(Use(g, user, usee), Begin(user), Begin(usee))
<1> DEFINE c == Code(g, user)
           h == Code(c, usee)
           a == At(h.verts, Begin(user))
           b == At(h.verts, Begin(usee))
<1>1. Good(c) /\ Keeps(g, c) /\ Covered(c.verts, Begin(user)) BY CodeGood
<1>2. Good(h) /\ Keeps(c, h) /\ Covered(h.verts, Begin(usee)) BY <1>1, CodeGood
<1>3. IsGraph(g) /\ IsGraph(c) /\ IsGraph(h) BY <1>1, <1>2 DEF Good
<1>4. Keeps(g, h) BY <1>1, <1>2, <1>3, KeepsTransitive
<1>5. Begin(user) \in Pos /\ Begin(usee) \in Pos BY DEF Begin, Pos, SourceRange
<1>6. Covered(h.verts, Begin(user)) BY <1>1, <1>2, <1>3, <1>5, KeepsCovered
<1>7. /\ a \in h.verts /\ Within(Begin(user), a)
      /\ b \in h.verts /\ Within(Begin(usee), b)
  BY <1>2, <1>6, AtFinds
<1>8. CASE a = b
  <2>1. Use(g, user, usee) = h BY <1>8 DEF Use
  <2> QED BY <1>2, <1>4, <1>7, <1>8, <2>1 DEF Connected
<1>9. CASE a # b
  <2>1. Use(g, user, usee) = AddEdge(DelEdge(h, <<b, a>>), <<a, b>>) BY <1>9 DEF Use
  <2> DEFINE k == Use(g, user, usee)
  <2> HIDE DEF h, a, b
  <2>2. Good(k) /\ Keeps(h, k) /\ k.verts = h.verts /\ <<a, b>> \in DOMAIN k.edge
    BY <1>2, <1>7, <2>1, ReverseGood
  <2>3. Keeps(g, k) BY <1>3, <1>4, <2>2, KeepsTransitive DEF Good
  <2>4. Connected(k, Begin(user), Begin(usee)) BY <1>7, <2>2 DEF Connected
  <2> QED BY <2>2, <2>3, <2>4
<1> QED BY <1>8, <1>9

\* use_if_user_exists connects them when there is code at the user's position.
LEMMA UseIfUserExistsGood ==
  ASSUME NEW g, Good(g), NEW x \in Pos, NEW usee \in SourceRange
  PROVE  LET k == UseIfUserExists(g, x, usee)
         IN Good(k) /\ Keeps(g, k) /\ (Covered(k.verts, x) => Connected(k, x, Begin(usee)))
<1> DEFINE h == Code(g, usee)
           a == At(h.verts, x)
           b == At(h.verts, Begin(usee))
           k == UseIfUserExists(g, x, usee)
<1>1. Good(h) /\ Keeps(g, h) /\ Covered(h.verts, Begin(usee)) BY CodeGood
<1>2. IsGraph(g) /\ IsGraph(h) BY <1>1 DEF Good
<1>3. b \in h.verts /\ Within(Begin(usee), b) BY <1>1, AtFinds
<1>4. CASE ~Covered(h.verts, x)
  <2>1. k = h BY <1>4 DEF UseIfUserExists
  <2> QED BY <1>1, <1>4, <2>1
<1>5. CASE Covered(h.verts, x)
  <2>1. a \in h.verts /\ Within(x, a) BY <1>5, AtFinds
  <2>2. CASE a = b \/ <<b, a>> \in DOMAIN h.edge
    <3>1. k = h BY <2>2 DEF UseIfUserExists
    <3> QED BY <1>1, <1>3, <2>1, <2>2, <3>1 DEF Connected
  <2>3. CASE ~(a = b \/ <<b, a>> \in DOMAIN h.edge)
    <3>1. k = AddEdge(h, <<a, b>>) BY <1>5, <2>3 DEF UseIfUserExists
    <3> HIDE DEF h, a, b, k
    <3>2. /\ Good(k) /\ Keeps(h, k) /\ k.verts = h.verts
          /\ <<a, b>> \in DOMAIN k.edge
      BY <1>1, <1>3, <2>1, <3>1, AddEdgeGood
    <3>3. Keeps(g, k) BY <1>1, <1>2, <3>2, KeepsTransitive DEF Good
    <3>4. Connected(k, x, Begin(usee)) BY <1>3, <2>1, <3>2 DEF Connected
    <3> QED BY <3>2, <3>3, <3>4 DEF k
  <2> QED BY <2>2, <2>3
<1> QED BY <1>4, <1>5

LEMMA FollowUsersOfGood ==
  ASSUME NEW g, Good(g), NEW prior \in SourceRange, NEW following \in SourceRange,
         NEW k \in FollowUsersOf(g, prior, following)
  PROVE  Good(k) /\ Keeps(g, k)
<1> DEFINE c == Code(g, following)
           h == Code(c, prior)
           n == At(h.verts, Begin(following))
           o == At(h.verts, Begin(prior))
           followed == {s \in h.verts : <<s, o>> \in DOMAIN h.edge
                                          /\ <<s, n>> \notin DOMAIN h.edge}
<1>1. Good(c) /\ Keeps(g, c) /\ Covered(c.verts, Begin(following)) BY CodeGood
<1>2. Good(h) /\ Keeps(c, h) BY <1>1, CodeGood
<1>3. IsGraph(g) /\ IsGraph(c) /\ IsGraph(h) BY <1>1, <1>2 DEF Good
<1>4. Keeps(g, h) BY <1>1, <1>2, <1>3, KeepsTransitive
<1>5. Begin(following) \in Pos BY DEF Begin, Pos, SourceRange
<1>6. Covered(h.verts, Begin(following)) BY <1>1, <1>2, <1>3, <1>5, KeepsCovered
<1>7. n \in h.verts BY <1>6, AtFinds
<1>8. CASE n = o
  <2>1. k = h BY <1>8 DEF FollowUsersOf
  <2> QED BY <1>2, <1>4, <2>1
<1>9. CASE n # o
  <2>1. PICK S \in {followed, followed \cup {n}} : k = PutEdges(h, {<<n, s>> : s \in S}, "FOLLOWS")
    BY <1>9 DEF FollowUsersOf
  <2> DEFINE E == {<<n, s>> : s \in S}
  <2>2. S \subseteq h.verts BY <1>7, <2>1
  <2>3. E \in SUBSET (h.verts \X h.verts) BY <1>7, <2>2
  <2> HIDE DEF E, h, followed
  <2>4. Good(k) /\ Keeps(h, k) BY <1>2, <2>1, <2>3, PutEdgesGood DEF E, EdgeTypes
  <2>5. Keeps(g, k) BY <1>3, <1>4, <2>4, KeepsTransitive DEF Good
  <2> QED BY <2>4, <2>5
<1> QED BY <1>8, <1>9

-----------------------------------------------------------------------------
(* The loop of code.  One turn of its do-while loop preserves LoopInv, so  *)
(* it ends with the vertices that Absorbed names and with their hull, and  *)
(* a call is CodeIn in one band (CallIsOneBand).  Bands are independent of *)
(* one another but for the edges that join them: code in some bands and    *)
(* then in a band below them is code in all of them (NextBand).  Hence     *)
(* LoopIsCode.                                                             *)

\* What holds of 0, and of every successor of a number it holds of, holds of all.
LEMMA FromZero ==
  ASSUME NEW Z, 0 \in Z, \A n \in Nat : n \in Z => n + 1 \in Z
  PROVE  \A n \in Nat : n \in Z
<1> DEFINE M == {n \in Nat : n \notin Z}
<1>1. SUFFICES ASSUME M # {} PROVE FALSE OBVIOUS
<1>2. PICK m \in M : \A n \in M : m <= n BY <1>1, Least
<1>3. m \in Nat /\ m # 0 /\ m - 1 \in Nat /\ ~(m <= m - 1) BY <1>2
<1>4. m - 1 \notin M BY <1>2, <1>3
<1> QED BY <1>2, <1>3, <1>4

\* T holds the variables of the do-while loop after every turn.
Turn(h, s) == IF Overlaps(s.map, s.intervl) THEN Swallow(h, s) ELSE s

TurnsTo(h, r, T, m) ==
  /\ T[0] = Untouched(h, r)
  /\ \A n \in Nat : n < m => T[n + 1] = Turn(h, T[n])

Turns(h, r, T) == T = [n \in Nat |-> IF n = 0 THEN Untouched(h, r) ELSE Turn(h, T[n - 1])]

\* There is such a function, found one turn at a time.
LEMMA TurnsExist ==
  ASSUME NEW h, NEW r
  PROVE  \E T : Turns(h, r, T)
<1> DEFINE u == Untouched(h, r)
           To(T, m) == TurnsTo(h, r, T, m)
           Z == {m \in Nat : \E T : To(T, m)}
<1>1. 0 \in Z
  <2> DEFINE T == [n \in {0} |-> u]
  <2>1. To(T, 0) BY DEF TurnsTo
  <2> QED BY <2>1
<1>2. ASSUME NEW m \in Nat, m \in Z PROVE m + 1 \in Z
  <2>1. PICK T : To(T, m) BY <1>2
  <2> DEFINE G == [n \in 0 .. m + 1 |-> IF n = m + 1 THEN Turn(h, T[m]) ELSE T[n]]
  <2>2. \A n \in 0 .. m : n \in 0 .. m + 1 /\ n # m + 1 OBVIOUS
  <2>3. \A n \in 0 .. m : G[n] = T[n] BY <2>2
  <2>4. G[m + 1] = Turn(h, T[m]) OBVIOUS
  <2> HIDE DEF G
  <2>5. ASSUME NEW n \in Nat, n < m + 1 PROVE G[n + 1] = Turn(h, G[n])
    <3>1. CASE n = m BY <2>3, <2>4, <3>1
    <3>2. CASE n # m
      <4>1. n < m /\ n \in 0 .. m /\ n + 1 \in 0 .. m BY <2>5, <3>2
      <4>2. T[n + 1] = Turn(h, T[n]) BY <2>1, <4>1 DEF TurnsTo
      <4> QED BY <2>3, <4>1, <4>2
    <3> QED BY <3>1, <3>2
  <2>6. G[0] = u BY <2>1, <2>3 DEF TurnsTo
  <2>7. To(G, m + 1) BY <2>5, <2>6 DEF TurnsTo
  <2> QED BY <2>7
<1>3. \A m \in Nat : \E T : To(T, m)
  <2> HIDE DEF Z
  <2>1. \A m \in Nat : m \in Z BY <1>1, <1>2, FromZero
  <2> QED BY <2>1 DEF Z
<1>4. \A T, U, m, k : m \in Nat /\ k \in Nat /\ To(T, m) /\ To(U, k) =>
                       \A n \in Nat : n <= m /\ n <= k => T[n] = U[n]
  <2> SUFFICES ASSUME NEW T, NEW U, NEW m \in Nat, NEW k \in Nat, To(T, m), To(U, k)
               PROVE  \A n \in Nat : n <= m /\ n <= k => T[n] = U[n]
    OBVIOUS
  <2> DEFINE Y == {n \in Nat : n <= m /\ n <= k => T[n] = U[n]}
  <2>1. 0 \in Y BY DEF TurnsTo
  <2>2. ASSUME NEW n \in Nat, n \in Y PROVE n + 1 \in Y
    <3>1. ASSUME n + 1 <= m, n + 1 <= k PROVE T[n + 1] = U[n + 1]
      <4>1. n < m /\ n < k /\ n <= m /\ n <= k BY <3>1
      <4>2. T[n + 1] = Turn(h, T[n]) /\ U[n + 1] = Turn(h, U[n]) BY <4>1 DEF TurnsTo
      <4> QED BY <2>2, <4>1, <4>2
    <3> QED BY <3>1
  <2> HIDE DEF Y
  <2>3. \A n \in Nat : n \in Y BY <2>1, <2>2, FromZero
  <2> QED BY <2>3 DEF Y
<1> DEFINE F == [m \in Nat |-> CHOOSE T : To(T, m)]
           D == [n \in Nat |-> F[n][n]]
<1>5. \A m \in Nat : To(F[m], m)
  <2> HIDE DEF To
  <2> QED BY <1>3
<1>6. D[0] = u BY <1>5 DEF TurnsTo
<1>7. ASSUME NEW n \in Nat, n # 0 PROVE D[n] = Turn(h, D[n - 1])
  <2>1. n - 1 \in Nat /\ n - 1 < n /\ n - 1 <= n /\ n - 1 <= n - 1 /\ (n - 1) + 1 = n BY <1>7
  <2>2. To(F[n], n) /\ To(F[n - 1], n - 1) BY <1>5, <2>1
  <2>3. F[n][n] = Turn(h, F[n][n - 1]) BY <2>1, <2>2 DEF TurnsTo
  <2> HIDE DEF F, To
  <2>4. F[n][n - 1] = F[n - 1][n - 1] BY <1>4, <2>1, <2>2
  <2> QED BY <2>1, <2>3, <2>4
<1> DEFINE E == [n \in Nat |-> IF n = 0 THEN u ELSE Turn(h, D[n - 1])]
<1>8. D = E
  <2>1. ASSUME NEW n \in Nat PROVE F[n][n] = IF n = 0 THEN u ELSE Turn(h, D[n - 1])
    <3>1. D[n] = F[n][n] OBVIOUS
    <3> HIDE DEF D
    <3> QED BY <1>6, <1>7, <3>1
  <2> HIDE DEF F
  <2> QED BY <2>1
<1>9. Turns(h, r, D) BY <1>8 DEF Turns
<1> QED BY <1>9

\* Swallowed is what the turns leave, one after the other.
LEMMA SwallowedIs ==
  ASSUME NEW h, NEW r
  PROVE  \E T : /\ T[0] = Untouched(h, r)
                /\ \A n \in Nat : T[n + 1] = Turn(h, T[n])
                /\ Swallowed(h, r) = T[Size[r.f]]
<1> DEFINE T == CHOOSE T : Turns(h, r, T)
<1>1. Turns(h, r, T) BY TurnsExist
<1>2. Swallowed(h, r) = T[Size[r.f]] BY DEF Swallowed, Turns, Turn
<1> HIDE DEF T
<1>3. \A n \in Nat : T[n] = IF n = 0 THEN Untouched(h, r) ELSE Turn(h, T[n - 1])
  BY <1>1 DEF Turns
<1>4. \A n \in Nat : T[n + 1] = Turn(h, T[n])
  <2> TAKE n \in Nat
  <2>1. n + 1 \in Nat /\ n + 1 # 0 /\ (n + 1) - 1 = n OBVIOUS
  <2> QED BY <1>3, <2>1
<1> QED BY <1>2, <1>3, <1>4

\* find returns the first of the vertices that overlap.
LEMMA FirstOverlapFinds ==
  ASSUME NEW V \in SUBSET SourceRange, NEW r, Overlaps(V, r)
  PROVE  /\ FirstOverlap(V, r) \in V /\ Overlap(FirstOverlap(V, r), r)
         /\ \A w \in V : Overlap(w, r) => FirstOverlap(V, r).beg <= w.beg
<1> DEFINE O == {v \in V : Overlap(v, r)}
           M == {v.beg : v \in O}
<1>1. M \in SUBSET Nat /\ M # {} BY DEF Overlaps, SourceRange
<1>2. PICK m \in M : \A n \in M : m <= n BY <1>1, Least
<1>3. PICK v \in O : m = v.beg OBVIOUS
<1>4. v \in V /\ Overlap(v, r) /\ \A w \in V : Overlap(w, r) => v.beg <= w.beg
  BY <1>2, <1>3
<1> QED BY <1>4 DEF FirstOverlap

\* A list as in_verts and out_verts, of what joins the vertices met to others: it has
\* the type of the edge of the vertex met last.
LastMet(V, type, met, list) ==
  /\ DOMAIN list = {x \in V : \E v \in met : <<v, x>> \in DOMAIN type}
  /\ \A x \in DOMAIN list : \E v \in met :
       /\ <<v, x>> \in DOMAIN type /\ list[x] = type[<<v, x>>]
       /\ \A w \in met : <<w, x>> \in DOMAIN type => w.beg <= v.beg

\* The edges, from their target to their source.
Reversed(h) == [p \in {q \in h.verts \X h.verts : <<q[2], q[1]>> \in DOMAIN h.edge} |->
                h.edge[<<p[2], p[1]>>]]

AbsIncludes(h, met) ==
  UNION {{<<v.beg + i[1], i[2]>> : i \in h.incs[v]} : v \in met}

\* What holds of the variables of the do-while loop after every turn.  The vertices
\* met are those that are no longer in the map.
MapInv(V, r, s) ==
  LET met == V \ s.map
  IN /\ s.map \subseteq V
     /\ \A v \in met : Overlap(v, r) /\ Encloses(s.intervl, v)
     /\ \A v \in met, w \in s.map : Overlap(w, r) => v.beg < w.beg
     /\ s.intervl \in SourceRange /\ Encloses(s.intervl, r)
     /\ s.intervl.beg = r.beg \/ \E v \in met : s.intervl.beg = v.beg
     /\ s.intervl.end = r.end \/ \E v \in met : s.intervl.end = v.end

LoopInv(h, r, s) ==
  /\ MapInv(h.verts, r, s)
  /\ LastMet(h.verts, Reversed(h), h.verts \ s.map, s.in)
  /\ LastMet(h.verts, h.edge, h.verts \ s.map, s.out)
  /\ s.abs_includes = AbsIncludes(h, h.verts \ s.map)

\* The interval grows, but overlaps nothing that the range did not overlap.
LEMMA IntervlOverlaps ==
  ASSUME NEW V \in SUBSET SourceRange, NoOverlap(V), NEW r \in SourceRange, NEW s,
         MapInv(V, r, s), NEW w \in s.map
  PROVE  Overlap(w, s.intervl) <=> Overlap(w, r)
<1> DEFINE met == V \ s.map
           i == s.intervl
<1>1. /\ w \in V /\ w \in SourceRange
      /\ i \in SourceRange /\ Encloses(i, r)
      /\ \A v \in met : v \in SourceRange /\ Overlap(v, r) /\ v # w
  BY DEF MapInv
<1>2. Overlap(w, r) => Overlap(w, i) BY <1>1 DEF Overlap, Encloses, SourceRange
<1>3. ASSUME Overlap(w, i) PROVE Overlap(w, r)
  <2>1. w.f = r.f /\ w.k = r.k BY <1>1, <1>3 DEF Overlap, Encloses
  <2>2. \A v \in met : w.end <= v.beg \/ v.end <= w.beg
    BY <1>1, <2>1 DEF NoOverlap, Overlap, SourceRange
  <2>3. w.beg < r.end
    <3>1. CASE i.end = r.end BY <1>3, <3>1 DEF Overlap
    <3>2. ASSUME NEW v \in met, i.end = v.end PROVE w.beg < r.end
      <4>1. w.beg < v.end BY <1>3, <3>2 DEF Overlap
      <4>2. v.beg < r.end BY <1>1 DEF Overlap
      <4> QED BY <1>1, <2>2, <4>1, <4>2 DEF SourceRange
    <3> QED BY <3>1, <3>2 DEF MapInv
  <2>4. r.beg < w.end
    <3>1. CASE i.beg = r.beg BY <1>3, <3>1 DEF Overlap
    <3>2. ASSUME NEW v \in met, i.beg = v.beg PROVE r.beg < w.end
      <4>1. v.beg < w.end BY <1>3, <3>2 DEF Overlap
      <4>2. r.beg < v.end BY <1>1 DEF Overlap
      <4> QED BY <1>1, <2>2, <4>1, <4>2 DEF SourceRange
    <3> QED BY <3>1, <3>2 DEF MapInv
  <2> QED BY <2>1, <2>3, <2>4 DEF Overlap
<1> QED BY <1>2, <1>3

\* The invariant of the do-while loop holds before its first turn.
LEMMA UntouchedInv ==
  ASSUME NEW h, IsGraph(h), NEW r \in SourceRange
  PROVE  LoopInv(h, r, Untouched(h, r))
<1> DEFINE s == Untouched(h, r)
           met == h.verts \ s.map
<1>1. /\ s.map = h.verts /\ s.intervl = r /\ DOMAIN s.in = {} /\ DOMAIN s.out = {}
      /\ s.abs_includes = {}
  BY DEF Untouched, NoVerts
<1>2. Encloses(r, r) BY DEF Encloses, SourceRange
<1> HIDE DEF s
<1>3. met = {} BY <1>1
<1>4. MapInv(h.verts, r, s) BY <1>1, <1>2 DEF MapInv
<1>5. LastMet(h.verts, Reversed(h), met, s.in) /\ LastMet(h.verts, h.edge, met, s.out)
  BY <1>1, <1>3 DEF LastMet
<1>6. s.abs_includes = AbsIncludes(h, met) BY <1>1, <1>3 DEF AbsIncludes
<1>7. LoopInv(h, r, s) BY <1>4, <1>5, <1>6 DEF LoopInv
<1> QED BY <1>7 DEF s

\* The vertex of a turn is beyond all those met before.
LEMMA TurnVertex ==
  ASSUME NEW V \in SUBSET SourceRange, NoOverlap(V), NEW r \in SourceRange, NEW s,
         MapInv(V, r, s), Overlaps(s.map, s.intervl)
  PROVE  LET v == FirstOverlap(s.map, s.intervl)
         IN /\ v \in s.map /\ v \in V /\ v \in SourceRange /\ Overlap(v, r)
            /\ \A w \in s.map : Overlap(w, r) => v.beg <= w.beg
            /\ \A u \in V \ s.map : u.beg < v.beg /\ u.end <= v.beg
<1> DEFINE v == FirstOverlap(s.map, s.intervl)
<1>1. s.map \in SUBSET SourceRange /\ s.map \subseteq V BY DEF MapInv
<1>2. v \in s.map /\ Overlap(v, s.intervl) /\ \A w \in s.map : Overlap(w, s.intervl) => v.beg <= w.beg
  BY <1>1, FirstOverlapFinds
<1> HIDE DEF v
<1>3. \A w \in s.map : Overlap(w, s.intervl) <=> Overlap(w, r) BY IntervlOverlaps
<1>4. Overlap(v, r) BY <1>2, <1>3
<1>5. ASSUME NEW u \in V \ s.map PROVE u.beg < v.beg /\ u.end <= v.beg
  <2>1. u.beg < v.beg /\ Overlap(u, r) BY <1>2, <1>4 DEF MapInv
  <2>2. ~Overlap(u, v) BY <1>1, <1>2 DEF NoOverlap
  <2>3. u \in SourceRange /\ v \in SourceRange BY <1>1, <1>2
  <2> QED BY <1>4, <2>1, <2>2, <2>3 DEF Overlap, SourceRange
<1> QED BY <1>1, <1>2, <1>3, <1>4, <1>5 DEF v

\* A vertex met after the others overrides what they pushed.
LEMMA PushBackLastMet ==
  ASSUME NEW V, NEW type, NEW met \in SUBSET SourceRange, NEW list,
         LastMet(V, type, met, list), NEW v \in SourceRange, \A u \in met : u.beg < v.beg
  PROVE  LastMet(V, type, met \cup {v},
                PushBack(list, [x \in {x \in V : <<v, x>> \in DOMAIN type} |-> type[<<v, x>>]]))
<1> DEFINE more == [x \in {x \in V : <<v, x>> \in DOMAIN type} |-> type[<<v, x>>]]
           new == PushBack(list, more)
<1>1. DOMAIN new = DOMAIN list \cup {x \in V : <<v, x>> \in DOMAIN type}
  BY DEF PushBack
<1>2. \A x \in DOMAIN new :
        new[x] = IF <<v, x>> \in DOMAIN type /\ x \in V THEN type[<<v, x>>] ELSE list[x]
  BY DEF PushBack
<1> HIDE DEF new
<1>3. DOMAIN new = {x \in V : \E w \in met \cup {v} : <<w, x>> \in DOMAIN type}
  BY <1>1 DEF LastMet
<1>4. v.beg \in Nat /\ \A u \in met : u.beg \in Nat BY DEF SourceRange
<1>5. ASSUME NEW x \in DOMAIN new
      PROVE  \E w \in met \cup {v} :
               /\ <<w, x>> \in DOMAIN type /\ new[x] = type[<<w, x>>]
               /\ \A u \in met \cup {v} : <<u, x>> \in DOMAIN type => u.beg <= w.beg
  <2>1. x \in V BY <1>3
  <2>2. CASE <<v, x>> \in DOMAIN type
    <3>1. new[x] = type[<<v, x>>] BY <1>2, <2>1, <2>2
    <3>2. \A u \in met \cup {v} : u.beg <= v.beg BY <1>4
    <3> QED BY <2>2, <3>1, <3>2
  <2>3. CASE <<v, x>> \notin DOMAIN type
    <3>1. x \in DOMAIN list /\ new[x] = list[x] BY <1>1, <1>2, <2>3
    <3>2. PICK w \in met :
            /\ <<w, x>> \in DOMAIN type /\ list[x] = type[<<w, x>>]
            /\ \A u \in met : <<u, x>> \in DOMAIN type => u.beg <= w.beg
      BY <3>1 DEF LastMet
    <3>3. \A u \in met \cup {v} : <<u, x>> \in DOMAIN type => u.beg <= w.beg
      BY <2>3, <3>2
    <3> QED BY <3>1, <3>2, <3>3
  <2> QED BY <2>2, <2>3
<1>6. LastMet(V, type, met \cup {v}, new) BY <1>3, <1>5 DEF LastMet
<1> QED BY <1>6 DEF new

\* The hull of two ranges of a band is the least range that encloses both.
LEMMA HullOfBoth ==
  ASSUME NEW a \in SourceRange, NEW b \in SourceRange, a.f = b.f, a.k = b.k
  PROVE  LET c == HullOf(a, b)
         IN /\ c \in SourceRange /\ c.f = a.f /\ c.k = a.k
            /\ c.beg <= a.beg /\ c.beg <= b.beg /\ (c.beg = a.beg \/ c.beg = b.beg)
            /\ a.end <= c.end /\ b.end <= c.end /\ (c.end = a.end \/ c.end = b.end)
<1> DEFINE c == HullOf(a, b)
<1>1. /\ a = [f |-> a.f, k |-> a.k, beg |-> a.beg, end |-> a.end]
      /\ a.f \in Files /\ a.k \in Nat /\ a.beg \in Nat /\ a.end \in Nat
      /\ a.beg < a.end /\ a.end <= Size[a.f]
      /\ b.beg \in Nat /\ b.end \in Nat /\ b.beg < b.end /\ b.end <= Size[a.f]
  BY DEF SourceRange
<1>2. Size[a.f] \in Nat BY <1>1, SizeAssumption
<1>3. c = [f |-> a.f, k |-> a.k, beg |-> Smaller(a.beg, b.beg), end |-> Larger(a.end, b.end)]
  BY <1>1 DEF HullOf
<1> HIDE DEF c
<1>4. c.beg = Smaller(a.beg, b.beg) /\ c.end = Larger(a.end, b.end) /\ c.f = a.f /\ c.k = a.k
  BY <1>3
<1>5. c.beg \in Nat /\ c.beg <= a.beg /\ c.beg <= b.beg /\ (c.beg = a.beg \/ c.beg = b.beg)
  BY <1>1, <1>4 DEF Smaller
<1>6. c.end \in Nat /\ a.end <= c.end /\ b.end <= c.end /\ (c.end = a.end \/ c.end = b.end)
  BY <1>1, <1>4 DEF Larger
<1>7. c.beg < c.end /\ c.end <= Size[c.f] BY <1>1, <1>2, <1>4, <1>5, <1>6
<1>8. c = [f |-> c.f, k |-> c.k, beg |-> c.beg, end |-> c.end] BY <1>3, <1>4
<1>9. c \in SourceRange BY <1>1, <1>4, <1>5, <1>6, <1>7, <1>8 DEF SourceRange
<1>10. /\ c \in SourceRange /\ c.f = a.f /\ c.k = a.k
       /\ c.beg <= a.beg /\ c.beg <= b.beg /\ (c.beg = a.beg \/ c.beg = b.beg)
       /\ a.end <= c.end /\ b.end <= c.end /\ (c.end = a.end \/ c.end = b.end)
  BY <1>4, <1>5, <1>6, <1>9
<1> QED BY <1>10 DEF c

\* A turn preserves the invariant of the do-while loop.
LEMMA SwallowInv ==
  ASSUME NEW h, IsGraph(h), NoOverlap(h.verts), NEW r \in SourceRange, NEW s,
         LoopInv(h, r, s), Overlaps(s.map, s.intervl)
  PROVE  LoopInv(h, r, Swallow(h, s))
<1> DEFINE V == h.verts
           v == FirstOverlap(s.map, s.intervl)
           met == V \ s.map
           i == s.intervl
           j == HullOf(i, v)
           into == [x \in {x \in V : <<x, v>> \in DOMAIN h.edge} |-> h.edge[<<x, v>>]]
           from == [x \in {x \in V : <<v, x>> \in DOMAIN h.edge} |-> h.edge[<<v, x>>]]
           t == Swallow(h, s)
<1>1. V \in SUBSET SourceRange /\ MapInv(V, r, s) BY DEF IsGraph, LoopInv
<1>2. /\ v \in s.map /\ v \in V /\ v \in SourceRange /\ Overlap(v, r)
      /\ \A w \in s.map : Overlap(w, r) => v.beg <= w.beg
      /\ \A u \in met : u.beg < v.beg /\ u.end <= v.beg
  BY <1>1, TurnVertex
<1> HIDE DEF v
<1>3. /\ t.intervl = j /\ t.map = s.map \ {v}
      /\ t.in = PushBack(s.in, into) /\ t.out = PushBack(s.out, from)
      /\ t.abs_includes = s.abs_includes \cup {<<v.beg + x[1], x[2]>> : x \in h.incs[v]}
  BY DEF Swallow, v
<1> HIDE DEF t
<1>4. V \ t.map = met \cup {v} /\ met \in SUBSET SourceRange BY <1>1, <1>2, <1>3
<1>5. MapInv(V, r, t)
  <2>1. /\ i \in SourceRange /\ Encloses(i, r)
        /\ v.f = r.f /\ v.k = r.k
        /\ \A u \in met : Overlap(u, r) /\ Encloses(i, u) /\ u \in SourceRange
    BY <1>1, <1>2 DEF MapInv, Overlap
  <2>2. /\ j \in SourceRange /\ j.f = i.f /\ j.k = i.k
        /\ j.beg <= i.beg /\ j.beg <= v.beg /\ (j.beg = i.beg \/ j.beg = v.beg)
        /\ i.end <= j.end /\ v.end <= j.end /\ (j.end = i.end \/ j.end = v.end)
    BY <1>2, <2>1, HullOfBoth DEF Encloses
  <2> HIDE DEF j
  <2>3. Encloses(j, i) /\ Encloses(j, v) BY <2>1, <2>2 DEF Encloses
  <2>4. Encloses(j, r) BY <2>1, <2>2, <2>3, EnclosesTransitive
  <2>5. \A u \in met \cup {v} : Overlap(u, r) /\ Encloses(j, u)
    BY <1>2, <2>1, <2>2, <2>3, EnclosesTransitive
  <2>6. \A u \in met \cup {v}, w \in t.map : Overlap(w, r) => u.beg < w.beg
    <3> SUFFICES ASSUME NEW u \in met \cup {v}, NEW w \in t.map, Overlap(w, r)
                 PROVE  u.beg < w.beg
      OBVIOUS
    <3>1. w \in s.map /\ w # v /\ w \in V /\ v.beg <= w.beg BY <1>1, <1>2, <1>3 DEF MapInv
    <3>2. v.beg # w.beg
      <4>1. ~Overlap(v, w) BY <1>2, <3>1 DEF NoOverlap
      <4> QED BY <1>1, <1>2, <3>1, <4>1 DEF Overlap, SourceRange
    <3>3. w.beg \in Nat /\ v.beg \in Nat /\ u.beg \in Nat BY <1>1, <1>2, <1>4, <3>1 DEF SourceRange
    <3> QED BY <1>2, <3>1, <3>2, <3>3
  <2>7. j.beg = r.beg \/ \E u \in met \cup {v} : j.beg = u.beg
    BY <1>1, <2>2 DEF MapInv
  <2>8. j.end = r.end \/ \E u \in met \cup {v} : j.end = u.end
    BY <1>1, <2>2 DEF MapInv
  <2>9. t.map \subseteq V BY <1>1, <1>3 DEF MapInv
  <2> QED BY <1>3, <1>4, <2>2, <2>4, <2>5, <2>6, <2>7, <2>8, <2>9 DEF MapInv
<1>6. LastMet(V, h.edge, met \cup {v}, t.out)
  BY <1>2, <1>3, <1>4, PushBackLastMet DEF LoopInv
<1>7. LastMet(V, Reversed(h), met \cup {v}, t.in)
  <2>1. \A x \in V : <<v, x>> \in DOMAIN Reversed(h) <=> <<x, v>> \in DOMAIN h.edge
    BY <1>2 DEF Reversed
  <2>2. \A x \in V : <<v, x>> \in DOMAIN Reversed(h) => Reversed(h)[<<v, x>>] = h.edge[<<x, v>>]
    BY <1>2 DEF Reversed
  <2>3. into = [x \in {x \in V : <<v, x>> \in DOMAIN Reversed(h)} |-> Reversed(h)[<<v, x>>]]
    BY <2>1, <2>2
  <2>4. t.in = PushBack(s.in, [x \in {x \in V : <<v, x>> \in DOMAIN Reversed(h)} |->
                                  Reversed(h)[<<v, x>>]])
    BY <1>3, <2>3
  <2>5. LastMet(V, Reversed(h), met, s.in) BY DEF LoopInv
  <2> QED BY <1>2, <1>4, <2>4, <2>5, PushBackLastMet
<1>8. t.abs_includes = AbsIncludes(h, met \cup {v})
  <2>1. s.abs_includes = AbsIncludes(h, met) BY DEF LoopInv
  <2> QED BY <1>3, <2>1 DEF AbsIncludes
<1>9. LoopInv(h, r, t) BY <1>4, <1>5, <1>6, <1>7, <1>8 DEF LoopInv
<1> QED BY <1>9 DEF t

\* The loop ends with nothing overlapping: a turn takes a vertex that ends further
\* down the file than there have been turns.
LEMMA LoopEnds ==
  ASSUME NEW h, IsGraph(h), NoOverlap(h.verts), NEW r \in SourceRange
  PROVE  LET s == Swallowed(h, r)
         IN LoopInv(h, r, s) /\ ~Overlaps(s.map, s.intervl)
<1> DEFINE V == h.verts
           On(s, n) == n = 0 \/ ~Overlaps(s.map, s.intervl) \/ \E v \in V \ s.map : n <= v.end
<1>1. PICK T : /\ T[0] = Untouched(h, r)
               /\ \A n \in Nat : T[n + 1] = Turn(h, T[n])
               /\ Swallowed(h, r) = T[Size[r.f]]
  BY SwallowedIs
<1>2. V \in SUBSET SourceRange /\ Size[r.f] \in Nat /\ Size[r.f] # 0
  BY SizeAssumption DEF IsGraph, SourceRange
<1> DEFINE Z == {n \in Nat : LoopInv(h, r, T[n]) /\ On(T[n], n)}
<1>3. 0 \in Z BY <1>1, UntouchedInv
<1>4. ASSUME NEW n \in Nat, n \in Z PROVE n + 1 \in Z
  <2> DEFINE s == T[n]
             t == T[n + 1]
  <2>1. LoopInv(h, r, s) /\ On(s, n) /\ t = Turn(h, s) BY <1>1, <1>4
  <2>2. CASE ~Overlaps(s.map, s.intervl)
    <3>1. t = s BY <2>1, <2>2 DEF Turn
    <3>2. On(t, n + 1) BY <2>2, <3>1
    <3> QED BY <2>1, <3>1, <3>2
  <2>3. CASE Overlaps(s.map, s.intervl)
    <3> DEFINE v == FirstOverlap(s.map, s.intervl)
    <3>1. t = Swallow(h, s) BY <2>1, <2>3 DEF Turn
    <3>2. LoopInv(h, r, t) BY <2>1, <2>3, <3>1, SwallowInv
    <3>3. /\ v \in V /\ v \in SourceRange
          /\ \A u \in V \ s.map : u.end <= v.beg
      BY <1>2, <2>1, <2>3, TurnVertex DEF LoopInv
    <3>4. v \notin t.map BY <3>1 DEF Swallow
    <3>5. n + 1 <= v.end
      <4>1. v.beg \in Nat /\ v.end \in Nat /\ v.beg < v.end BY <3>3 DEF SourceRange
      <4>2. CASE n = 0 BY <4>1, <4>2
      <4>3. ASSUME NEW u \in V \ s.map, n <= u.end PROVE n + 1 <= v.end
        <5>1. u.end \in Nat BY <1>2 DEF SourceRange
        <5>2. u.end <= v.beg BY <3>3
        <5> HIDE DEF v
        <5> QED BY <4>1, <4>3, <5>1, <5>2
      <4> QED BY <2>1, <2>3, <4>2, <4>3
    <3>6. On(t, n + 1) BY <3>3, <3>4, <3>5
    <3> QED BY <3>2, <3>6
  <2> QED BY <2>2, <2>3
<1>5. Size[r.f] \in Z
  <2> HIDE DEF Z
  <2> QED BY <1>2, <1>3, <1>4, FromZero
<1> DEFINE s == Swallowed(h, r)
<1>6. LoopInv(h, r, s) /\ On(s, Size[r.f]) BY <1>1, <1>5
<1> HIDE DEF s
<1>7. ASSUME Overlaps(s.map, s.intervl) PROVE FALSE
  <2>1. PICK u \in V \ s.map : Size[r.f] <= u.end BY <1>2, <1>6, <1>7
  <2>2. MapInv(V, r, s) BY <1>6 DEF LoopInv
  <2> DEFINE v == FirstOverlap(s.map, s.intervl)
  <2>3. v \in SourceRange /\ Overlap(v, r) /\ u.end <= v.beg
    BY <1>2, <1>7, <2>2, TurnVertex
  <2> HIDE DEF v
  <2>4. v.f = r.f /\ u.end \in Nat BY <1>2, <2>3 DEF Overlap, SourceRange
  <2>5. v.beg \in Nat /\ v.end \in Nat /\ v.beg < v.end /\ v.end <= Size[r.f] BY <2>3, <2>4 DEF SourceRange
  <2> QED BY <1>2, <2>1, <2>3, <2>4, <2>5
<1> QED BY <1>6, <1>7 DEF s

\* The hull begins where the range or a vertex that overlaps it begins, and so for
\* its end.
LEMMA HullTight ==
  ASSUME NEW V \in SUBSET SourceRange, NEW r \in SourceRange
  PROVE  /\ Hull(V, r).beg = r.beg \/ \E v \in V : Overlap(v, r) /\ Hull(V, r).beg = v.beg
         /\ Hull(V, r).end = r.end \/ \E v \in V : Overlap(v, r) /\ Hull(V, r).end = v.end
<1> DEFINE x == Begin(r)
           y == [f |-> r.f, k |-> r.k, p |-> r.end - 1]
<1>1. Covered(V, x) => At(V, x) \in V /\ Within(x, At(V, x)) BY AtFinds
<1>2. Covered(V, y) => At(V, y) \in V /\ Within(y, At(V, y)) BY AtFinds
<1>3. Covered(V, x) => Overlap(At(V, x), r)
  BY <1>1 DEF Within, Overlap, Begin, SourceRange
<1>4. Covered(V, y) => Overlap(At(V, y), r)
  BY <1>2, SizeAssumption DEF Within, Overlap, SourceRange
<1> QED BY <1>1, <1>2, <1>3, <1>4 DEF Hull

\* Where no vertex contains the range, the loop has met the vertices that Absorbed
\* names, and its interval is the hull.
LEMMA SwallowedAll ==
  ASSUME NEW h, IsGraph(h), NoOverlap(h.verts), NEW r \in SourceRange,
         \A v \in h.verts : ~Encloses(v, r)
  PROVE  LET s == Swallowed(h, r)
         IN /\ s.map = h.verts \ Absorbed(h.verts, r)
            /\ s.intervl = Hull(h.verts, r)
            /\ LoopInv(h, r, s)
<1> DEFINE V == h.verts
           s == Swallowed(h, r)
           i == s.intervl
           H == Hull(V, r)
           A == Absorbed(V, r)
<1>1. LoopInv(h, r, s) /\ ~Overlaps(s.map, i) BY LoopEnds
<1> HIDE DEF s
<1>2. V \in SUBSET SourceRange /\ MapInv(V, r, s) BY <1>1 DEF IsGraph, LoopInv
<1>3. A = {v \in V : Overlap(v, r)} BY DEF Absorbed
<1>4. \A w \in s.map : ~Overlap(w, r) BY <1>1, <1>2, IntervlOverlaps DEF Overlaps
<1>5. s.map \subseteq V /\ \A v \in V \ s.map : Overlap(v, r) BY <1>2 DEF MapInv
<1>6. V \ s.map = A /\ s.map = V \ A BY <1>3, <1>4, <1>5
<1>7. i = H
  <2>1. /\ H \in SourceRange /\ H.f = r.f /\ H.k = r.k /\ Encloses(H, r)
        /\ \A v \in A : Encloses(H, v)
    BY <1>2, <1>3, HullEncloses
  <2>2. /\ H.beg = r.beg \/ \E v \in A : H.beg = v.beg
        /\ H.end = r.end \/ \E v \in A : H.end = v.end
    BY <1>2, <1>3, HullTight
  <2>3. /\ i \in SourceRange /\ Encloses(i, r) /\ \A v \in A : Encloses(i, v)
        /\ i.beg = r.beg \/ \E v \in A : i.beg = v.beg
        /\ i.end = r.end \/ \E v \in A : i.end = v.end
    BY <1>2, <1>6 DEF MapInv
  <2> HIDE DEF H, i, A
  <2>4. H.beg <= i.beg /\ i.beg <= H.beg BY <2>1, <2>2, <2>3 DEF Encloses
  <2>5. H.end <= i.end /\ i.end <= H.end BY <2>1, <2>2, <2>3 DEF Encloses
  <2>6. /\ H.beg \in Nat /\ H.end \in Nat /\ i.beg \in Nat /\ i.end \in Nat
        /\ i.f = r.f /\ i.k = r.k
    BY <2>1, <2>3 DEF SourceRange, Encloses
  <2>7. H.beg = i.beg /\ H.end = i.end BY <2>4, <2>5, <2>6
  <2>8. /\ H = [f |-> H.f, k |-> H.k, beg |-> H.beg, end |-> H.end]
        /\ i = [f |-> i.f, k |-> i.k, beg |-> i.beg, end |-> i.end]
    BY <2>1, <2>3 DEF SourceRange
  <2> QED BY <2>1, <2>6, <2>7, <2>8
<1> QED BY <1>1, <1>6, <1>7 DEF s

\* There is one edge that is written after the others.
LEMMA LastWrittenIs ==
  ASSUME NEW S \in SUBSET (SourceRange \X SourceRange),
         \A e, d \in S : e[1].k = d[1].k /\ e[2].k = d[2].k,
         NEW e \in S, \A d \in S : d = e \/ WrittenAfter(e, d)
  PROVE  LastWritten(S) = e
<1> DEFINE c == LastWritten(S)
<1>1. c \in S /\ \A d \in S : d = c \/ WrittenAfter(c, d) BY DEF LastWritten
<1> HIDE DEF c
<1>2. ASSUME c # e PROVE FALSE
  <2>1. WrittenAfter(c, e) /\ WrittenAfter(e, c) BY <1>1, <1>2
  <2>2. /\ c[1].beg \in Nat /\ c[2].beg \in Nat /\ e[1].beg \in Nat /\ e[2].beg \in Nat
        /\ c[1].k = e[1].k /\ c[2].k = e[2].k
    BY <1>1 DEF SourceRange
  <2> QED BY <2>1, <2>2 DEF WrittenAfter
<1> QED BY <1>2 DEF c

\* A graph with more vertices, nothing else.
Added(h, W) == [verts |-> W, edge |-> h.edge,
                incs |-> [w \in W |-> IF w \in h.verts THEN h.incs[w] ELSE {}]]

\* Where no vertex moves, code only adds the ranges.
LEMMA NothingMoved ==
  ASSUME NEW h, IsGraph(h), NEW r, NEW bands, Gone(h.verts, r, bands) = {}, NEW W,
         W = h.verts \cup {Hull(h.verts, InBand(r, j)) : j \in bands}
  PROVE  CodeIn(h, r, bands) = Added(h, W)
<1> DEFINE V == h.verts
           c == CodeIn(h, r, bands)
           E == KeptEdges(h, r, bands)
           to(e) == MovedEdge(V, r, bands, e)
           S(d) == {e \in E : to(e) = d}
<1>1. \A v \in V : Moved(V, r, bands, v) = v BY DEF Moved
<1>2. E = DOMAIN h.edge BY DEF KeptEdges
<1>3. \A e \in E : to(e) = e
  <2>1. \A e \in E : e = <<e[1], e[2]>> /\ e[1] \in V /\ e[2] \in V BY <1>2 DEF IsGraph
  <2> QED BY <1>1, <2>1 DEF MovedEdge
<1>4. (V \ Gone(V, r, bands)) \cup {Hull(V, InBand(r, j)) : j \in bands} = W OBVIOUS
<1>5. c = [verts |-> W, edge |-> [d \in {to(e) : e \in E} |-> h.edge[LastWritten(S(d))]],
           incs |-> [w \in W |-> IncsOf(h, r, bands, w)]]
  BY <1>4 DEF CodeIn
<1>6. [d \in {to(e) : e \in E} |-> h.edge[LastWritten(S(d))]] = h.edge
  <2>1. {to(e) : e \in E} = DOMAIN h.edge BY <1>2, <1>3
  <2>2. ASSUME NEW d \in DOMAIN h.edge PROVE LastWritten(S(d)) = d
    <3>1. S(d) = {d} BY <1>2, <1>3
    <3> HIDE DEF S
    <3> QED BY <3>1 DEF LastWritten
  <2>3. h.edge = [d \in DOMAIN h.edge |-> h.edge[d]] BY DEF IsGraph
  <2> HIDE DEF to, S
  <2> QED BY <2>1, <2>2, <2>3
<1>7. ASSUME NEW w \in W
      PROVE  IncsOf(h, r, bands, w) = IF w \in V THEN h.incs[w] ELSE {}
  <2> DEFINE at(v) == {<<i[1] + v.beg - w.beg, i[2]>> : i \in h.incs[v]}
  <2>1. IncsOf(h, r, bands, w) = UNION {at(v) : v \in {u \in V : u = w}}
    BY <1>1 DEF IncsOf
  <2>2. CASE w \notin V BY <2>1, <2>2
  <2>3. CASE w \in V
    <3>1. UNION {at(v) : v \in {u \in V : u = w}} = at(w) BY <2>3
    <3>2. w.beg \in Nat /\ h.incs[w] \subseteq Nat \X Files BY <2>3 DEF IsGraph, SourceRange
    <3>3. \A i \in h.incs[w] : <<i[1] + w.beg - w.beg, i[2]>> = i BY <3>2
    <3>4. at(w) = h.incs[w] BY <3>3
    <3> HIDE DEF at
    <3> QED BY <2>1, <2>3, <3>1, <3>4
  <2> QED BY <2>2, <2>3
<1> HIDE DEF to, S, c
<1>8. [w \in W |-> IncsOf(h, r, bands, w)] =
      [w \in W |-> IF w \in V THEN h.incs[w] ELSE {}]
  BY <1>7
<1>9. c = [verts |-> W, edge |-> h.edge,
           incs |-> [w \in W |-> IF w \in h.verts THEN h.incs[w] ELSE {}]]
  BY <1>5, <1>6, <1>8
<1> QED BY <1>9 DEF c, Added

\* code in no band leaves the graph alone.
LEMMA NoBands ==
  ASSUME NEW h, IsGraph(h), NEW r
  PROVE  CodeIn(h, r, {}) = h
<1>1. Gone(h.verts, r, {}) = {} BY DEF Gone
<1>2. h.verts = h.verts \cup {Hull(h.verts, InBand(r, j)) : j \in {}} OBVIOUS
<1>3. CodeIn(h, r, {}) = Added(h, h.verts)
  BY <1>1, <1>2, NothingMoved
<1>4. /\ h.incs = [w \in h.verts |-> h.incs[w]]
      /\ h = [verts |-> h.verts, edge |-> h.edge, incs |-> h.incs]
  BY DEF IsGraph
<1> QED BY <1>3, <1>4 DEF Added

\* In one band, the vertices that move are those the range absorbs.
LEMMA GoneInBand ==
  ASSUME NEW V \in SUBSET SourceRange, NEW r \in SourceRange
  PROVE  Gone(V, r, {r.k}) = Absorbed(V, r) /\ InBand(r, r.k) = r
<1>1. InBand(r, r.k) = r BY DEF InBand, SourceRange
<1>2. \A v \in Absorbed(V, r) : v.k = r.k BY DEF Absorbed, Overlap
<1> QED BY <1>1, <1>2 DEF Gone, Absorbed

\* A call for which nothing overlaps, or for which a vertex contains the range.
LEMMA AddedOrThere ==
  ASSUME NEW h, IsGraph(h), NoOverlap(h.verts), NEW r \in SourceRange,
         ~Overlaps(h.verts, r) \/ \E v \in h.verts : Encloses(v, r)
  PROVE  CodeHere(h, r) = CodeIn(h, r, {r.k})
<1> DEFINE V == h.verts
<1>1. V \in SUBSET SourceRange BY DEF IsGraph
<1>2. /\ h = [verts |-> V, edge |-> h.edge, incs |-> h.incs]
      /\ h.incs = [v \in V |-> h.incs[v]]
  BY DEF IsGraph
<1>3. CASE ~Overlaps(V, r)
  <2>1. Absorbed(V, r) = {} BY <1>3 DEF Absorbed, Overlaps
  <2>2. Hull(V, r) = r
    <3> DEFINE H == Hull(V, r)
    <3>1. H.beg = r.beg /\ H.end = r.end BY <1>1, <1>3, HullTight DEF Overlaps
    <3>2. H = [f |-> r.f, k |-> r.k, beg |-> H.beg, end |-> H.end] BY DEF Hull
    <3> HIDE DEF H
    <3>3. r = [f |-> r.f, k |-> r.k, beg |-> r.beg, end |-> r.end] BY DEF SourceRange
    <3> QED BY <3>1, <3>2, <3>3 DEF H
  <2>3. r \notin V BY <1>3 DEF Overlaps, Overlap, SourceRange
  <2>4. CodeIn(h, r, {r.k}) = Added(h, V \cup {r})
    <3>1. Gone(V, r, {r.k}) = {} BY <1>1, <2>1, GoneInBand
    <3>2. V \cup {r} = V \cup {Hull(V, InBand(r, j)) : j \in {r.k}} BY <1>1, <2>2, GoneInBand
    <3> QED BY <3>1, <3>2, NothingMoved
  <2>5. CodeHere(h, r) =
          [verts |-> V \cup {r}, edge |-> h.edge,
           incs |-> [w \in V \cup {r} |-> IF w = r THEN {} ELSE h.incs[w]]]
    BY <1>2, <1>3 DEF CodeHere, AddVertex
  <2>6. [w \in V \cup {r} |-> IF w \in V THEN h.incs[w] ELSE {}] =
        [w \in V \cup {r} |-> IF w = r THEN {} ELSE h.incs[w]]
    BY <2>3
  <2> QED BY <2>4, <2>5, <2>6 DEF Added
<1>4. ASSUME NEW v \in V, Encloses(v, r) PROVE CodeHere(h, r) = CodeIn(h, r, {r.k})
  <2>1. Overlap(v, r) BY <1>1, <1>4 DEF Overlap, Encloses, SourceRange
  <2>2. \A w \in V : Overlap(w, r) => w = v
    <3> TAKE w \in V
    <3>1. Overlap(w, r) => Overlap(w, v) BY <1>1, <1>4 DEF Overlap, Encloses, SourceRange
    <3> QED BY <3>1 DEF NoOverlap
  <2>3. Overlaps(V, r) BY <2>1 DEF Overlaps
  <2>4. FirstOverlap(V, r) = v BY <1>1, <2>2, <2>3, FirstOverlapFinds
  <2>5. CodeHere(h, r) = h BY <1>4, <2>3, <2>4 DEF CodeHere
  <2>6. Absorbed(V, r) = {} BY <1>4, <2>2 DEF Absorbed
  <2>7. Hull(V, r) = v BY <1>1, <1>4, HullOfEnclosed
  <2>8. CodeIn(h, r, {r.k}) = Added(h, V)
    <3>1. Gone(V, r, {r.k}) = {} BY <1>1, <2>6, GoneInBand
    <3>2. V = V \cup {Hull(V, InBand(r, j)) : j \in {r.k}} BY <1>1, <2>7, GoneInBand
    <3> QED BY <3>1, <3>2, NothingMoved
  <2> QED BY <1>2, <2>5, <2>8 DEF Added
<1> QED BY <1>3, <1>4

\* The vertices of one merge, and where the edges go.
LEMMA MovedInBand ==
  ASSUME NEW h, IsGraph(h), NEW r \in SourceRange
  PROVE  LET A == Absorbed(h.verts, r)
             H == Hull(h.verts, r)
             M(v) == Moved(h.verts, r, {r.k}, v)
         IN /\ \A v \in A : M(v) = H
            /\ \A v \in h.verts \ A : M(v) = v
            /\ KeptEdges(h, r, {r.k}) = {e \in DOMAIN h.edge : ~(e[1] \in A /\ e[2] \in A)}
<1> DEFINE A == Absorbed(h.verts, r)
<1>1. h.verts \in SUBSET SourceRange BY DEF IsGraph
<1>2. Gone(h.verts, r, {r.k}) = A /\ InBand(r, r.k) = r BY <1>1, GoneInBand
<1>3. \A v \in A : v.k = r.k BY DEF Absorbed, Overlap
<1> QED BY <1>2, <1>3 DEF Moved, KeptEdges

\* The type the loop leaves an edge with is that of the edge LastWritten names: in,
\* for an edge into the new vertex, and out for one out of it.
LEMMA LastMetIn ==
  ASSUME NEW h, IsGraph(h), NoOverlap(h.verts), NEW r \in SourceRange, NEW list,
         NEW A, A = Absorbed(h.verts, r), LastMet(h.verts, Reversed(h), A, list),
         NEW x \in h.verts \ A, NEW S, S # {},
         \A e : e \in S <=> \E v \in A : e = <<x, v>> /\ e \in DOMAIN h.edge
  PROVE  x \in DOMAIN list /\ list[x] = h.edge[LastWritten(S)]
<1>1. h.verts \in SUBSET SourceRange /\ A \subseteq h.verts BY DEF IsGraph, Absorbed
<1>2. /\ \A v \in A : <<v, x>> \in DOMAIN Reversed(h) <=> <<x, v>> \in DOMAIN h.edge
      /\ \A v \in A : <<v, x>> \in DOMAIN Reversed(h) => Reversed(h)[<<v, x>>] = h.edge[<<x, v>>]
  BY <1>1 DEF Reversed
<1>3. x \in DOMAIN list BY <1>2 DEF LastMet
<1>4. PICK v \in A : /\ <<x, v>> \in DOMAIN h.edge /\ list[x] = h.edge[<<x, v>>]
                     /\ \A w \in A : <<x, w>> \in DOMAIN h.edge => w.beg <= v.beg
  BY <1>2, <1>3 DEF LastMet
<1>5. \A u, w \in A : /\ u.k = w.k /\ u \in SourceRange /\ u.beg \in Nat
                      /\ u.beg = w.beg => u = w
  BY <1>1 DEF Absorbed, NoOverlap, Overlap, SourceRange
<1>6. ASSUME NEW d \in S PROVE d = <<x, v>> \/ WrittenAfter(<<x, v>>, d)
  <2>1. PICK w \in A : d = <<x, w>> /\ <<x, w>> \in DOMAIN h.edge BY <1>6
  <2>2. CASE w = v BY <2>1, <2>2
  <2>3. CASE w # v
    <3>1. w.beg <= v.beg /\ w.beg # v.beg BY <1>4, <1>5, <2>1, <2>3
    <3>2. w.beg < v.beg BY <1>5, <3>1
    <3> QED BY <2>1, <3>2 DEF WrittenAfter
  <2> QED BY <2>2, <2>3
<1>7. S \in SUBSET (SourceRange \X SourceRange) /\ <<x, v>> \in S BY <1>1, <1>4
<1>8. \A e, d \in S : e[1].k = d[1].k /\ e[2].k = d[2].k BY <1>5
<1>9. LastWritten(S) = <<x, v>> BY <1>6, <1>7, <1>8, LastWrittenIs
<1> QED BY <1>3, <1>4, <1>9

\* The same for an edge out of the new vertex.
LEMMA LastMetOut ==
  ASSUME NEW h, IsGraph(h), NoOverlap(h.verts), NEW r \in SourceRange, NEW list,
         NEW A, A = Absorbed(h.verts, r), LastMet(h.verts, h.edge, A, list),
         NEW x \in h.verts \ A, NEW S, S # {},
         \A e : e \in S <=> \E v \in A : e = <<v, x>> /\ e \in DOMAIN h.edge
  PROVE  x \in DOMAIN list /\ list[x] = h.edge[LastWritten(S)]
<1>1. h.verts \in SUBSET SourceRange /\ A \subseteq h.verts BY DEF IsGraph, Absorbed
<1>3. x \in DOMAIN list BY DEF LastMet
<1>4. PICK v \in A : /\ <<v, x>> \in DOMAIN h.edge /\ list[x] = h.edge[<<v, x>>]
                     /\ \A w \in A : <<w, x>> \in DOMAIN h.edge => w.beg <= v.beg
  BY <1>3 DEF LastMet
<1>5. \A u, w \in A : /\ u.k = w.k /\ u \in SourceRange /\ u.beg \in Nat
                      /\ u.beg = w.beg => u = w
  BY <1>1 DEF Absorbed, NoOverlap, Overlap, SourceRange
<1>6. ASSUME NEW d \in S PROVE d = <<v, x>> \/ WrittenAfter(<<v, x>>, d)
  <2>1. PICK w \in A : d = <<w, x>> /\ <<w, x>> \in DOMAIN h.edge BY <1>6
  <2>2. CASE w = v BY <2>1, <2>2
  <2>3. CASE w # v
    <3>1. w.beg <= v.beg /\ w.beg # v.beg BY <1>4, <1>5, <2>1, <2>3
    <3>2. w.beg < v.beg BY <1>5, <3>1
    <3> QED BY <2>1, <3>2 DEF WrittenAfter
  <2> QED BY <2>2, <2>3
<1>7. S \in SUBSET (SourceRange \X SourceRange) /\ <<v, x>> \in S BY <1>1, <1>4
<1>8. \A e, d \in S : e[1].k = d[1].k /\ e[2].k = d[2].k BY <1>5
<1>9. LastWritten(S) = <<v, x>> BY <1>6, <1>7, <1>8, LastWrittenIs
<1> QED BY <1>3, <1>4, <1>9

\* A merge re-attaches every edge once, with the type written last, and re-bases the
\* includes: it leaves what the closed form says.
LEMMA MergedAsSaid ==
  ASSUME NEW h, IsGraph(h), NoOverlap(h.verts), NEW r \in SourceRange,
         \A v \in h.verts : ~Encloses(v, r)
  PROVE  Merge(h, r) = CodeIn(h, r, {r.k})
<1> DEFINE V == h.verts
           A == Absorbed(V, r)
           H == Hull(V, r)
           B == {r.k}
           s == Swallowed(h, r)
           m == Merge(h, r)
           c == CodeIn(h, r, B)
           M(v) == Moved(V, r, B, v)
           E == KeptEdges(h, r, B)
           to(e) == MovedEdge(V, r, B, e)
           S(d) == {e \in E : to(e) = d}
           in == {<<x, H>> : x \in DOMAIN s.in \cap (V \ A)}
           out == {<<H, x>> : x \in DOMAIN s.out \cap (V \ A)}
           kept == {e \in DOMAIN h.edge : e[1] \in V \ A /\ e[2] \in V \ A}
<1>1. s.map = V \ A /\ s.intervl = H /\ LoopInv(h, r, s) BY SwallowedAll
<1>2. V \in SUBSET SourceRange /\ A \subseteq V /\ V \ (V \ A) = A BY DEF IsGraph, Absorbed
<1>3. H \notin V /\ H \in SourceRange BY <1>2, HullEncloses
<1>4. /\ \A v \in A : M(v) = H
      /\ \A v \in V \ A : M(v) = v
      /\ E = {e \in DOMAIN h.edge : ~(e[1] \in A /\ e[2] \in A)}
  BY MovedInBand
<1>5. /\ LastMet(V, Reversed(h), A, s.in) /\ LastMet(V, h.edge, A, s.out)
      /\ s.abs_includes = AbsIncludes(h, A)
  BY <1>1, <1>2 DEF LoopInv
<1>6. m = [verts |-> (V \ A) \cup {H},
           edge  |-> [e \in kept \cup in \cup out |->
                        CASE e \in out -> s.out[e[2]]
                          [] e \in in \ out -> s.in[e[1]]
                          [] OTHER -> h.edge[e]],
           incs  |-> [v \in (V \ A) \cup {H} |->
                        IF v = H
                        THEN {<<i[1] - v.beg, i[2]>> : i \in s.abs_includes}
                        ELSE h.incs[v]]]
  BY <1>1 DEF Merge
<1>7. c = [verts |-> (V \ A) \cup {H},
           edge  |-> [d \in {to(e) : e \in E} |-> h.edge[LastWritten(S(d))]],
           incs  |-> [w \in (V \ A) \cup {H} |-> IncsOf(h, r, B, w)]]
  <2>1. Gone(V, r, B) = A /\ {Hull(V, InBand(r, j)) : j \in B} = {H} BY <1>2, GoneInBand
  <2>2. (V \ Gone(V, r, B)) \cup {Hull(V, InBand(r, j)) : j \in B} = (V \ A) \cup {H} BY <2>1
  <2> QED BY <2>2 DEF CodeIn
<1> HIDE DEF m, c, A, H, s, M, B
<1>8. \A e \in DOMAIN h.edge : e = <<e[1], e[2]>> /\ e[1] \in V /\ e[2] \in V BY DEF IsGraph
<1>9. \A e : to(e) = <<M(e[1]), M(e[2])>> BY DEF MovedEdge, M
<1>10. \A v \in V : M(v) = H <=> v \in A BY <1>2, <1>3, <1>4
<1>11. ASSUME NEW e \in E
       PROVE  \/ e \in kept /\ to(e) = e
              \/ e[1] \in V \ A /\ e[2] \in A /\ to(e) = <<e[1], H>>
              \/ e[1] \in A /\ e[2] \in V \ A /\ to(e) = <<H, e[2]>>
  BY <1>4, <1>8, <1>9
<1>12. {to(e) : e \in E} = kept \cup in \cup out
  <2>1. ASSUME NEW e \in E PROVE to(e) \in kept \cup in \cup out
    <3>1. CASE e \in kept /\ to(e) = e BY <3>1
    <3>2. CASE e[1] \in V \ A /\ e[2] \in A /\ to(e) = <<e[1], H>>
      <4>1. <<e[2], e[1]>> \in DOMAIN Reversed(h) BY <1>4, <1>8 DEF Reversed
      <4>2. e[1] \in DOMAIN s.in BY <1>5, <1>8, <3>2, <4>1 DEF LastMet
      <4> QED BY <3>2, <4>2
    <3>3. CASE e[1] \in A /\ e[2] \in V \ A /\ to(e) = <<H, e[2]>>
      <4>1. e[2] \in DOMAIN s.out BY <1>4, <1>5, <1>8, <3>3 DEF LastMet
      <4> QED BY <3>3, <4>1
    <3> HIDE DEF to, kept, in, out
    <3> QED BY <1>11, <3>1, <3>2, <3>3
  <2>2. ASSUME NEW d \in kept PROVE \E e \in E : to(e) = d
    BY <1>4, <1>8, <1>9
  <2>3. ASSUME NEW x \in DOMAIN s.in \cap (V \ A) PROVE \E e \in E : to(e) = <<x, H>>
    <3>1. PICK v \in A : <<v, x>> \in DOMAIN Reversed(h) BY <1>5 DEF LastMet
    <3>2. <<x, v>> \in DOMAIN h.edge BY <3>1 DEF Reversed
    <3>3. <<x, v>> \in E BY <1>4, <3>2
    <3>4. to(<<x, v>>) = <<x, H>> BY <1>4, <1>9
    <3> QED BY <3>3, <3>4
  <2>4. ASSUME NEW x \in DOMAIN s.out \cap (V \ A) PROVE \E e \in E : to(e) = <<H, x>>
    <3>1. PICK v \in A : <<v, x>> \in DOMAIN h.edge BY <1>5 DEF LastMet
    <3>3. <<v, x>> \in E BY <1>4, <3>1
    <3>4. to(<<v, x>>) = <<H, x>> BY <1>4, <1>9
    <3> QED BY <3>3, <3>4
  <2> HIDE DEF to, E
  <2> QED BY <2>1, <2>2, <2>3, <2>4
<1>13. ASSUME NEW d \in kept \cup in \cup out
       PROVE  h.edge[LastWritten(S(d))] = (CASE d \in out -> s.out[d[2]]
                                            [] d \in in \ out -> s.in[d[1]]
                                            [] OTHER -> h.edge[d])
  <2>1. ASSUME d \in kept PROVE h.edge[LastWritten(S(d))] = h.edge[d] /\ d \notin in /\ d \notin out
    <3>1. d \in E /\ to(d) = d BY <1>4, <1>8, <1>9, <2>1
    <3>2. d[1] \in V /\ d[2] \in V /\ d[1] # H /\ d[2] # H BY <1>3, <2>1
    <3>3. \A e \in S(d) : e = d BY <1>11, <3>2
    <3>4. S(d) = {d} BY <3>1, <3>3
    <3> HIDE DEF S
    <3>5. LastWritten(S(d)) = d BY <3>4 DEF LastWritten
    <3> QED BY <3>2, <3>5
  <2>2. ASSUME NEW x \in DOMAIN s.in \cap (V \ A), d = <<x, H>>
        PROVE  h.edge[LastWritten(S(d))] = s.in[x] /\ d \notin out /\ d[1] = x
    <3>1. \A e : e \in S(d) <=> \E v \in A : e = <<x, v>> /\ e \in DOMAIN h.edge
      <4>1. x \in V /\ x # H /\ x \notin A BY <1>3
      <4>2. \A v \in A : <<x, v>> \in DOMAIN h.edge => <<x, v>> \in E /\ to(<<x, v>>) = d
        BY <1>4, <1>9, <2>2
      <4>3. \A e \in S(d) : e[1] = x /\ e[2] \in A /\ e \in DOMAIN h.edge
        <5> TAKE e \in S(d)
        <5>1. e \in E /\ to(e) = <<x, H>> BY <2>2
        <5>2. e \in DOMAIN h.edge BY <1>4, <5>1
        <5>3. e \notin kept \/ to(e) # e BY <1>3, <5>1
        <5> HIDE DEF kept, to, E
        <5> QED BY <1>11, <4>1, <5>1, <5>2, <5>3
      <4> QED BY <1>8, <4>2, <4>3
    <3>2. d \in {to(e) : e \in E} BY <1>12
    <3>3. S(d) # {} BY <3>2
    <3> HIDE DEF S
    <3>4. s.in[x] = h.edge[LastWritten(S(d))] BY <1>5, <3>1, <3>3, LastMetIn DEF A
    <3> QED BY <1>3, <2>2, <3>4
  <2>3. ASSUME NEW x \in DOMAIN s.out \cap (V \ A), d = <<H, x>>
        PROVE  h.edge[LastWritten(S(d))] = s.out[x] /\ d \in out /\ d[2] = x
    <3>1. \A e : e \in S(d) <=> \E v \in A : e = <<v, x>> /\ e \in DOMAIN h.edge
      <4>1. x \in V /\ x # H /\ x \notin A BY <1>3
      <4>2. \A v \in A : <<v, x>> \in DOMAIN h.edge => <<v, x>> \in E /\ to(<<v, x>>) = d
        BY <1>4, <1>9, <2>3
      <4>3. \A e \in S(d) : e[2] = x /\ e[1] \in A /\ e \in DOMAIN h.edge
        <5> TAKE e \in S(d)
        <5>1. e \in E /\ to(e) = <<H, x>> BY <2>3
        <5>2. e \in DOMAIN h.edge BY <1>4, <5>1
        <5>3. e \notin kept \/ to(e) # e BY <1>3, <5>1
        <5> HIDE DEF kept, to, E
        <5> QED BY <1>11, <4>1, <5>1, <5>2, <5>3
      <4> QED BY <1>8, <4>2, <4>3
    <3>2. d \in {to(e) : e \in E} BY <1>12
    <3>3. S(d) # {} BY <3>2
    <3> HIDE DEF S
    <3>4. s.out[x] = h.edge[LastWritten(S(d))] BY <1>5, <3>1, <3>3, LastMetOut DEF A
    <3> QED BY <2>3, <3>4
  <2> HIDE DEF S, kept
  <2>4. CASE d \in kept BY <2>1, <2>4
  <2>5. CASE d \in in BY <2>2, <2>5
  <2>6. CASE d \in out BY <2>3, <2>6
  <2> QED BY <2>4, <2>5, <2>6
<1>14. [d \in {to(e) : e \in E} |-> h.edge[LastWritten(S(d))]] =
       [d \in kept \cup in \cup out |-> CASE d \in out -> s.out[d[2]]
                                         [] d \in in \ out -> s.in[d[1]]
                                         [] OTHER -> h.edge[d]]
  <2> HIDE DEF to, E, S, kept, in, out
  <2> QED BY <1>12, <1>13
<1>15. ASSUME NEW w \in (V \ A) \cup {H}
       PROVE  IncsOf(h, r, B, w) = IF w = H
                                   THEN {<<i[1] - w.beg, i[2]>> : i \in s.abs_includes}
                                   ELSE h.incs[w]
  <2> DEFINE at(v) == {<<i[1] + v.beg - w.beg, i[2]>> : i \in h.incs[v]}
  <2>1. IncsOf(h, r, B, w) = UNION {at(v) : v \in {u \in V : M(u) = w}} BY DEF IncsOf, M
  <2>2. w.beg \in Nat BY <1>2, <1>3 DEF SourceRange
  <2>3. \A v \in V : v.beg \in Nat /\ \A i \in h.incs[v] : i \in Nat \X Files
    BY DEF IsGraph, SourceRange
  <2>4. CASE w = H
    <3>1. {u \in V : M(u) = w} = A BY <1>2, <1>10, <2>4
    <3>2. \A v \in A : at(v) = {<<i[1] - w.beg, i[2]>> : i \in {<<v.beg + j[1], j[2]>> : j \in h.incs[v]}}
      <4> TAKE v \in A
      <4> DEFINE D == {<<v.beg + j[1], j[2]>> : j \in h.incs[v]}
                 C == {<<i[1] - w.beg, i[2]>> : i \in D}
      <4> DEFINE abs(j) == <<v.beg + j[1], j[2]>>
                 rel(i) == <<i[1] - w.beg, i[2]>>
      <4>1. \A j \in h.incs[v] : rel(abs(j)) = <<j[1] + v.beg - w.beg, j[2]>> BY <1>2, <2>2, <2>3
      <4>2. at(v) = {rel(abs(j)) : j \in h.incs[v]} BY <4>1
      <4>3. D = {abs(j) : j \in h.incs[v]} OBVIOUS
      <4>4. C = {rel(i) : i \in D} OBVIOUS
      <4> HIDE DEF abs, rel, D
      <4>5. {rel(i) : i \in D} = {rel(abs(j)) : j \in h.incs[v]} BY <4>3
      <4>6. at(v) = C BY <4>2, <4>4, <4>5
      <4> HIDE DEF C, at
      <4> QED BY <4>6 DEF C, D
    <3>3. {<<i[1] - w.beg, i[2]>> : i \in s.abs_includes} =
            UNION {{<<i[1] - w.beg, i[2]>> : i \in {<<v.beg + j[1], j[2]>> : j \in h.incs[v]}} : v \in A}
      BY <1>5 DEF AbsIncludes
    <3>4. UNION {at(v) : v \in A} =
            UNION {{<<i[1] - w.beg, i[2]>> : i \in {<<v.beg + j[1], j[2]>> : j \in h.incs[v]}} : v \in A}
      <4> HIDE DEF at
      <4> QED BY <3>2
    <3> QED BY <2>1, <2>4, <3>1, <3>3, <3>4
  <2>5. CASE w # H
    <3>1. w \in V \ A BY <2>5
    <3>2. {u \in V : M(u) = w} = {w} BY <1>4, <2>5, <3>1
    <3>3. \A i \in h.incs[w] : <<i[1] + w.beg - w.beg, i[2]>> = i BY <2>2, <2>3, <3>1
    <3>4. at(w) = h.incs[w] BY <3>3
    <3> HIDE DEF at
    <3> QED BY <2>1, <2>5, <3>2, <3>4
  <2> QED BY <2>4, <2>5
<1>16. [w \in (V \ A) \cup {H} |-> IncsOf(h, r, B, w)] =
       [v \in (V \ A) \cup {H} |-> IF v = H
                                   THEN {<<i[1] - v.beg, i[2]>> : i \in s.abs_includes}
                                   ELSE h.incs[v]]
  BY <1>15
<1> HIDE DEF to, E, S, kept, in, out
<1>17. m = c BY <1>6, <1>7, <1>14, <1>16
<1> QED BY <1>17 DEF m, c, B

\* One call of code, up to the call for the band below, is code in one band.
LEMMA CallIsOneBand ==
  ASSUME NEW h, IsGraph(h), NoOverlap(h.verts), NEW r \in SourceRange
  PROVE  CodeHere(h, r) = CodeIn(h, r, {r.k})
<1>1. CASE ~Overlaps(h.verts, r) \/ \E v \in h.verts : Encloses(v, r)
  BY <1>1, AddedOrThere
<1>2. CASE Overlaps(h.verts, r) /\ \A v \in h.verts : ~Encloses(v, r)
  <2>1. FirstOverlap(h.verts, r) \in h.verts BY <1>2, FirstOverlapFinds DEF IsGraph
  <2>2. CodeHere(h, r) = Merge(h, r) BY <1>2, <2>1 DEF CodeHere
  <2> QED BY <1>2, <2>2, MergedAsSaid
<1> QED BY <1>1, <1>2

\* What code did to V in bands above j, leaving W, leaves band j as it was, and what
\* then moves in band j is what moves in it at once.
OneByOne(V, W, r, B, j) ==
  /\ \A v : v.k = j => (v \in W <=> v \in V)
  /\ Hull(W, InBand(r, j)) = Hull(V, InBand(r, j))
  /\ Gone(W, r, {j}) = Gone(V, r, {j})
  /\ Gone(V, r, B \cup {j}) = Gone(V, r, B) \cup Gone(V, r, {j})
  /\ \A v \in V : v.k <= j => Moved(V, r, B, v) = v
  /\ \A v \in V : Moved(V, r, B, v).k = v.k
  /\ \A v \in V : Moved(W, r, {j}, Moved(V, r, B, v)) = Moved(V, r, B \cup {j}, v)
  /\ \A u, w \in W : Moved(W, r, {j}, u) = Moved(W, r, {j}, w) /\ u # w =>
                       u.k = j /\ w.k = j

\* It does leave it so.
LEMMA BandBelow ==
  ASSUME NEW V \in SUBSET SourceRange, NoOverlap(V), NEW r \in SourceRange,
         NEW B \in SUBSET Nat, NEW j \in Nat, \A b \in B : b > j,
         NEW W \in SUBSET SourceRange, NoOverlap(W),
         \A v : v \in W <=> \/ v \in V /\ v \notin Gone(V, r, B)
                          \/ \E b \in B : v = Hull(V, InBand(r, b))
  PROVE  OneByOne(V, W, r, B, j)
<1> DEFINE q == InBand(r, j)
           H(b) == Hull(V, InBand(r, b))
           last == [f |-> q.f, k |-> q.k, p |-> q.end - 1]
<1>1. q \in SourceRange /\ q.k = j /\ q.f = r.f BY InBandIsRange
<1>2. \A b \in B : H(b) \in SourceRange /\ H(b).k = b /\ b # j
  BY InBandIsRange, HullEncloses
<1>3. \A v \in V : v.k \in Nat BY DEF SourceRange
<1>4. j \notin B BY <1>2
<1> HIDE DEF q, H
<1>5. \A v \in Gone(V, r, B) : v.k \in B BY DEF Gone
<1>6. \A v : v.k = j => (v \in W <=> v \in V) BY <1>2, <1>4, <1>5 DEF H
<1>7. ASSUME NEW x \in Pos, x.k = j
      PROVE  (Covered(W, x) <=> Covered(V, x)) /\ (Covered(V, x) => At(W, x) = At(V, x))
  <2>1. \A v : Within(x, v) => (v \in W <=> v \in V) BY <1>6, <1>7 DEF Within
  <2>2. Covered(W, x) <=> Covered(V, x) BY <2>1 DEF Covered
  <2>3. ASSUME Covered(V, x) PROVE At(W, x) = At(V, x)
    <3>1. At(V, x) \in V /\ Within(x, At(V, x)) BY <2>3, AtFinds
    <3>2. At(V, x) \in W BY <2>1, <3>1
    <3> QED BY <3>1, <3>2, AtUnique
  <2> QED BY <2>2, <2>3
<1>8. Hull(W, q) = Hull(V, q)
  <2>1. Begin(q) \in Pos /\ Begin(q).k = j /\ last \in Pos /\ last.k = j
    BY <1>1, SizeAssumption DEF Begin, Pos, SourceRange
  <2>2. /\ Covered(W, Begin(q)) <=> Covered(V, Begin(q))
        /\ Covered(V, Begin(q)) => At(W, Begin(q)) = At(V, Begin(q))
        /\ Covered(W, last) <=> Covered(V, last)
        /\ Covered(V, last) => At(W, last) = At(V, last)
    BY <1>7, <2>1
  <2> QED BY <2>2 DEF Hull
<1>9. Absorbed(W, q) = Absorbed(V, q)
  <2>1. \A v : Overlap(v, q) => v.k = j BY <1>1 DEF Overlap
  <2> QED BY <1>6, <2>1 DEF Absorbed
<1>10. ASSUME NEW U \in {V, W} PROVE Gone(U, r, {j}) = Absorbed(U, q)
  <2>1. \A v \in Absorbed(U, q) : v.k = j /\ v \in U BY <1>1 DEF Absorbed, Overlap
  <2> QED BY <2>1 DEF Gone, q
<1>11. Gone(W, r, {j}) = Gone(V, r, {j}) BY <1>9, <1>10
<1>12. Gone(V, r, B \cup {j}) = Gone(V, r, B) \cup Gone(V, r, {j}) BY DEF Gone
<1>13. \A v \in V : v.k <= j => v \notin Gone(V, r, B)
  <2>1. \A v \in V : v.k <= j => v.k \notin B BY <1>3
  <2> QED BY <1>5, <2>1
<1>14. \A v \in V : v.k <= j => Moved(V, r, B, v) = v BY <1>13 DEF Moved
<1>15. \A v \in V : Moved(V, r, B, v).k = v.k BY MovedEncloses DEF Encloses
<1>16. \A v \in Gone(V, r, {j}) : v.k = j BY DEF Gone
<1>17. ASSUME NEW v \in V
       PROVE  Moved(W, r, {j}, Moved(V, r, B, v)) = Moved(V, r, B \cup {j}, v)
  <2>1. CASE v \in Gone(V, r, B)
    <3>1. v.k \in B /\ v.k # j BY <1>4, <1>5, <2>1
    <3>2. Moved(V, r, B, v) \notin Gone(W, r, {j}) BY <1>11, <1>15, <1>16, <3>1
    <3>3. Moved(W, r, {j}, Moved(V, r, B, v)) = Moved(V, r, B, v) BY <3>2 DEF Moved
    <3>4. Moved(V, r, B \cup {j}, v) = Moved(V, r, B, v) BY <1>12, <2>1 DEF Moved
    <3> QED BY <3>3, <3>4
  <2>2. CASE v \in Gone(V, r, {j})
    <3>1. v.k = j BY <1>16, <2>2
    <3>2. Moved(V, r, B, v) = v BY <1>3, <1>14, <3>1
    <3>3. Moved(W, r, {j}, v) = Hull(W, q) BY <1>11, <2>2, <3>1 DEF Moved, q
    <3>4. Moved(V, r, B \cup {j}, v) = Hull(V, q) BY <1>12, <2>2, <3>1 DEF Moved, q
    <3> QED BY <1>8, <3>2, <3>3, <3>4
  <2>3. CASE v \notin Gone(V, r, B) /\ v \notin Gone(V, r, {j})
    BY <1>11, <1>12, <2>3 DEF Moved
  <2> QED BY <2>1, <2>2, <2>3
<1>18. ASSUME NEW u \in W, NEW w \in W, Moved(W, r, {j}, u) = Moved(W, r, {j}, w), u # w
       PROVE  u.k = j /\ w.k = j
  <2>1. Moved(W, r, {j}, u).k = u.k /\ Moved(W, r, {j}, w).k = w.k
    BY MovedEncloses DEF Encloses
  <2>2. u \in Gone(W, r, {j}) \/ w \in Gone(W, r, {j}) BY <1>18 DEF Moved
  <2> QED BY <1>11, <1>16, <1>18, <2>1, <2>2
<1> QED BY <1>6, <1>8, <1>11, <1>12, <1>14, <1>15, <1>17, <1>18 DEF q, OneByOne

\* An include of a vertex after code comes from a vertex that moved there.
CameAlong(g, r, bands, w, y) ==
  \E u \in g.verts : /\ Moved(g.verts, r, bands, u) = w
                    /\ \E i \in g.incs[u] : y = <<i[1] + u.beg - w.beg, i[2]>>

\* IncsOf collects those, and nothing else.
LEMMA IncsIn ==
  ASSUME NEW g, NEW r, NEW bands, NEW w, NEW y
  PROVE  y \in IncsOf(g, r, bands, w) <=> CameAlong(g, r, bands, w, y)
<1> DEFINE at(u) == {<<i[1] + u.beg - w.beg, i[2]>> : i \in g.incs[u]}
           U == {u \in g.verts : Moved(g.verts, r, bands, u) = w}
<1>1. IncsOf(g, r, bands, w) = UNION {at(u) : u \in U} BY DEF IncsOf
<1>2. \A u : y \in at(u) <=> \E i \in g.incs[u] : y = <<i[1] + u.beg - w.beg, i[2]>> OBVIOUS
<1> HIDE DEF at
<1>3. y \in UNION {at(u) : u \in U} <=> \E u \in U : y \in at(u) OBVIOUS
<1> QED BY <1>1, <1>2, <1>3 DEF CameAlong

\* code in some bands, then in one below them, is code in all of them at once.
LEMMA NextBand ==
  ASSUME NEW g, IsGraph(g), NoOverlap(g.verts), NEW r \in SourceRange,
         NEW B \in SUBSET Nat, NEW j \in Nat, \A b \in B : b > j
  PROVE  CodeIn(CodeIn(g, r, B), r, {j}) = CodeIn(g, r, B \cup {j})
<1> DEFINE V == g.verts
           h == CodeIn(g, r, B)
           W == h.verts
           c == CodeIn(h, r, {j})
           a == CodeIn(g, r, B \cup {j})
           M1(v) == Moved(V, r, B, v)
           M2(v) == Moved(W, r, {j}, v)
           M(v) == Moved(V, r, B \cup {j}, v)
           E1 == KeptEdges(g, r, B)
           E2 == KeptEdges(h, r, {j})
           E == KeptEdges(g, r, B \cup {j})
           to1(e) == MovedEdge(V, r, B, e)
           to2(e) == MovedEdge(W, r, {j}, e)
           to(e) == MovedEdge(V, r, B \cup {j}, e)
           S1(d) == {e \in E1 : to1(e) = d}
           S2(d) == {e \in E2 : to2(e) = d}
           S(d) == {e \in E : to(e) = d}
           H(b) == Hull(V, InBand(r, b))
<1>1. V \in SUBSET SourceRange /\ NoOverlap(V) BY DEF IsGraph
<1>2. W \in SUBSET SourceRange /\ NoOverlap(W) /\ \A v \in V : M1(v) \in W BY CodeVerts
<1>3. W = (V \ Gone(V, r, B)) \cup {H(b) : b \in B} BY DEF CodeIn
<1>4. IsGraph(h) BY CodeGraph
<1>5. /\ h.edge = [d \in {to1(e) : e \in E1} |-> g.edge[LastWritten(S1(d))]]
      /\ h.incs = [w \in W |-> IncsOf(g, r, B, w)]
  BY DEF CodeIn
<1>6. c = [verts |-> (W \ Gone(W, r, {j})) \cup {Hull(W, InBand(r, b)) : b \in {j}},
           edge  |-> [d \in {to2(e) : e \in E2} |-> h.edge[LastWritten(S2(d))]],
           incs  |-> [w \in (W \ Gone(W, r, {j})) \cup {Hull(W, InBand(r, b)) : b \in {j}} |->
                        IncsOf(h, r, {j}, w)]]
  BY DEF CodeIn
<1>7. a = [verts |-> (V \ Gone(V, r, B \cup {j})) \cup {H(b) : b \in B \cup {j}},
           edge  |-> [d \in {to(e) : e \in E} |-> g.edge[LastWritten(S(d))]],
           incs  |-> [w \in (V \ Gone(V, r, B \cup {j})) \cup {H(b) : b \in B \cup {j}} |->
                        IncsOf(g, r, B \cup {j}, w)]]
  BY DEF CodeIn
<1>8. /\ Hull(W, InBand(r, j)) = H(j)
      /\ Gone(W, r, {j}) = Gone(V, r, {j})
      /\ Gone(V, r, B \cup {j}) = Gone(V, r, B) \cup Gone(V, r, {j})
      /\ \A v \in V : v.k <= j => M1(v) = v
      /\ \A v \in V : M1(v).k = v.k
      /\ \A v \in V : M2(M1(v)) = M(v)
      /\ \A u, w \in W : M2(u) = M2(w) /\ u # w => u.k = j /\ w.k = j
  <2>1. \A v : v \in W <=> \/ v \in V /\ v \notin Gone(V, r, B)
                           \/ \E b \in B : v = Hull(V, InBand(r, b))
    BY <1>3
  <2> HIDE DEF h, W, V
  <2>2. OneByOne(V, W, r, B, j) BY <1>1, <1>2, <2>1, BandBelow
  <2> QED BY <2>2 DEF OneByOne
<1>9. \A b \in B : H(b).k = b /\ b # j
  <2>1. \A b \in B : InBand(r, b) \in SourceRange /\ InBand(r, b).k = b /\ b # j BY InBandIsRange
  <2> QED BY <1>1, <2>1, HullEncloses
<1>10. (\A v \in Gone(V, r, {j}) : v.k = j) /\ (\A v \in Gone(V, r, B) : v.k \in B)
  BY DEF Gone
<1> HIDE DEF h, c, a, H, M1, M2, M
<1>11. (W \ Gone(W, r, {j})) \cup {Hull(W, InBand(r, b)) : b \in {j}} =
       (V \ Gone(V, r, B \cup {j})) \cup {H(b) : b \in B \cup {j}}
  <2>1. {Hull(W, InBand(r, b)) : b \in {j}} = {H(j)} BY <1>8
  <2>2. {H(b) : b \in B \cup {j}} = {H(b) : b \in B} \cup {H(j)} OBVIOUS
  <2>3. \A b \in B : H(b) \notin Gone(V, r, {j}) BY <1>9, <1>10
  <2>4. {H(b) : b \in B} \ Gone(V, r, {j}) = {H(b) : b \in B} BY <2>3
  <2> QED BY <1>3, <1>8, <2>1, <2>2, <2>4
<1>12. \A e \in DOMAIN g.edge : e = <<e[1], e[2]>> /\ e[1] \in V /\ e[2] \in V
  BY DEF IsGraph
<1>13. \A e \in E1 : to1(e) = <<M1(e[1]), M1(e[2])>> BY DEF MovedEdge, M1
<1>14. \A d \in E2 : to2(d) = <<M2(d[1]), M2(d[2])>> BY DEF MovedEdge, M2
<1>15. \A e : e \in E <=> e \in E1 /\ to1(e) \in E2
  <2> TAKE e
  <2>1. CASE e \notin E1 BY <1>8, <2>1 DEF KeptEdges
  <2>2. CASE e \in E1
    <3>1. e[1] \in V /\ e[2] \in V /\ e \in DOMAIN g.edge BY <1>12, <2>2 DEF KeptEdges
    <3>2. to1(e) \in DOMAIN h.edge BY <1>5, <2>2
    <3>3. \A v \in V : M1(v) \in Gone(W, r, {j}) <=> v \in Gone(V, r, {j})
      <4> TAKE v \in V
      <4>1. v.k = j => M1(v) = v
        <5>1. v.k = j => v.k <= j OBVIOUS
        <5> QED BY <1>8, <5>1
      <4>2. M1(v) \in Gone(V, r, {j}) => v.k = j BY <1>8, <1>10
      <4> QED BY <1>8, <1>10, <4>1, <4>2
    <3>4. to1(e)[1] = M1(e[1]) /\ to1(e)[2] = M1(e[2]) BY <1>13, <2>2
    <3>5. to1(e) \in E2 <=> ~(e[1] \in Gone(V, r, {j}) /\ e[2] \in Gone(V, r, {j}))
      <4>1. e[1] \in Gone(V, r, {j}) /\ e[2] \in Gone(V, r, {j}) => M1(e[1]).k = M1(e[2]).k
        BY <1>8, <1>10, <3>1
      <4> HIDE DEF to1
      <4> QED BY <3>1, <3>2, <3>3, <3>4, <4>1 DEF KeptEdges
    <3>6. e \in E <=> ~(e[1] \in Gone(V, r, {j}) /\ e[2] \in Gone(V, r, {j}))
      <4>1. ~(e[1] \in Gone(V, r, B) /\ e[2] \in Gone(V, r, B) /\ e[1].k = e[2].k)
        BY <2>2 DEF KeptEdges
      <4>2. Gone(V, r, {j}) \cap Gone(V, r, B) = {} BY <1>9, <1>10
      <4>3. e[1].k = e[2].k => /\ ~(e[1] \in Gone(V, r, B) /\ e[2] \in Gone(V, r, {j}))
                               /\ ~(e[1] \in Gone(V, r, {j}) /\ e[2] \in Gone(V, r, B))
        BY <1>9, <1>10
      <4>4. e[1] \in Gone(V, r, {j}) /\ e[2] \in Gone(V, r, {j}) => e[1].k = e[2].k BY <1>10
      <4> QED BY <1>8, <3>1, <4>1, <4>3, <4>4 DEF KeptEdges
    <3> QED BY <2>2, <3>5, <3>6
  <2> QED BY <2>1, <2>2
<1>16. \A e \in E : to(e) = to2(to1(e))
  <2> TAKE e \in E
  <2>1. e \in E1 /\ to1(e) \in E2 BY <1>15
  <2>2. e[1] \in V /\ e[2] \in V BY <1>12, <2>1 DEF KeptEdges
  <2>3. to2(to1(e)) = <<M2(M1(e[1])), M2(M1(e[2]))>> BY <1>13, <1>14, <2>1
  <2>4. to(e) = <<M(e[1]), M(e[2])>> BY DEF MovedEdge, M
  <2> QED BY <1>8, <2>2, <2>3, <2>4
<1>17. \A d \in E2 : \E e \in E1 : to1(e) = d
  <2>1. E2 \subseteq DOMAIN h.edge BY DEF KeptEdges
  <2> QED BY <1>5, <2>1
<1> HIDE DEF to1, to2, to, E, E1, E2
<1>18. {to(e) : e \in E} = {to2(d) : d \in E2}
  <2>1. \A e \in E : to(e) \in {to2(d) : d \in E2} BY <1>15, <1>16
  <2>2. \A d \in E2 : \E e \in E : to(e) = to2(d) BY <1>15, <1>16, <1>17
  <2> QED BY <2>1, <2>2
<1>19. ASSUME NEW d \in {to2(x) : x \in E2}
       PROVE  h.edge[LastWritten(S2(d))] = g.edge[LastWritten(S(d))]
  <2> DEFINE y == LastWritten(S2(d))
             e == LastWritten(S1(y))
  <2>1. /\ \A v \in V : M1(v).f = v.f /\ M1(v).k = v.k
        /\ \A u \in W : M2(u).f = u.f /\ M2(u).k = u.k
    BY <1>1, <1>2, MovedEncloses DEF Encloses, M1, M2
  <2>2. /\ E1 \subseteq DOMAIN g.edge /\ E1 \subseteq V \X V
        /\ E2 \subseteq DOMAIN h.edge /\ E2 \subseteq W \X W
    BY <1>4 DEF E1, E2, KeptEdges, IsGraph
  <2>3. /\ y \in S2(d)
        /\ \A z \in S2(d) : z = y \/ WrittenAfter(y, z)
    <3> DEFINE T == S2(d)
    <3>1. T \in SUBSET (W \X W) /\ T # {} BY <2>2
    <3>2. \A z \in T : /\ z[1] \in W /\ z[2] \in W
                       /\ M2(z[1]) = d[1] /\ M2(z[2]) = d[2]
      BY <1>14, <3>1
    <3>3. \A z, x \in T : /\ z[1].f = x[1].f /\ z[1].k = x[1].k
                          /\ z[2].f = x[2].f /\ z[2].k = x[2].k
      BY <2>1, <3>2
    <3> HIDE DEF T
    <3>4. /\ LastWritten(T) \in T
          /\ \A z \in T : z = LastWritten(T) \/ WrittenAfter(LastWritten(T), z)
      BY <1>2, <3>1, <3>3, LastWrittenIn
    <3> QED BY <3>4 DEF T
  <2> HIDE DEF y
  <2>4. y \in E2 /\ to2(y) = d BY <2>3
  <2>5. /\ e \in S1(y)
        /\ \A z \in S1(y) : z = e \/ WrittenAfter(e, z)
    <3> DEFINE T == S1(y)
    <3>1. T \in SUBSET (V \X V) /\ T # {} BY <1>17, <2>2, <2>4
    <3>2. \A z \in T : /\ z[1] \in V /\ z[2] \in V
                       /\ M1(z[1]) = y[1] /\ M1(z[2]) = y[2]
      BY <1>13, <3>1
    <3>3. \A z, x \in T : /\ z[1].f = x[1].f /\ z[1].k = x[1].k
                          /\ z[2].f = x[2].f /\ z[2].k = x[2].k
      BY <2>1, <3>2
    <3> HIDE DEF T
    <3>4. /\ LastWritten(T) \in T
          /\ \A z \in T : z = LastWritten(T) \/ WrittenAfter(LastWritten(T), z)
      BY <1>1, <3>1, <3>3, LastWrittenIn
    <3> QED BY <3>4 DEF T
  <2> HIDE DEF e
  <2>6. e \in E1 /\ to1(e) = y BY <2>5
  <2>7. h.edge[y] = g.edge[e]
    <3>1. y \in {to1(x) : x \in E1} BY <2>6
    <3> QED BY <1>5, <3>1 DEF e
  <2>8. e \in S(d) BY <1>15, <1>16, <2>4, <2>6
  <2>9. ASSUME NEW z \in S(d) PROVE z = e \/ WrittenAfter(e, z)
    <3> DEFINE x == to1(z)
    <3>1. z \in E1 /\ x \in E2 /\ to2(x) = d BY <1>15, <1>16
    <3>2. CASE x = y BY <2>5, <3>1, <3>2
    <3>3. CASE x # y
      <4>1. WrittenAfter(y, x) BY <2>3, <3>1, <3>3
      <4>2. /\ z[1] \in V /\ z[2] \in V /\ e[1] \in V /\ e[2] \in V
            /\ x[1] \in W /\ x[2] \in W /\ y[1] \in W /\ y[2] \in W
        BY <2>2, <2>4, <2>6, <3>1
      <4>3. /\ x[1] = M1(z[1]) /\ x[2] = M1(z[2])
            /\ y[1] = M1(e[1]) /\ y[2] = M1(e[2])
        BY <1>13, <2>6, <3>1
      <4>4. M2(x[1]) = M2(y[1]) /\ M2(x[2]) = M2(y[2])
        <5>1. d = <<M2(x[1]), M2(x[2])>> /\ d = <<M2(y[1]), M2(y[2])>>
          BY <1>14, <2>4, <3>1
        <5> QED BY <5>1
      <4> HIDE DEF x
      <4>5. /\ x[1] # y[1] => x[1].k = j /\ y[1].k = j
            /\ x[2] # y[2] => x[2].k = j /\ y[2].k = j
        BY <1>8, <4>2, <4>4
      <4>6. /\ z[1].k = x[1].k /\ z[2].k = x[2].k /\ e[1].k = y[1].k /\ e[2].k = y[2].k
            /\ x[1].k = y[1].k /\ x[2].k = y[2].k
            /\ x[1].k \in Nat /\ x[2].k \in Nat
        BY <1>2, <1>8, <4>2, <4>3, <4>5 DEF SourceRange
      <4>7. /\ x[1].k <= j => x[1] = z[1] /\ y[1] = e[1]
            /\ x[2].k <= j => x[2] = z[2] /\ y[2] = e[2]
        BY <1>8, <4>2, <4>3, <4>6
      <4>8. /\ x[1].beg \in Nat /\ y[1].beg \in Nat /\ x[2].beg \in Nat /\ y[2].beg \in Nat
        BY <1>2, <4>2 DEF SourceRange
      <4>9. CASE y[1].k <= y[2].k
        <5>1. CASE x[1] # y[1]
          <6>1. y[1].beg > x[1].beg BY <4>1, <4>9, <5>1 DEF WrittenAfter
          <6>2. x[1] = z[1] /\ y[1] = e[1] BY <4>5, <4>7, <5>1
          <6> QED BY <4>6, <4>9, <6>1, <6>2 DEF WrittenAfter
        <5>2. CASE x[1] = y[1]
          <6>1. y[2].beg > x[2].beg BY <4>1, <4>8, <4>9, <5>2 DEF WrittenAfter
          <6>2. x[2] # y[2] BY <4>8, <6>1
          <6>3. x[1].k <= j /\ x[2].k <= j BY <4>5, <4>6, <4>9, <6>2
          <6>4. x[1] = z[1] /\ y[1] = e[1] /\ x[2] = z[2] /\ y[2] = e[2] BY <4>7, <6>3
          <6> QED BY <4>6, <4>9, <5>2, <6>1, <6>4 DEF WrittenAfter
        <5> QED BY <5>1, <5>2
      <4>10. CASE ~(y[1].k <= y[2].k)
        <5>1. CASE x[2] # y[2]
          <6>1. y[2].beg > x[2].beg BY <4>1, <4>10, <5>1 DEF WrittenAfter
          <6>2. x[2] = z[2] /\ y[2] = e[2] BY <4>5, <4>7, <5>1
          <6> QED BY <4>6, <4>10, <6>1, <6>2 DEF WrittenAfter
        <5>2. CASE x[2] = y[2]
          <6>1. y[1].beg > x[1].beg BY <4>1, <4>8, <4>10, <5>2 DEF WrittenAfter
          <6>2. x[1] # y[1] BY <4>8, <6>1
          <6>3. x[1].k <= j /\ x[2].k <= j BY <4>5, <4>6, <4>10, <6>2
          <6>4. x[1] = z[1] /\ y[1] = e[1] /\ x[2] = z[2] /\ y[2] = e[2] BY <4>7, <6>3
          <6> QED BY <4>6, <4>10, <5>2, <6>1, <6>4 DEF WrittenAfter
        <5> QED BY <5>1, <5>2
      <4> QED BY <4>9, <4>10
    <3> QED BY <3>2, <3>3
  <2>10. LastWritten(S(d)) = e
    <3> DEFINE T == S(d)
    <3>1. \A z \in T : z \in V \X V /\ to(z) = d BY <1>15, <2>2
    <3>2. \A z \in T : /\ M2(M1(z[1])) = d[1] /\ M2(M1(z[2])) = d[2]
      BY <1>13, <1>14, <1>15, <1>16
    <3>3. \A v \in V : M2(M1(v)).k = v.k BY <1>2, <1>8, <2>1 DEF M1
    <3>4. \A z, x \in T : z[1].k = x[1].k /\ z[2].k = x[2].k
      BY <3>1, <3>2, <3>3
    <3>5. T \in SUBSET (SourceRange \X SourceRange) BY <1>1, <3>1
    <3> HIDE DEF T
    <3>6. e \in T /\ \A z \in T : z = e \/ WrittenAfter(e, z) BY <2>8, <2>9 DEF T
    <3>7. LastWritten(T) = e BY <3>4, <3>5, <3>6, LastWrittenIs
    <3> QED BY <3>7 DEF T
  <2> QED BY <2>7, <2>10 DEF y
<1>20. ASSUME NEW w \in SourceRange
       PROVE  IncsOf(h, r, {j}, w) = IncsOf(g, r, B \cup {j}, w)
  <2>1. \A y : y \in IncsOf(h, r, {j}, w) <=>
                 \E v \in W : M2(v) = w /\ \E k \in h.incs[v] : y = <<k[1] + v.beg - w.beg, k[2]>>
    <3> TAKE y
    <3>1. y \in IncsOf(h, r, {j}, w) <=> CameAlong(h, r, {j}, w, y) BY IncsIn
    <3> QED BY <3>1 DEF CameAlong, M2
  <2>2. \A v \in W : \A k : k \in h.incs[v] <=>
                 \E u \in V : M1(u) = v /\ \E i \in g.incs[u] : k = <<i[1] + u.beg - v.beg, i[2]>>
    <3> TAKE v \in W
    <3>1. h.incs[v] = IncsOf(g, r, B, v) BY <1>5
    <3> TAKE k
    <3>2. k \in IncsOf(g, r, B, v) <=> CameAlong(g, r, B, v, k) BY IncsIn
    <3> QED BY <3>1, <3>2 DEF CameAlong, M1
  <2>3. \A y : y \in IncsOf(g, r, B \cup {j}, w) <=>
                 \E u \in V : M(u) = w /\ \E i \in g.incs[u] : y = <<i[1] + u.beg - w.beg, i[2]>>
    <3> TAKE y
    <3>1. y \in IncsOf(g, r, B \cup {j}, w) <=> CameAlong(g, r, B \cup {j}, w, y) BY IncsIn
    <3> QED BY <3>1 DEF CameAlong, M
  <2>4. \A u \in V : u.beg \in Nat /\ \A i \in g.incs[u] : i[1] \in Nat
    BY <1>1 DEF IsGraph, SourceRange
  <2>5. w.beg \in Nat /\ \A v \in W : v.beg \in Nat BY <1>2 DEF SourceRange
  <2>6. ASSUME NEW u \in V, NEW i \in g.incs[u], NEW v \in W
        PROVE  (i[1] + u.beg - v.beg) + v.beg - w.beg = i[1] + u.beg - w.beg
    BY <2>4, <2>5
  <2>7. ASSUME NEW y \in IncsOf(h, r, {j}, w) PROVE y \in IncsOf(g, r, B \cup {j}, w)
    <3>1. PICK v \in W : M2(v) = w /\ \E k \in h.incs[v] : y = <<k[1] + v.beg - w.beg, k[2]>>
      BY <2>1
    <3>2. PICK k \in h.incs[v] : y = <<k[1] + v.beg - w.beg, k[2]>> BY <3>1
    <3>3. PICK u \in V : M1(u) = v /\ \E i \in g.incs[u] : k = <<i[1] + u.beg - v.beg, i[2]>>
      BY <2>2
    <3>4. PICK i \in g.incs[u] : k = <<i[1] + u.beg - v.beg, i[2]>> BY <3>3
    <3>5. k[1] = i[1] + u.beg - v.beg /\ k[2] = i[2] BY <3>4
    <3>6. y = <<i[1] + u.beg - w.beg, i[2]>> BY <2>6, <3>2, <3>5
    <3>7. M(u) = w BY <1>8, <3>1, <3>3
    <3> QED BY <2>3, <3>6, <3>7
  <2>8. ASSUME NEW y \in IncsOf(g, r, B \cup {j}, w) PROVE y \in IncsOf(h, r, {j}, w)
    <3>1. PICK u \in V : M(u) = w /\ \E i \in g.incs[u] : y = <<i[1] + u.beg - w.beg, i[2]>>
      BY <2>3
    <3>2. PICK i \in g.incs[u] : y = <<i[1] + u.beg - w.beg, i[2]>> BY <3>1
    <3> DEFINE v == M1(u)
               k == <<i[1] + u.beg - v.beg, i[2]>>
    <3>3. v \in W /\ M2(v) = w BY <1>2, <1>8, <3>1
    <3>4. k \in h.incs[v] BY <2>2, <3>3
    <3>5. k[1] = i[1] + u.beg - v.beg /\ k[2] = i[2] OBVIOUS
    <3> HIDE DEF v, k
    <3>6. y = <<k[1] + v.beg - w.beg, k[2]>> BY <2>6, <3>2, <3>3, <3>5
    <3> QED BY <2>1, <3>3, <3>4, <3>6
  <2> QED BY <2>7, <2>8
<1> DEFINE X == (V \ Gone(V, r, B \cup {j})) \cup {H(b) : b \in B \cup {j}}
<1>21. [w \in X |-> IncsOf(h, r, {j}, w)] = [w \in X |-> IncsOf(g, r, B \cup {j}, w)]
  <2>1. B \cup {j} \in SUBSET Nat OBVIOUS
  <2>2. a.verts = X BY <1>7
  <2>3. X \subseteq SourceRange BY <2>1, <2>2, CodeVerts DEF a
  <2> HIDE DEF X
  <2> QED BY <1>20, <2>3
<1>22. [d \in {to2(e) : e \in E2} |-> h.edge[LastWritten(S2(d))]] =
       [d \in {to(e) : e \in E} |-> g.edge[LastWritten(S(d))]]
  <2> HIDE DEF S, S2
  <2> QED BY <1>18, <1>19
<1>23. c = a
  <2> HIDE DEF S, S2
  <2> QED BY <1>6, <1>7, <1>11, <1>21, <1>22
<1> QED BY <1>23 DEF c, a, h

\* Which band a range names makes no difference to code in given bands.
LEMMA SameBands ==
  ASSUME NEW g, NEW r \in SourceRange, NEW j \in Nat, NEW bands
  PROVE  CodeIn(g, InBand(r, j), bands) = CodeIn(g, r, bands)
<1> DEFINE q == InBand(r, j)
           V == g.verts
<1>1. \A i : InBand(q, i) = InBand(r, i) BY DEF InBand, SourceRange
<1> HIDE DEF q
<1>2. Gone(V, q, bands) = Gone(V, r, bands) BY <1>1 DEF Gone
<1>3. \A v : Moved(V, q, bands, v) = Moved(V, r, bands, v) BY <1>1, <1>2 DEF Moved
<1>4. KeptEdges(g, q, bands) = KeptEdges(g, r, bands) BY <1>2 DEF KeptEdges
<1>5. \A e : MovedEdge(V, q, bands, e) = MovedEdge(V, r, bands, e) BY <1>3 DEF MovedEdge
<1>6. \A w : IncsOf(g, q, bands, w) = IncsOf(g, r, bands, w) BY <1>3 DEF IncsOf
<1>7. CodeIn(g, q, bands) = CodeIn(g, r, bands) BY <1>1, <1>2, <1>4, <1>5, <1>6 DEF CodeIn
<1> QED BY <1>7 DEF q

\* F holds the graph after every call, and whether code has returned.
Descend(s, q, onlyIfExists) ==
  IF s.returned \/ (onlyIfExists /\ ~Overlaps(s.graph.verts, q))
  THEN [s EXCEPT !.returned = TRUE]
  ELSE [s EXCEPT !.graph = CodeHere(@, q)]

LoopCalls(h, r, onlyIfExists, F) ==
  F = [n \in 0 .. r.k + 1 |->
         IF n = 0 THEN [graph |-> h, returned |-> FALSE]
         ELSE Descend(F[n - 1], InBand(r, r.k + 1 - n), onlyIfExists)]

\* LoopCode is the graph after the last call.
LEMMA LoopCodeIs ==
  ASSUME NEW h, NEW r \in SourceRange, NEW onlyIfExists, NEW F, LoopCalls(h, r, onlyIfExists, F)
  PROVE  LoopCode(h, r, onlyIfExists) = F[r.k + 1].graph
<1> DEFINE C == CHOOSE G : LoopCalls(h, r, onlyIfExists, G)
           step(G, n) == IF n = 0 THEN [graph |-> h, returned |-> FALSE]
                         ELSE Descend(G[n - 1], InBand(r, r.k + 1 - n), onlyIfExists)
           Z == {n \in Nat : n <= r.k + 1 => C[n] = F[n]}
<1>1. LoopCode(h, r, onlyIfExists) = C[r.k + 1].graph BY DEF LoopCode, LoopCalls, Descend
<1>2. LoopCalls(h, r, onlyIfExists, C) OBVIOUS
<1> HIDE DEF C
<1>3. r.k \in Nat BY DEF SourceRange
<1>4. /\ \A n \in 0 .. r.k + 1 : F[n] = step(F, n)
      /\ \A n \in 0 .. r.k + 1 : C[n] = step(C, n)
  <2>1. F = [n \in 0 .. r.k + 1 |-> step(F, n)] /\ C = [n \in 0 .. r.k + 1 |-> step(C, n)]
    BY <1>2 DEF LoopCalls
  <2> HIDE DEF step
  <2> QED BY <2>1
<1>5. 0 \in Z
  <2>1. 0 \in 0 .. r.k + 1 BY <1>3
  <2>2. C[0] = F[0] BY <1>4, <2>1
  <2> QED BY <2>2
<1>6. ASSUME NEW n \in Nat, n \in Z PROVE n + 1 \in Z
  <2> SUFFICES ASSUME n + 1 <= r.k + 1 PROVE C[n + 1] = F[n + 1]
    OBVIOUS
  <2>1. n + 1 \in 0 .. r.k + 1 /\ n + 1 # 0 /\ (n + 1) - 1 = n /\ C[n] = F[n] BY <1>3, <1>6
  <2> QED BY <1>4, <2>1
<1> HIDE DEF Z
<1>7. \A n \in Nat : n \in Z BY <1>5, <1>6, FromZero
<1>8. C[r.k + 1] = F[r.k + 1] BY <1>3, <1>7 DEF Z
<1> QED BY <1>1, <1>8

\* One call more is one band more.
LEMMA CallIsNextBand ==
  ASSUME NEW h, IsGraph(h), NoOverlap(h.verts), NEW r \in SourceRange,
         NEW B \in SUBSET Nat, NEW j \in Nat, \A b \in B : b > j
  PROVE  LET g == CodeIn(h, r, B)
             q == InBand(r, j)
         IN /\ Overlaps(g.verts, q) <=> Overlaps(h.verts, q)
            /\ CodeHere(g, q) = CodeIn(h, r, B \cup {j})
<1> DEFINE g == CodeIn(h, r, B)
           q == InBand(r, j)
           V == h.verts
           W == g.verts
<1>1. q \in SourceRange /\ q.k = j BY InBandIsRange
<1>2. V \in SUBSET SourceRange /\ NoOverlap(V) BY DEF IsGraph
<1>3. IsGraph(g) /\ W \in SUBSET SourceRange /\ NoOverlap(W) BY CodeGraph, CodeVerts
<1>4. OneByOne(V, W, r, B, j)
  <2>1. \A v : v \in W <=> \/ v \in V /\ v \notin Gone(V, r, B)
                           \/ \E b \in B : v = Hull(V, InBand(r, b))
    BY DEF CodeIn
  <2> HIDE DEF g, V, W
  <2> QED BY <1>2, <1>3, <2>1, BandBelow
<1>5. Overlaps(W, q) <=> Overlaps(V, q)
  <2>1. \A v : v.k = j => (v \in W <=> v \in V) BY <1>4 DEF OneByOne
  <2> HIDE DEF q, g, W
  <2> QED BY <1>1, <2>1 DEF Overlaps, Overlap
<1>6. CodeHere(g, q) = CodeIn(g, q, {q.k})
  <2> HIDE DEF g, q
  <2> QED BY <1>1, <1>3, CallIsOneBand
<1>7. CodeIn(g, q, {j}) = CodeIn(g, r, {j}) BY SameBands
<1>8. CodeIn(g, r, {j}) = CodeIn(h, r, B \cup {j}) BY NextBand
<1> HIDE DEF g, q
<1>9. CodeHere(g, q) = CodeIn(h, r, B \cup {j}) BY <1>1, <1>6, <1>7, <1>8
<1> QED BY <1>5, <1>9 DEF g, q

\* The calls do to the graph what code does to it in the bands they reach: all of
\* them, or those above the first band in which nothing overlaps.
LEMMA LoopIs ==
  ASSUME NEW h, IsGraph(h), NoOverlap(h.verts), NEW r \in SourceRange,
         NEW onlyIfExists \in BOOLEAN, NEW bands \in SUBSET (0 .. r.k),
         \A i \in 0 .. r.k : i \in bands <=>
           (onlyIfExists => \A b \in i .. r.k : Overlaps(h.verts, InBand(r, b)))
  PROVE  LoopCode(h, r, onlyIfExists) = CodeIn(h, r, bands)
<1> DEFINE B(n) == {b \in bands : b + n > r.k}
           R(n) == onlyIfExists /\ \E b \in 0 .. r.k : b + n > r.k /\ ~Overlaps(h.verts, InBand(r, b))
           F == [n \in 0 .. r.k + 1 |-> [graph |-> CodeIn(h, r, B(n)), returned |-> R(n)]]
           next(n) == Descend(F[n - 1], InBand(r, r.k + 1 - n), onlyIfExists)
<1>1. /\ r.k \in Nat
      /\ \A b \in bands : b \in 0 .. r.k /\ b \in Nat
      /\ \A b \in bands : ~(b + 0 > r.k) /\ b + (r.k + 1) > r.k
  <2>1. r.k \in Nat BY DEF SourceRange
  <2>2. \A b \in bands : b \in 0 .. r.k OBVIOUS
  <2>3. \A b \in 0 .. r.k : b \in Nat /\ ~(b + 0 > r.k) /\ b + (r.k + 1) > r.k BY <2>1
  <2> QED BY <2>1, <2>2, <2>3
<1>2. CodeIn(h, r, B(0)) = h /\ ~R(0)
  <2>1. B(0) = {} BY <1>1
  <2>2. ~R(0) BY <1>1
  <2> HIDE DEF B, R
  <2> QED BY <2>1, <2>2, NoBands
<1>3. ASSUME NEW n \in 0 .. r.k + 1, n # 0
      PROVE  next(n) = [graph |-> CodeIn(h, r, B(n)), returned |-> R(n)]
  <2> DEFINE j == r.k + 1 - n
             q == InBand(r, j)
             g == CodeIn(h, r, B(n - 1))
  <2>1. n - 1 \in 0 .. r.k + 1 /\ j \in 0 .. r.k /\ j \in Nat BY <1>1, <1>3
  <2>2. F[n - 1] = [graph |-> g, returned |-> R(n - 1)] BY <2>1
  <2>3. \A b \in 0 .. r.k : /\ b + (n - 1) > r.k <=> b > j
                            /\ b + n > r.k <=> b > j \/ b = j
    BY <1>1, <1>3
  <2>4. B(n - 1) \in SUBSET Nat /\ \A b \in B(n - 1) : b > j BY <1>1, <2>3
  <2>5. B(n) = IF j \in bands THEN B(n - 1) \cup {j} ELSE B(n - 1) BY <1>1, <2>1, <2>3
  <2>6. R(n) <=> R(n - 1) \/ (onlyIfExists /\ ~Overlaps(h.verts, q)) BY <2>1, <2>3
  <2>7. j \in bands <=> ~R(n)
    <3>1. R(n) <=> onlyIfExists /\ \E b \in j .. r.k : ~Overlaps(h.verts, InBand(r, b))
      <4>1. \A b : b \in j .. r.k <=> b \in 0 .. r.k /\ b + n > r.k BY <1>1, <2>1, <2>3
      <4> QED BY <4>1
    <3> QED BY <2>1, <3>1
  <2>8. R(n) \in BOOLEAN /\ R(n - 1) \in BOOLEAN OBVIOUS
  <2> HIDE DEF B, R, F, j
  <2>9. /\ Overlaps(g.verts, q) <=> Overlaps(h.verts, q)
        /\ CodeHere(g, q) = CodeIn(h, r, B(n - 1) \cup {j})
    BY <2>1, <2>4, CallIsNextBand
  <2>10. next(n) = Descend([graph |-> g, returned |-> R(n - 1)], q, onlyIfExists) BY <2>2 DEF j
  <2> HIDE DEF g, q
  <2>11. CASE R(n)
    <3>1. next(n) = [graph |-> g, returned |-> TRUE] BY <2>6, <2>9, <2>10, <2>11 DEF Descend
    <3>2. CodeIn(h, r, B(n)) = g BY <2>5, <2>7, <2>11 DEF g
    <3> QED BY <2>8, <2>11, <3>1, <3>2
  <2>12. CASE ~R(n)
    <3>1. next(n) = [graph |-> CodeHere(g, q), returned |-> FALSE]
      BY <2>6, <2>8, <2>9, <2>10, <2>12 DEF Descend
    <3>2. CodeIn(h, r, B(n)) = CodeHere(g, q) BY <2>5, <2>7, <2>9, <2>12
    <3> QED BY <2>8, <2>12, <3>1, <3>2
  <2> QED BY <2>11, <2>12
<1>4. LoopCalls(h, r, onlyIfExists, F)
  <2> DEFINE G == [n \in 0 .. r.k + 1 |->
                     IF n = 0 THEN [graph |-> h, returned |-> FALSE] ELSE next(n)]
  <2>1. R(0) = FALSE BY <1>2
  <2> HIDE DEF R, B, next
  <2>2. F = G
    <3>1. ASSUME NEW n \in 0 .. r.k + 1
          PROVE  [graph |-> CodeIn(h, r, B(n)), returned |-> R(n)] =
                 IF n = 0 THEN [graph |-> h, returned |-> FALSE] ELSE next(n)
      BY <1>2, <1>3, <2>1
    <3> QED BY <3>1
  <2> HIDE DEF F
  <2> QED BY <2>2 DEF LoopCalls, next
<1>5. B(r.k + 1) = bands BY <1>1
<1>6. F[r.k + 1].graph = CodeIn(h, r, bands)
  <2>1. r.k + 1 \in 0 .. r.k + 1 BY <1>1
  <2> HIDE DEF B, R
  <2> QED BY <1>5, <2>1
<1> HIDE DEF F
<1> QED BY <1>4, <1>6, LoopCodeIs

\* What the loop of code computes is what Code and CodeIfExists say.
LEMMA LoopIsCode ==
  ASSUME NEW h, IsGraph(h), NoOverlap(h.verts), NEW r \in SourceRange
  PROVE  /\ LoopCode(h, r, FALSE) = Code(h, r)
         /\ LoopCode(h, r, TRUE) = CodeIfExists(h, r)
<1>1. LoopCode(h, r, FALSE) = CodeIn(h, r, 0 .. r.k)
  <2> DEFINE bands == 0 .. r.k
  <2>1. bands \in SUBSET (0 .. r.k) OBVIOUS
  <2>2. \A i \in 0 .. r.k : i \in bands <=>
          (FALSE => \A b \in i .. r.k : Overlaps(h.verts, InBand(r, b)))
    OBVIOUS
  <2> HIDE DEF bands
  <2>3. LoopCode(h, r, FALSE) = CodeIn(h, r, bands) BY <2>1, <2>2, LoopIs
  <2> QED BY <2>3 DEF bands
<1>2. LoopCode(h, r, TRUE) = CodeIfExists(h, r)
  <2> DEFINE bands == {j \in 0 .. r.k :
                         \A i \in j .. r.k : \E v \in h.verts : Overlap(v, InBand(r, i))}
  <2>1. bands \in SUBSET (0 .. r.k) OBVIOUS
  <2>2. \A i \in 0 .. r.k : i \in bands <=>
          (TRUE => \A b \in i .. r.k : Overlaps(h.verts, InBand(r, b)))
    BY DEF Overlaps
  <2>3. CodeIfExists(h, r) = CodeIn(h, r, bands) BY DEF CodeIfExists
  <2> HIDE DEF bands
  <2>4. LoopCode(h, r, TRUE) = CodeIn(h, r, bands) BY <2>1, <2>2, LoopIs
  <2> QED BY <2>3, <2>4
<1> QED BY <1>1, <1>2 DEF Code

=============================================================================
