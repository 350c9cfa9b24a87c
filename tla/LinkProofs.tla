----------------------------- MODULE LinkProofs -----------------------------
(***************************************************************************)
(* What modules Link and Lookup keep, for all collections: the tables of   *)
(* the result fit together, no dependency of a linked collection is lost,  *)
(* every declaration leads to the definition, collections that agree add   *)
(* up, and what is asked for is found.                                     *)
(***************************************************************************)
EXTENDS Lookup, SequenceTheorems, FiniteSetTheorems, WellFoundedInduction, TLAPS

Linking == {"files", "vertices", "edges", "defs", "locs"}
Phases == Linking \cup {"read", "resolve", "linked"}

\* File e of these tables is file f of collection c.
Names(e, us, sy, c, f) == /\ e \in FilesOf(us, sy) /\ (e < 0) = (f < 0)
                          /\ PathOf(us, sy, e) = PathOf(c.user, c.syst, f)

NoTwice(seq) == \A i, j \in DOMAIN seq : seq[i] = seq[j] => i = j

\* How far link has come.
Progress == /\ from \in Inputs /\ n \in 0 .. Len(from) /\ phase \in Phases
            /\ phase \in Linking => n > 0
            /\ phase \in {"resolve", "linked"} => n = Len(from)

\* The tables of files of the result.
Filed == /\ user \in Seq(Paths) /\ syst \in Seq(Paths) /\ toplvl \in Seq(Paths)
         /\ Len(toplvl) = Len(syst)
         /\ NoTwice(user) /\ NoTwice(syst)

\* f_map leads from every file of the collection to the same file of the result.
Mapped ==
  LET F == FilesOf(C.user, C.syst)
  IN /\ phase = "files" => left \subseteq F /\ DOMAIN fmap = F \ left
     /\ phase \in Linking \ {"files"} => DOMAIN fmap = F
     /\ phase \in Linking => \A f \in DOMAIN fmap : Names(fmap[f], user, syst, C, f)

\* The result has all files of the collections relocated so far.
Registered ==
  \A i \in 1 .. n : i < n \/ phase # "files" =>
    \A f \in FilesOf(from[i].user, from[i].syst) : \E e : Names(e, user, syst, from[i], f)

-----------------------------------------------------------------------------
(* Files                                                                   *)

\* The tables of files only grow.
Longer(s, t) == Len(s) <= Len(t) /\ \A i \in 1 .. Len(s) : t[i] = s[i]

LEMMA FilesStay ==
  ASSUME NEW us \in Seq(Paths), NEW sy \in Seq(Paths),
         NEW us2 \in Seq(Paths), NEW sy2 \in Seq(Paths),
         Longer(us, us2), Longer(sy, sy2), NEW e \in FilesOf(us, sy)
  PROVE  e \in FilesOf(us2, sy2) /\ PathOf(us2, sy2, e) = PathOf(us, sy, e)
<1>1. Len(us) \in Nat /\ Len(sy) \in Nat /\ Len(us2) \in Nat /\ Len(sy2) \in Nat
  OBVIOUS
<1> QED BY <1>1 DEF FilesOf, PathOf, Longer

LEMMA NamesStay ==
  ASSUME NEW us \in Seq(Paths), NEW sy \in Seq(Paths),
         NEW us2 \in Seq(Paths), NEW sy2 \in Seq(Paths),
         Longer(us, us2), Longer(sy, sy2), NEW c, NEW e, NEW f, Names(e, us, sy, c, f)
  PROVE  Names(e, us2, sy2, c, f)
BY FilesStay DEF Names

LEMMA OneName ==
  ASSUME NEW us \in Seq(Paths), NEW sy \in Seq(Paths), NoTwice(us), NoTwice(sy),
         NEW c, NEW e, NEW d, NEW f, Names(e, us, sy, c, f), Names(d, us, sy, c, f)
  PROVE  e = d
<1>1. Len(us) \in Nat /\ Len(sy) \in Nat /\ DOMAIN us = 1 .. Len(us) /\ DOMAIN sy = 1 .. Len(sy)
  OBVIOUS
<1>2. /\ e \in Int /\ d \in Int /\ (e < 0) = (d < 0)
      /\ PathOf(us, sy, e) = PathOf(us, sy, d)
      /\ e \in -Len(sy) .. Len(us) - 1 /\ d \in -Len(sy) .. Len(us) - 1
  BY <1>1 DEF Names, FilesOf
<1>3. CASE e < 0
  <2>1. -e \in DOMAIN sy /\ -d \in DOMAIN sy /\ sy[-e] = sy[-d]
    BY <1>1, <1>2, <1>3 DEF PathOf
  <2>2. -e = -d
    BY <2>1 DEF NoTwice
  <2> QED BY <1>2, <2>2
<1>4. CASE ~(e < 0)
  <2>1. e + 1 \in DOMAIN us /\ d + 1 \in DOMAIN us /\ us[e + 1] = us[d + 1]
    BY <1>1, <1>2, <1>4 DEF PathOf
  <2>2. e + 1 = d + 1
    BY <2>1 DEF NoTwice
  <2> QED BY <1>2, <2>2
<1> QED BY <1>3, <1>4

\* FileOf, of any tables.
TheFile(us, sy, c, f) ==
  CHOOSE e \in FilesOf(us, sy) : (e < 0) = (f < 0) /\ PathOf(us, sy, e) = PathOf(c.user, c.syst, f)

LEMMA TheFileNames ==
  ASSUME NEW us \in Seq(Paths), NEW sy \in Seq(Paths), NoTwice(us), NoTwice(sy),
         NEW c, NEW e, NEW f, Names(e, us, sy, c, f)
  PROVE  TheFile(us, sy, c, f) = e
<1>1. Names(TheFile(us, sy, c, f), us, sy, c, f)
  BY DEF TheFile, Names
<1> QED BY <1>1, OneName

LEMMA FileOfIsTheFile ==
  ASSUME NEW i, NEW f
  PROVE  FileOf(i, f) = TheFile(user, syst, from[i], f)
BY DEF FileOf, TheFile

\* FileOf finds the file.
LEMMA FileOfNames ==
  ASSUME Filed, NEW i, NEW f, NEW e, Names(e, user, syst, from[i], f)
  PROVE  FileOf(i, f) = e
BY TheFileNames, FileOfIsTheFile DEF Filed

-----------------------------------------------------------------------------
(* relocate                                                                *)

LEMMA OneOfCollections ==
  ASSUME Progress, NEW i \in 1 .. n
  PROVE  from[i] \in Collections /\ IsCollection(from[i])
<1>1. from \in Seq(Collections) /\ i \in 1 .. Len(from)
  BY LinkAssumption DEF Progress
<1>2. from[i] \in Collections
  BY <1>1
<1> QED BY <1>2, LinkAssumption

\* The collection being linked.
LEMMA CIsCollection ==
  ASSUME Progress, phase \in Linking
  PROVE  C = from[n] /\ n \in 1 .. n /\ IsCollection(C)
<1>1. n \in 1 .. n
  BY DEF Progress
<1> QED BY <1>1, OneOfCollections DEF C

LEMMA ProgressStep ==
  ASSUME Progress, [Next]_vars
  PROVE  Progress'
<1>0. from \in Seq(Collections)
  BY LinkAssumption DEF Progress
<1>1. CASE Read
  <2>1. n + 1 \in 1 .. Len(from)
    BY <1>1, <1>0 DEF Read, Progress
  <2>2. from' = from /\ n' = n + 1 /\ phase' = "files"
    BY <1>1 DEF Read
  <2> QED BY <2>1, <2>2 DEF Progress, Phases, Linking
<1>2. CASE Relocate
  BY <1>2 DEF Relocate, UserFile, SystFile, FilesDone, Files, Progress, Phases, Linking
<1>3. CASE LinkInto
  BY <1>3 DEF LinkInto, AddVertex, VerticesDone, AddEdge, EdgesDone, AddDefinitions, AddPlace,
              LocsDone, Progress, Phases, Linking
<1>4. CASE ResolveReferences
  BY <1>4 DEF ResolveReferences, AllRead, Resolve, Linked, Progress, Phases, Linking
<1>5. CASE UNCHANGED vars
  BY <1>5 DEF vars, Progress
<1> QED BY <1>1, <1>2, <1>3, <1>4, <1>5 DEF Next

LEMMA AppendLonger ==
  ASSUME NEW s \in Seq(Paths), NEW p \in Paths
  PROVE  /\ Append(s, p) \in Seq(Paths) /\ Longer(s, Append(s, p))
         /\ Len(Append(s, p)) = Len(s) + 1 /\ Append(s, p)[Len(s) + 1] = p
BY DEF Longer

LEMMA AppendNoTwice ==
  ASSUME NEW s \in Seq(Paths), NEW p \in Paths, NoTwice(s), \A i \in DOMAIN s : s[i] # p
  PROVE  NoTwice(Append(s, p))
<1>1. /\ DOMAIN s = 1 .. Len(s) /\ DOMAIN Append(s, p) = 1 .. Len(s) + 1 /\ Len(s) \in Nat
      /\ \A i \in 1 .. Len(s) : Append(s, p)[i] = s[i]
      /\ Append(s, p)[Len(s) + 1] = p
  BY AppendLonger DEF Longer
<1> QED BY <1>1 DEF NoTwice

LEMMA SameLonger ==
  ASSUME NEW s
  PROVE  Longer(s, s)
BY DEF Longer

\* A step of the loop over files leaves the tables and the map correct.
LEMMA FileStep ==
  ASSUME Progress, Filed, Mapped, NEW f \in left, UserFile(f) \/ SystFile(f)
  PROVE  Filed' /\ Mapped' /\ Longer(user, user') /\ Longer(syst, syst')
<1>1. /\ phase = "files" /\ phase' = "files" /\ from' = from /\ n' = n /\ C' = C
      /\ left' = left \ {f}
  BY DEF UserFile, SystFile, Files, C
<1>2. IsCollection(C) /\ f \in FilesOf(C.user, C.syst)
  BY <1>1, CIsCollection DEF Linking, Mapped
<1>3. /\ C.user \in Seq(Paths) /\ C.syst \in Seq(Paths) /\ C.toplvl \in Seq(Paths)
      /\ Len(C.toplvl) = Len(C.syst) /\ f \in Int
      /\ f < 0 => -f \in 1 .. Len(C.syst) /\ PathOf(C.user, C.syst, f) = C.syst[-f]
      /\ f >= 0 => f + 1 \in 1 .. Len(C.user) /\ PathOf(C.user, C.syst, f) = C.user[f + 1]
  BY <1>2 DEF IsCollection, FilesOf, PathOf
<1>4. /\ Filed' /\ Longer(user, user') /\ Longer(syst, syst')
      /\ \E to : fmap' = Numbered(f, to) /\ Names(to, user', syst', C, f)
  <2>0. /\ Len(user) \in Nat /\ Len(syst) \in Nat
        /\ DOMAIN user = 1 .. Len(user) /\ DOMAIN syst = 1 .. Len(syst)
    BY DEF Filed
  <2>1. CASE UserFile(f)
    <3> DEFINE p == C.user[f + 1]
    <3>1. f >= 0 /\ p \in Paths /\ UNCHANGED <<syst, toplvl>>
      BY <2>1, <1>3 DEF UserFile
    <3>2. CASE \E i \in DOMAIN user : user[i] = p /\ fmap' = Numbered(f, i - 1) /\ UNCHANGED user
      <4>1. PICK i \in DOMAIN user : user[i] = p /\ fmap' = Numbered(f, i - 1) /\ UNCHANGED user
        BY <3>2
      <4>2. Names(i - 1, user, syst, C, f)
        BY <4>1, <3>1, <2>0, <1>3 DEF Names, FilesOf, PathOf
      <4>3. Filed'
        BY <4>1, <3>1 DEF Filed
      <4> QED BY <4>1, <4>2, <4>3, <3>1, SameLonger
    <3>3. CASE /\ \A i \in DOMAIN user : user[i] # p
               /\ fmap' = Numbered(f, Len(user)) /\ user' = Append(user, p)
      <4>1. /\ user' \in Seq(Paths) /\ Longer(user, user')
            /\ Len(user') = Len(user) + 1 /\ user'[Len(user) + 1] = p
        BY <3>3, <3>1, AppendLonger DEF Filed
      <4>2. NoTwice(user')
        BY <3>3, <3>1, AppendNoTwice DEF Filed
      <4>3. Filed'
        BY <4>1, <4>2, <3>1 DEF Filed
      <4>4. Names(Len(user), user', syst', C, f)
        BY <4>1, <3>1, <2>0, <1>3 DEF Names, FilesOf, PathOf
      <4> QED BY <4>1, <4>3, <4>4, <3>1, <3>3, SameLonger
    <3> QED BY <2>1, <3>2, <3>3 DEF UserFile
  <2>2. CASE SystFile(f)
    <3> DEFINE p == C.syst[-f]
    <3>1. f < 0 /\ p \in Paths /\ C.toplvl[-f] \in Paths /\ UNCHANGED user
      BY <2>2, <1>3 DEF SystFile
    <3>2. CASE \E i \in DOMAIN syst : /\ syst[i] = p /\ fmap' = Numbered(f, -i)
                                      /\ UNCHANGED <<syst, toplvl>>
      <4>1. PICK i \in DOMAIN syst : /\ syst[i] = p /\ fmap' = Numbered(f, -i)
                                     /\ UNCHANGED <<syst, toplvl>>
        BY <3>2
      <4>2. Names(-i, user, syst, C, f)
        BY <4>1, <3>1, <2>0, <1>3 DEF Names, FilesOf, PathOf
      <4>3. Filed'
        BY <4>1, <3>1 DEF Filed
      <4> QED BY <4>1, <4>2, <4>3, <3>1, SameLonger
    <3>3. CASE /\ \A i \in DOMAIN syst : syst[i] # p
               /\ fmap' = Numbered(f, -(Len(syst) + 1))
               /\ syst' = Append(syst, p) /\ toplvl' = Append(toplvl, C.toplvl[-f])
      <4>1. /\ syst' \in Seq(Paths) /\ Longer(syst, syst')
            /\ Len(syst') = Len(syst) + 1 /\ syst'[Len(syst) + 1] = p
        BY <3>3, <3>1, AppendLonger DEF Filed
      <4>2. NoTwice(syst')
        BY <3>3, <3>1, AppendNoTwice DEF Filed
      <4>3. toplvl' \in Seq(Paths) /\ Len(toplvl') = Len(toplvl) + 1
        BY <3>3, <3>1, AppendLonger DEF Filed
      <4>4. Filed'
        BY <4>1, <4>2, <4>3, <3>1 DEF Filed
      <4>5. Names(-(Len(syst) + 1), user', syst', C, f)
        BY <4>1, <3>1, <2>0, <1>3 DEF Names, FilesOf, PathOf
      <4> QED BY <4>1, <4>4, <4>5, <3>1, <3>3, SameLonger
    <3> QED BY <2>2, <3>2, <3>3 DEF SystFile
  <2> QED BY <2>1, <2>2
<1>5. Mapped'
  <2>1. PICK to : fmap' = Numbered(f, to) /\ Names(to, user', syst', C, f)
    BY <1>4
  <2> DEFINE F == FilesOf(C.user, C.syst)
  <2>2. left \subseteq F /\ DOMAIN fmap = F \ left /\ f \in left
    BY <1>1 DEF Mapped
  <2>3. DOMAIN fmap' = F \ left'
    BY <2>1, <2>2, <1>1 DEF Numbered
  <2>4. ASSUME NEW e \in DOMAIN fmap'
        PROVE  Names(fmap'[e], user', syst', C, e)
    <3>1. CASE e = f
      BY <3>1, <2>1 DEF Numbered
    <3>2. CASE e # f
      <4>1. e \in DOMAIN fmap /\ fmap'[e] = fmap[e]
        BY <3>2, <2>1 DEF Numbered
      <4>2. Names(fmap[e], user, syst, C, e)
        BY <4>1, <1>1 DEF Mapped, Linking
      <4>3. user' \in Seq(Paths) /\ syst' \in Seq(Paths) /\ user \in Seq(Paths) /\ syst \in Seq(Paths)
        BY <1>4 DEF Filed
      <4> QED BY <4>1, <4>2, <4>3, <1>4, NamesStay
    <3> QED BY <3>1, <3>2
  <2> QED BY <2>2, <2>3, <2>4, <1>1 DEF Mapped, Linking
<1> QED BY <1>4, <1>5

\* The steps that have nothing to do with files.
LEMMA OtherSteps ==
  ASSUME [Next]_vars, ~Read, \A f \in left : ~UserFile(f) /\ ~SystFile(f), ~FilesDone
  PROVE  /\ from' = from /\ n' = n /\ fmap' = fmap /\ user' = user /\ syst' = syst
         /\ toplvl' = toplvl /\ C' = C
         /\ phase' \in Linking => phase \in Linking /\ (phase = "files" <=> phase' = "files")
         /\ phase' # phase => phase # "files" /\ phase' # "files"
         /\ phase = "files" => left' = left
<1>1. CASE Relocate
  BY <1>1 DEF Relocate
<1>2. CASE LinkInto
  BY <1>2 DEF LinkInto, AddVertex, VerticesDone, AddEdge, EdgesDone, AddDefinitions, AddPlace,
              LocsDone, Linking, files, C
<1>3. CASE ResolveReferences
  BY <1>3 DEF ResolveReferences, AllRead, Resolve, Linked, Linking, files, C
<1>4. CASE UNCHANGED vars
  BY <1>4 DEF vars, files, C
<1> QED BY <1>1, <1>2, <1>3, <1>4 DEF Next

LEMMA FilesInv ==
  ASSUME Progress, Filed, Mapped, Registered, [Next]_vars
  PROVE  Filed' /\ Mapped' /\ Registered' /\ Longer(user, user') /\ Longer(syst, syst')
<1>0. user \in Seq(Paths) /\ syst \in Seq(Paths)
  BY DEF Filed
<1>1. CASE \E f \in left : UserFile(f) \/ SystFile(f)
  <2>1. Filed' /\ Mapped' /\ Longer(user, user') /\ Longer(syst, syst')
    BY <1>1, FileStep
  <2>2. /\ phase = "files" /\ phase' = "files" /\ from' = from /\ n' = n
        /\ user' \in Seq(Paths) /\ syst' \in Seq(Paths)
    BY <1>1, <2>1 DEF UserFile, SystFile, Files, Filed
  <2>3. ASSUME NEW i \in 1 .. n, i < n, NEW f \in FilesOf(from[i].user, from[i].syst)
        PROVE  \E e : Names(e, user', syst', from[i], f)
    <3>1. PICK e : Names(e, user, syst, from[i], f)
      BY <2>3 DEF Registered
    <3>2. Names(e, user', syst', from[i], f)
      BY <3>1, <2>1, <2>2, <1>0, NamesStay
    <3> QED BY <3>2
  <2>4. Registered'
    BY <2>2, <2>3 DEF Registered
  <2> QED BY <2>1, <2>4
<1>2. CASE FilesDone
  <2>1. /\ phase = "files" /\ left = {} /\ phase' = "vertices" /\ UNCHANGED <<from, n, fmap, files>>
        /\ C' = C
    BY <1>2 DEF FilesDone, Files, C
  <2>2. Filed' /\ Longer(user, user') /\ Longer(syst, syst')
    BY <2>1, SameLonger DEF Filed, files
  <2>3. Mapped'
    BY <2>1 DEF Mapped, Linking, files
  <2>4. /\ DOMAIN fmap = FilesOf(C.user, C.syst)
        /\ \A f \in DOMAIN fmap : Names(fmap[f], user, syst, C, f)
    BY <2>1 DEF Mapped, Linking
  <2>5. n \in Nat /\ user' = user /\ syst' = syst
    BY <2>1 DEF Progress, files
  <2>6. ASSUME NEW i \in 1 .. n, NEW f \in FilesOf(from[i].user, from[i].syst)
        PROVE  \E e : Names(e, user, syst, from[i], f)
    <3>1. CASE i < n
      BY <3>1 DEF Registered
    <3>2. CASE i = n
      BY <3>2, <2>4 DEF C
    <3> QED BY <3>1, <3>2, <2>5
  <2>7. Registered'
    BY <2>6, <2>5, <2>1 DEF Registered
  <2> QED BY <2>2, <2>3, <2>7
<1>3. CASE Read
  <2>1. /\ phase = "read" /\ phase' = "files" /\ n' = n + 1 /\ from' = from
        /\ fmap' = [f \in {} |-> 0] /\ left' = FilesOf(C'.user, C'.syst)
        /\ user' = user /\ syst' = syst /\ toplvl' = toplvl /\ n \in Nat
    BY <1>3 DEF Read, C, files, Progress
  <2>2. Filed' /\ Longer(user, user') /\ Longer(syst, syst')
    BY <2>1, SameLonger DEF Filed
  <2>3. DOMAIN fmap' = {}
    BY <2>1
  <2>4. Mapped'
    BY <2>1, <2>3 DEF Mapped, Linking
  <2>5. ASSUME NEW i \in 1 .. n + 1, i < n + 1, NEW f \in FilesOf(from[i].user, from[i].syst)
        PROVE  \E e : Names(e, user, syst, from[i], f)
    <3>1. i \in 1 .. n /\ phase # "files"
      BY <2>1, <2>5
    <3> QED BY <3>1 DEF Registered
  <2>6. Registered'
    BY <2>1, <2>5 DEF Registered
  <2> QED BY <2>2, <2>4, <2>6
<1>4. CASE ~Read /\ (\A f \in left : ~UserFile(f) /\ ~SystFile(f)) /\ ~FilesDone
  <2>1. /\ from' = from /\ n' = n /\ fmap' = fmap /\ user' = user /\ syst' = syst
        /\ toplvl' = toplvl /\ C' = C
        /\ phase' \in Linking => phase \in Linking /\ (phase = "files" <=> phase' = "files")
        /\ phase' # phase => phase # "files" /\ phase' # "files"
        /\ phase = "files" => left' = left
    BY <1>4, OtherSteps
  <2>2. Filed' /\ Longer(user, user') /\ Longer(syst, syst')
    BY <2>1, SameLonger DEF Filed
  <2>3. Mapped'
    BY <2>1 DEF Mapped, Linking
  <2>4. Registered'
    BY <2>1 DEF Registered
  <2> QED BY <2>2, <2>3, <2>4
<1> QED BY <1>1, <1>2, <1>3, <1>4

-----------------------------------------------------------------------------
(* The graph                                                               *)

Graph == /\ verts \subseteq Ranges(FilesOf(user, syst))
         /\ \A a, b \in verts : Overlap(a, b) => a = b
         /\ DOMAIN edge \subseteq (verts \cup dummies) \X (verts \cup dummies)
         /\ \A e \in DOMAIN edge : edge[e] \in EdgeTypes
         /\ DOMAIN incs = verts /\ dummies \subseteq Symbols

\* What the loops have still to look at; the vertices looked at have left a vertex in
\* their place.
Looping ==
  LET there(v) == \E w \in verts : Overlap(w, Relocated(v))
  IN /\ phase = "vertices" => left \subseteq C.verts /\ \A v \in C.verts \ left : there(v)
     /\ phase = "edges" => left \subseteq DOMAIN C.edge /\ \A v \in C.verts : there(v)
     /\ phase = "locs" => left \subseteq Entries
     /\ phase = "resolve" => left \subseteq Symbols

\* The places of the symbols.
Located == LET F == FilesOf(user, syst)
           IN /\ defs \in [Symbols -> Places(F) \cup {None}]
              /\ locs \in [Tables -> [Symbols -> Seq(Places(F))]]

LEMMA LeastNatural ==
  ASSUME NEW T, T \subseteq Nat, T # {}
  PROVE  \E x \in T : \A y \in T : x <= y
<1>1. IsWellFoundedOn(OpToRel(<, Nat), Nat)
  BY NatLessThanWellFounded
<1>2. PICK x \in T : \A y \in T : <<y, x>> \notin OpToRel(<, Nat)
  BY <1>1, WFMin
<1>3. \A y \in T : <<y, x>> \notin {ss \in Nat \X Nat : ss[1] < ss[2]}
  BY <1>2 DEF OpToRel
<1>4. ASSUME NEW y \in T PROVE x <= y
  <2>1. <<y, x>> \notin {ss \in Nat \X Nat : ss[1] < ss[2]}
    BY <1>3
  <2>2. x \in Nat /\ y \in Nat
    OBVIOUS
  <2> QED BY <2>1, <2>2
<1> QED BY <1>4

LEMMA RangeParts ==
  ASSUME NEW F, NEW r \in Ranges(F)
  PROVE  r.f \in F /\ r.beg \in Int /\ r.end \in Int /\ r.beg < r.end
BY DEF Ranges

\* If anything overlaps a range, the interval map finds something that does.
LEMMA Finds ==
  ASSUME NEW F, verts \subseteq Ranges(F), \A a, b \in verts : Overlap(a, b) => a = b,
         NEW r, NEW G, r \in Ranges(G), NEW w \in verts, Overlap(w, r)
  PROVE  Find(r) \in verts /\ Overlap(Find(r), r)
<1>1. \A v \in verts : v.beg \in Int /\ v.end \in Int /\ v.beg < v.end
  BY RangeParts
<1>2. r.beg \in Int /\ r.end \in Int /\ r.beg < r.end
  BY RangeParts
<1>3. \E v \in verts : Overlap(v, r) /\ \A u \in verts : Overlap(u, r) => v.beg <= u.beg
  <2>1. CASE \E v \in verts : Overlap(v, r) /\ v.beg <= r.beg
    <3>1. PICK v \in verts : Overlap(v, r) /\ v.beg <= r.beg
      BY <2>1
    <3>2. ASSUME NEW u \in verts, Overlap(u, r), ~(v.beg <= u.beg)
          PROVE  FALSE
      <4>1. Overlap(u, v)
        BY <3>1, <3>2, <1>1, <1>2 DEF Overlap
      <4> QED BY <4>1, <3>2, <1>1
    <3> QED BY <3>1, <3>2
  <2>2. CASE \A v \in verts : Overlap(v, r) => r.beg < v.beg
    <3> DEFINE T == {v.beg - r.beg : v \in {u \in verts : Overlap(u, r)}}
    <3>1. T \subseteq Nat /\ T # {}
      BY <2>2, <1>1, <1>2
    <3>2. PICK x \in T : \A y \in T : x <= y
      BY <3>1, LeastNatural
    <3>3. PICK v \in verts : Overlap(v, r) /\ x = v.beg - r.beg
      BY <3>2
    <3>4. ASSUME NEW u \in verts, Overlap(u, r)
          PROVE  v.beg <= u.beg
      <4>1. u.beg - r.beg \in T
        BY <3>4
      <4>2. x <= u.beg - r.beg
        BY <4>1, <3>2
      <4> QED BY <4>2, <3>3, <1>1, <1>2
    <3> QED BY <3>3, <3>4
  <2> QED BY <2>1, <2>2, <1>1, <1>2
<1> QED BY <1>3 DEF Find

\* What is relocated is a range or a place of the result.
LEMMA RelocatedRange ==
  ASSUME Progress, Mapped, phase \in Linking \ {"files"}, NEW v \in C.verts
  PROVE  /\ Relocated(v) \in Ranges(FilesOf(user, syst))
         /\ Relocated(v).f = fmap[v.f] /\ Relocated(v).beg = v.beg /\ Relocated(v).end = v.end
         /\ v \in Ranges(FilesOf(C.user, C.syst))
<1>1. v \in Ranges(FilesOf(C.user, C.syst))
  BY CIsCollection DEF IsCollection
<1>2. v.f \in DOMAIN fmap /\ fmap[v.f] \in FilesOf(user, syst)
  BY <1>1 DEF Mapped, Names, Ranges
<1> QED BY <1>1, <1>2 DEF Relocated, Ranges

LEMMA RelocatedPlace ==
  ASSUME Progress, Mapped, phase \in Linking \ {"files"},
         NEW x \in Places(FilesOf(C.user, C.syst))
  PROVE  /\ Relocated(x) \in Places(FilesOf(user, syst))
         /\ Relocated(x).f = fmap[x.f] /\ Relocated(x).pos = x.pos
<1>1. x.f \in DOMAIN fmap /\ fmap[x.f] \in FilesOf(user, syst)
  BY DEF Mapped, Names, Places
<1> QED BY <1>1 DEF Relocated, Places

LEMMA MoreFiles ==
  ASSUME Filed, Filed', Longer(user, user'), Longer(syst, syst')
  PROVE  /\ FilesOf(user, syst) \subseteq FilesOf(user', syst')
         /\ Ranges(FilesOf(user, syst)) \subseteq Ranges(FilesOf(user', syst'))
         /\ Places(FilesOf(user, syst)) \subseteq Places(FilesOf(user', syst'))
         /\ Seq(Places(FilesOf(user, syst))) \subseteq Seq(Places(FilesOf(user', syst')))
<1>1. FilesOf(user, syst) \subseteq FilesOf(user', syst')
  BY FilesStay DEF Filed
<1>2. /\ Ranges(FilesOf(user, syst)) \subseteq Ranges(FilesOf(user', syst'))
      /\ Places(FilesOf(user, syst)) \subseteq Places(FilesOf(user', syst'))
  BY <1>1 DEF Ranges, Places
<1>3. \A S, T : S \subseteq T => Seq(S) \subseteq Seq(T)
  OBVIOUS
<1> QED BY <1>1, <1>2, <1>3

\* Only three actions change the graph.
LEMMA GraphStays ==
  ASSUME [Next]_vars, \A v \in left : ~AddVertex(v), \A e \in left : ~AddEdge(e),
         \A s \in left : ~Resolve(s)
  PROVE  UNCHANGED <<verts, edge, incs, dummies>>
<1>1. CASE Read
  BY <1>1 DEF Read, graph
<1>2. CASE Relocate
  BY <1>2 DEF Relocate, UserFile, SystFile, FilesDone, graph
<1>3. CASE LinkInto
  BY <1>3 DEF LinkInto, VerticesDone, EdgesDone, AddDefinitions, AddPlace, LocsDone, graph
<1>4. CASE ResolveReferences
  BY <1>4 DEF ResolveReferences, AllRead, Linked, graph
<1>5. CASE UNCHANGED vars
  BY <1>5 DEF vars, graph
<1> QED BY <1>1, <1>2, <1>3, <1>4, <1>5 DEF Next

\* The ends of an edge of the collection have something in their place.
LEMMA EndsFound ==
  ASSUME Progress, Mapped, Graph, Looping, phase = "edges", NEW e \in left
  PROVE  /\ e \in DOMAIN C.edge /\ C.edge[e] \in EdgeTypes
         /\ e[1] \in C.verts /\ e[2] \in C.verts
         /\ Find(Relocated(e[1])) \in verts /\ Overlap(Find(Relocated(e[1])), Relocated(e[1]))
         /\ Find(Relocated(e[2])) \in verts /\ Overlap(Find(Relocated(e[2])), Relocated(e[2]))
<1>1. /\ e \in DOMAIN C.edge /\ C.edge[e] \in EdgeTypes
      /\ e[1] \in C.verts /\ e[2] \in C.verts
  BY CIsCollection DEF Looping, IsCollection, Linking
<1>2. ASSUME NEW v \in C.verts
      PROVE  Find(Relocated(v)) \in verts /\ Overlap(Find(Relocated(v)), Relocated(v))
  <2>1. PICK w \in verts : Overlap(w, Relocated(v))
    BY DEF Looping
  <2>2. Relocated(v) \in Ranges(FilesOf(user, syst))
    BY RelocatedRange DEF Linking
  <2> QED BY <2>1, <2>2, Finds DEF Graph
<1> QED BY <1>1, <1>2

LEMMA AtIsThere ==
  ASSUME NEW x, Covered(x)
  PROVE  At(x) \in verts /\ Within(x, At(x))
BY DEF Covered, At

LEMMA DeclaredAreVertices == \A s : Declared(s) \subseteq verts
BY AtIsThere DEF Declared

LEMMA GraphStep ==
  ASSUME Progress, Filed, Mapped, Registered, Graph, Looping, [Next]_vars
  PROVE  Graph'
<1>1. Filed' /\ Ranges(FilesOf(user, syst)) \subseteq Ranges(FilesOf(user', syst'))
  BY FilesInv, MoreFiles
<1>2. CASE \E v \in left : AddVertex(v)
  <2>1. PICK v \in left : AddVertex(v)
    BY <1>2
  <2> DEFINE r == Relocated(v)
  <2>2. phase = "vertices" /\ v \in C.verts /\ UNCHANGED <<user, syst, edge, dummies>>
    BY <2>1 DEF AddVertex, Looping, files
  <2>3. r \in Ranges(FilesOf(user, syst))
    BY <2>2, RelocatedRange DEF Linking
  <2>4. CASE \E w \in verts : Overlap(w, r)
    BY <2>1, <2>2, <2>4 DEF AddVertex, Graph
  <2>5. CASE \A w \in verts : ~Overlap(w, r)
    <3>1. verts' = verts \cup {r} /\ DOMAIN incs' = verts \cup {r}
      BY <2>1, <2>5 DEF AddVertex
    <3>2. \A w \in verts : w.beg \in Int /\ w.end \in Int
      BY RangeParts DEF Graph
    <3>3. r.beg \in Int /\ r.end \in Int
      BY <2>3, RangeParts
    <3>4. \A w \in verts : ~Overlap(r, w)
      BY <2>5, <3>2, <3>3 DEF Overlap
    <3>5. \A a, b \in verts' : Overlap(a, b) => a = b
      BY <3>1, <3>4, <2>5 DEF Graph
    <3> QED BY <3>1, <3>5, <2>2, <2>3 DEF Graph
  <2> QED BY <2>4, <2>5
<1>3. CASE \E e \in left : AddEdge(e)
  <2>1. PICK e \in left : AddEdge(e)
    BY <1>3
  <2>2. phase = "edges" /\ UNCHANGED <<user, syst, verts, incs, dummies>>
    BY <2>1 DEF AddEdge, files
  <2> DEFINE a == Find(Relocated(e[1]))
             b == Find(Relocated(e[2]))
  <2>3. a \in verts /\ b \in verts /\ C.edge[e] \in EdgeTypes
    BY <2>2, EndsFound
  <2>4. edge' = edge \/ edge' = Put({<<a, b>>}, C.edge[e])
    BY <2>1 DEF AddEdge
  <2>5. /\ DOMAIN edge' \subseteq (verts \cup dummies) \X (verts \cup dummies)
        /\ \A d \in DOMAIN edge' : edge'[d] \in EdgeTypes
    <3>1. CASE edge' = edge
      BY <3>1 DEF Graph
    <3>2. CASE edge' = Put({<<a, b>>}, C.edge[e])
      <4>1. DOMAIN edge' = DOMAIN edge \cup {<<a, b>>}
        BY <3>2 DEF Put
      <4>2. \A d \in DOMAIN edge' : edge'[d] = C.edge[e] \/ (d \in DOMAIN edge /\ edge'[d] = edge[d])
        BY <3>2 DEF Put
      <4> QED BY <4>1, <4>2, <2>3 DEF Graph
    <3> QED BY <2>4, <3>1, <3>2
  <2> QED BY <2>2, <2>5 DEF Graph
<1>4. CASE \E s \in left : Resolve(s)
  <2>1. PICK s \in left : Resolve(s)
    BY <1>4
  <2>2. phase = "resolve" /\ s \in Symbols /\ UNCHANGED <<user, syst, verts, incs>>
    BY <2>1 DEF Resolve, files, Looping
  <2>3. CASE defs[s] # None /\ Covered(defs[s])
    <3> DEFINE E == {<<v, s>> : v \in Declared(s)} \cup {<<s, At(defs[s])>>}
    <3>1. dummies' = dummies \cup {s} /\ edge' = Put(E, "FWD_DECL")
      BY <2>1, <2>3 DEF Resolve
    <3>2. E \subseteq (verts \cup dummies') \X (verts \cup dummies')
      BY <3>1, <2>3, AtIsThere, DeclaredAreVertices
    <3>3. DOMAIN edge' = DOMAIN edge \cup E
      BY <3>1 DEF Put
    <3>4. \A d \in DOMAIN edge' : edge'[d] = "FWD_DECL" \/ (d \in DOMAIN edge /\ edge'[d] = edge[d])
      BY <3>1 DEF Put
    <3>5. DOMAIN edge \subseteq (verts \cup dummies') \X (verts \cup dummies')
      BY <3>1 DEF Graph
    <3> QED BY <3>1, <3>2, <3>3, <3>4, <3>5, <2>2 DEF Graph, EdgeTypes
  <2>4. CASE ~(defs[s] # None /\ Covered(defs[s]))
    BY <2>1, <2>2, <2>4 DEF Resolve, Graph
  <2> QED BY <2>3, <2>4
<1>5. CASE /\ \A v \in left : ~AddVertex(v)
           /\ \A e \in left : ~AddEdge(e)
           /\ \A s \in left : ~Resolve(s)
  BY <1>1, <1>5, GraphStays DEF Graph
<1> QED BY <1>2, <1>3, <1>4, <1>5

LEMMA LoopingStep ==
  ASSUME Progress, Mapped, Graph, Looping, [Next]_vars
  PROVE  Looping'
<1>1. CASE Read
  BY <1>1 DEF Read, Looping
<1>2. CASE Relocate
  <2>1. CASE FilesDone
    BY <2>1 DEF FilesDone, Looping, C
  <2>2. CASE \E f \in left : UserFile(f) \/ SystFile(f)
    BY <2>2 DEF UserFile, SystFile, Files, Looping
  <2> QED BY <1>2, <2>1, <2>2 DEF Relocate
<1>3. CASE \E v \in left : AddVertex(v)
  <2>1. PICK v \in left : AddVertex(v)
    BY <1>3
  <2>2. /\ phase = "vertices" /\ phase' = "vertices" /\ left' = left \ {v} /\ v \in C.verts
        /\ left \subseteq C.verts /\ C' = C /\ fmap' = fmap
    BY <2>1 DEF AddVertex, Looping, C
  <2>3. Relocated(v) \in Ranges(FilesOf(user, syst))
    BY <2>2, RelocatedRange DEF Linking
  <2>4. verts \subseteq verts' /\ \E w \in verts' : Overlap(w, Relocated(v))
    <3>1. Overlap(Relocated(v), Relocated(v))
      BY <2>3, RangeParts DEF Overlap
    <3> QED BY <2>1, <3>1 DEF AddVertex
  <2>5. ASSUME NEW u \in C.verts \ left'
        PROVE  \E w \in verts' : Overlap(w, Relocated(u))
    <3>1. CASE u = v
      BY <3>1, <2>4
    <3>2. CASE u # v
      BY <3>2, <2>2, <2>4 DEF Looping
    <3> QED BY <3>1, <3>2
  <2>6. \A u : Relocated(u)' = Relocated(u)
    BY <2>2 DEF Relocated
  <2> QED BY <2>2, <2>5, <2>6 DEF Looping
<1>4. CASE VerticesDone
  <2>1. /\ phase = "vertices" /\ phase' = "edges" /\ left' = DOMAIN C.edge /\ left = {}
        /\ C' = C /\ fmap' = fmap /\ verts' = verts
    BY <1>4 DEF VerticesDone, C, graph
  <2>2. \A u : Relocated(u)' = Relocated(u)
    BY <2>1 DEF Relocated
  <2> QED BY <2>1, <2>2 DEF Looping
<1>5. CASE \E e \in left : AddEdge(e)
  <2>1. PICK e \in left : AddEdge(e)
    BY <1>5
  <2>2. /\ phase = "edges" /\ phase' = "edges" /\ left' = left \ {e}
        /\ C' = C /\ fmap' = fmap /\ verts' = verts
    BY <2>1 DEF AddEdge, C
  <2>3. \A u : Relocated(u)' = Relocated(u)
    BY <2>2 DEF Relocated
  <2> QED BY <2>2, <2>3 DEF Looping
<1>6. CASE EdgesDone
  BY <1>6 DEF EdgesDone, Looping
<1>7. CASE AddDefinitions
  BY <1>7 DEF AddDefinitions, Looping, Entries, C
<1>8. CASE \E q \in left : AddPlace(q[1], q[2], q[3])
  <2>1. PICK q \in left : AddPlace(q[1], q[2], q[3])
    BY <1>8
  <2>2. /\ phase = "locs" /\ phase' = "locs" /\ left' \subseteq left /\ C' = C
    BY <2>1 DEF AddPlace, C
  <2> QED BY <2>2 DEF Looping, Entries
<1>9. CASE LocsDone
  BY <1>9 DEF LocsDone, Looping
<1>10. CASE ResolveReferences
  <2>1. CASE AllRead
    BY <2>1 DEF AllRead, Looping
  <2>2. CASE \E s \in left : Resolve(s)
    BY <2>2 DEF Resolve, Looping
  <2>3. CASE Linked
    BY <2>3 DEF Linked, Looping
  <2> QED BY <1>10, <2>1, <2>2, <2>3 DEF ResolveReferences
<1>11. CASE UNCHANGED vars
  <2>1. /\ phase' = phase /\ left' = left /\ C' = C /\ fmap' = fmap /\ verts' = verts
    BY <1>11 DEF vars, graph, C
  <2>2. (\A u : Relocated(u)' = Relocated(u)) /\ Entries' = Entries
    BY <2>1 DEF Relocated, Entries
  <2> QED BY <2>1, <2>2 DEF Looping
<1> QED BY <1>1, <1>2, <1>3, <1>4, <1>5, <1>6, <1>7, <1>8, <1>9, <1>10, <1>11 DEF Next, LinkInto

-----------------------------------------------------------------------------
(* The tables of symbols                                                   *)

\* What inserting does to the sequence of a std::set.
LEMMA InsertedPlaces ==
  ASSUME NEW S, NEW set \in Seq(S), NEW x \in S, NEW i \in 0 .. Len(set)
  PROVE  Inserted(set, x, i) \in Seq(S)
<1>1. SubSeq(set, 1, i) \in Seq(S) /\ SubSeq(set, i + 1, Len(set)) \in Seq(S) /\ <<x>> \in Seq(S)
  BY SubSeqProperties
<1> QED BY <1>1, ConcatProperties DEF Inserted

\* The entries that are left are places of the collection.
LEMMA EntriesArePlaces ==
  ASSUME Progress, Looping, phase = "locs", NEW q \in left
  PROVE  /\ q[1] \in Tables /\ q[2] \in Symbols /\ q[3] \in C.locs[q[1]][q[2]]
         /\ q[3] \in Places(FilesOf(C.user, C.syst)) /\ q = <<q[1], q[2], q[3]>>
<1>1. q \in Entries
  BY DEF Looping
<1>2. PICK t \in Tables, s \in Symbols : \E x \in C.locs[t][s] : q = <<t, s, x>>
  BY <1>1 DEF Entries
<1>3. C.locs[t][s] \subseteq Places(FilesOf(C.user, C.syst))
  BY CIsCollection DEF IsCollection, Linking
<1> QED BY <1>2, <1>3

LEMMA TablesStay ==
  ASSUME [Next]_vars, ~AddDefinitions, \A q \in left : ~AddPlace(q[1], q[2], q[3])
  PROVE  UNCHANGED <<defs, locs>>
<1>1. CASE Read
  BY <1>1 DEF Read, tables
<1>2. CASE Relocate
  BY <1>2 DEF Relocate, UserFile, SystFile, FilesDone, tables
<1>3. CASE LinkInto
  BY <1>3 DEF LinkInto, AddVertex, VerticesDone, AddEdge, EdgesDone, LocsDone, tables
<1>4. CASE ResolveReferences
  BY <1>4 DEF ResolveReferences, AllRead, Resolve, Linked, tables
<1>5. CASE UNCHANGED vars
  BY <1>5 DEF vars, tables
<1> QED BY <1>1, <1>2, <1>3, <1>4, <1>5 DEF Next

LEMMA LocatedStep ==
  ASSUME Progress, Filed, Mapped, Registered, Looping, Located, [Next]_vars
  PROVE  Located'
<1> DEFINE F == FilesOf(user, syst)
           G == FilesOf(user', syst')
<1>1. Places(F) \subseteq Places(G) /\ Seq(Places(F)) \subseteq Seq(Places(G))
  BY FilesInv, MoreFiles
<1>2. CASE AddDefinitions
  <2>1. /\ phase = "defs" /\ UNCHANGED <<user, syst, locs>>
        /\ defs' = [s \in Symbols |-> IF defs[s] = None /\ C.defs[s] # None
                                      THEN Relocated(C.defs[s]) ELSE defs[s]]
    BY <1>2 DEF AddDefinitions, files
  <2>2. \A s \in Symbols : C.defs[s] \in Places(FilesOf(C.user, C.syst)) \cup {None}
    BY <2>1, CIsCollection DEF IsCollection, Linking
  <2>3. \A s \in Symbols : C.defs[s] # None => Relocated(C.defs[s]) \in Places(F)
    BY <2>1, <2>2, RelocatedPlace DEF Linking
  <2> QED BY <2>1, <2>3 DEF Located
<1>3. CASE \E q \in left : AddPlace(q[1], q[2], q[3])
  <2>1. PICK q \in left : AddPlace(q[1], q[2], q[3])
    BY <1>3
  <2> DEFINE t == q[1]
             s == q[2]
             x == Relocated(q[3])
  <2>2. phase = "locs" /\ UNCHANGED <<user, syst, defs>>
    BY <2>1 DEF AddPlace, files
  <2>3. t \in Tables /\ s \in Symbols /\ x \in Places(F)
    BY <2>2, EntriesArePlaces, RelocatedPlace DEF Linking
  <2>4. PICK i \in Gaps(locs[t][s], x) : locs' = [locs EXCEPT ![t][s] = Inserted(@, x, i)]
    BY <2>1 DEF AddPlace
  <2>5. locs[t][s] \in Seq(Places(F)) /\ i \in 0 .. Len(locs[t][s])
    BY <2>3, <2>4 DEF Located, Gaps
  <2>6. Inserted(locs[t][s], x, i) \in Seq(Places(F))
    BY <2>3, <2>5, InsertedPlaces
  <2> QED BY <2>2, <2>3, <2>4, <2>6 DEF Located
<1>4. CASE ~AddDefinitions /\ \A q \in left : ~AddPlace(q[1], q[2], q[3])
  <2>1. defs' = defs /\ locs' = locs
    BY <1>4, TablesStay
  <2>2. /\ defs' \in [Symbols -> Places(G) \cup {None}]
        /\ locs' \in [Tables -> [Symbols -> Seq(Places(G))]]
    BY <2>1, <1>1 DEF Located
  <2> QED BY <2>2 DEF Located
<1> QED BY <1>2, <1>3, <1>4

-----------------------------------------------------------------------------
(* The theorem on types.                                                   *)

IInv == Progress /\ Filed /\ Mapped /\ Registered /\ Graph /\ Looping /\ Located

LEMMA IInvInit == Init => IInv
<1> SUFFICES ASSUME Init PROVE IInv
  OBVIOUS
<1>1. from \in Seq(Collections) /\ Len(from) \in Nat
  BY LinkAssumption DEF Init
<1>2. Progress
  BY <1>1 DEF Init, Progress, Phases, Linking
<1>3. Filed
  BY DEF Init, Filed, NoTwice
<1>4. Mapped /\ Registered /\ Looping
  BY DEF Init, Mapped, Registered, Looping, Linking
<1>5. Graph
  BY DEF Init, Graph
<1>6. Located
  BY DEF Init, Located
<1> QED BY <1>2, <1>3, <1>4, <1>5, <1>6 DEF IInv

LEMMA IInvStep == IInv /\ [Next]_vars => IInv'
BY ProgressStep, FilesInv, GraphStep, LoopingStep, LocatedStep DEF IInv

LEMMA IInvTypes == IInv => LinkTypeOK
<1> SUFFICES ASSUME IInv PROVE LinkTypeOK
  OBVIOUS
<1>1. \A t \in Tables, s \in Symbols : locs[t][s] \in Seq(Places(FilesOf(user, syst)))
  BY DEF IInv, Located
<1> QED BY <1>1 DEF IInv, Filed, NoTwice, Graph, Looping, Located, LinkTypeOK

\* For any collections the maps and tables of the result fit together, and both ends of every
\* edge find a vertex: the assertions of link_into (link.cpp:315) never fail.
THEOREM LinkedTypes == Spec => []LinkTypeOK
BY IInvInit, IInvStep, IInvTypes, PTL DEF Spec

-----------------------------------------------------------------------------
(* No dependency is lost.                                                  *)

\* What was relocated stays where it is.
LEMMA ToStays ==
  ASSUME IInv, [Next]_vars, NEW i \in 1 .. n, i < n \/ phase # "files",
         NEW x, x.f \in FilesOf(from[i].user, from[i].syst)
  PROVE  To(i, x)' = To(i, x)
<1>1. PICK e : Names(e, user, syst, from[i], x.f)
  BY DEF IInv, Registered
<1>2. /\ Filed /\ Filed' /\ Longer(user, user') /\ Longer(syst, syst') /\ from' = from
  <2>1. from' = from
    BY DEF Next, Read, Relocate, UserFile, SystFile, FilesDone, LinkInto, AddVertex, VerticesDone,
           AddEdge, EdgesDone, AddDefinitions, AddPlace, LocsDone, ResolveReferences, AllRead,
           Resolve, Linked, vars
  <2> QED BY <2>1, FilesInv DEF IInv
<1>3. Names(e, user', syst', from[i], x.f)
  BY <1>1, <1>2, NamesStay DEF Filed
<1>4. TheFile(user, syst, from[i], x.f) = e
  BY <1>1, <1>2, TheFileNames DEF Filed
<1>5. TheFile(user', syst', from[i], x.f) = e
  BY <1>3, <1>2, TheFileNames DEF Filed
<1>6. FileOf(i, x.f)' = TheFile(user', syst', from[i], x.f)
  BY <1>2 DEF FileOf, TheFile
<1> QED BY <1>4, <1>5, <1>6, FileOfIsTheFile DEF To

\* Of the collection being linked, it is where it is relocated to.
LEMMA ToIsRelocated ==
  ASSUME IInv, phase \in Linking \ {"files"}, NEW x, x.f \in FilesOf(C.user, C.syst)
  PROVE  To(n, x) = Relocated(x)
<1>1. Names(fmap[x.f], user, syst, from[n], x.f)
  BY DEF IInv, Mapped, C
<1>2. FileOf(n, x.f) = fmap[x.f]
  BY <1>1, FileOfNames DEF IInv
<1> QED BY <1>2 DEF To, Relocated

LEMMA GraphGrows ==
  ASSUME [Next]_vars
  PROVE  verts \subseteq verts' /\ DOMAIN edge \subseteq DOMAIN edge'
<1>1. CASE \E v \in left : AddVertex(v)
  BY <1>1 DEF AddVertex
<1>2. CASE \E e \in left : AddEdge(e)
  BY <1>2 DEF AddEdge, Put
<1>3. CASE \E s \in left : Resolve(s)
  BY <1>3 DEF Resolve, Put
<1>4. CASE /\ \A v \in left : ~AddVertex(v)
           /\ \A e \in left : ~AddEdge(e)
           /\ \A s \in left : ~Resolve(s)
  BY <1>4, GraphStays
<1> QED BY <1>1, <1>2, <1>3, <1>4

\* Where the collection being linked, and how far it is, changes.
LEMMA PhaseSteps ==
  ASSUME [Next]_vars
  PROVE  /\ from' = from
         /\ n' = n \/ Read
         /\ phase' = phase \/ Read \/ FilesDone \/ VerticesDone \/ EdgesDone \/ AddDefinitions
                           \/ LocsDone \/ AllRead \/ Linked
<1>1. CASE Relocate
  BY <1>1 DEF Relocate, UserFile, SystFile, FilesDone
<1>2. CASE LinkInto
  BY <1>2 DEF LinkInto, AddVertex, VerticesDone, AddEdge, EdgesDone, AddDefinitions, AddPlace, LocsDone
<1>3. CASE ResolveReferences
  BY <1>3 DEF ResolveReferences, AllRead, Resolve, Linked
<1>4. CASE UNCHANGED vars
  BY <1>4 DEF vars
<1>5. CASE Read
  BY <1>5 DEF Read
<1> QED BY <1>1, <1>2, <1>3, <1>4, <1>5 DEF Next

\* The loop over edges is the only place where an edge becomes one that was added.
LEMMA EdgeAdded ==
  ASSUME IInv, [Next]_vars, NEW i \in 1 .. n', NEW e \in DOMAIN from[i].edge, Added(i, "edges", e)'
  PROVE  \/ i \in 1 .. n /\ Added(i, "edges", e)
         \/ i = n /\ phase = "edges" /\ e \in left /\ AddEdge(e)
<1>0. n \in Nat /\ i \in Int
  BY DEF IInv, Progress
<1> USE DEF Added, Past
<1>1. CASE Read
  BY <1>0, <1>1 DEF Read
<1>2. CASE ~Read /\ i < n
  BY <1>0, <1>2, PhaseSteps
<1>3. CASE ~Read /\ i = n
  <2>1. n' = n /\ i \in 1 .. n /\ (phase' \in Past("edges") \/ (phase' = "edges" /\ e \notin left'))
    BY <1>3, <1>0, PhaseSteps
  <2>2. CASE Relocate
    BY <2>1, <2>2 DEF Relocate, UserFile, SystFile, FilesDone, Files
  <2>3. CASE VerticesDone
    BY <2>1, <2>3, <1>3 DEF VerticesDone, C
  <2>4. CASE \E d \in left : AddEdge(d)
    BY <2>1, <2>4, <1>3 DEF AddEdge
  <2>5. CASE EdgesDone
    BY <2>1, <2>5, <1>3 DEF EdgesDone
  <2>6. CASE (\E v \in left : AddVertex(v)) \/ AddDefinitions \/ LocsDone
               \/ (\E q \in left : AddPlace(q[1], q[2], q[3]))
    BY <2>1, <2>6, <1>3 DEF AddVertex, AddDefinitions, AddPlace, LocsDone
  <2>7. CASE ResolveReferences
    BY <2>1, <2>7, <1>3 DEF ResolveReferences, AllRead, Resolve, Linked
  <2>8. CASE UNCHANGED vars
    BY <2>1, <2>8, <1>3 DEF vars
  <2> QED BY <1>3, <2>2, <2>3, <2>4, <2>5, <2>6, <2>7, <2>8 DEF Next, LinkInto
<1> QED BY <1>0, <1>1, <1>2, <1>3, PhaseSteps

LEMMA ConnectedStep ==
  ASSUME IInv, UsesStayConnected, [Next]_vars
  PROVE  UsesStayConnected'
<1>0. from' = from /\ IInv' /\ verts \subseteq verts' /\ DOMAIN edge \subseteq DOMAIN edge'
  BY PhaseSteps, IInvStep, GraphGrows
<1>1. SUFFICES ASSUME NEW i \in 1 .. n', NEW e \in DOMAIN from[i].edge, Added(i, "edges", e)'
               PROVE  \E a, b \in verts' :
                        /\ Overlap(a, To(i, e[1])') /\ Overlap(b, To(i, e[2])')
                        /\ <<a, b>> \in DOMAIN edge' \/ <<b, a>> \in DOMAIN edge'
  BY <1>0 DEF UsesStayConnected
<1>2. /\ i \in 1 .. n
      /\ Added(i, "edges", e) \/ (i = n /\ phase = "edges" /\ e \in left /\ AddEdge(e))
  BY <1>1, EdgeAdded DEF IInv, Progress
<1>3. i < n \/ phase # "files"
  BY <1>2 DEF Added, Past
<1>4. /\ e[1].f \in FilesOf(from[i].user, from[i].syst)
      /\ e[2].f \in FilesOf(from[i].user, from[i].syst)
  <2>1. IsCollection(from[i])
    BY <1>2, OneOfCollections DEF IInv
  <2> QED BY <2>1, RangeParts DEF IsCollection
<1>5. To(i, e[1])' = To(i, e[1]) /\ To(i, e[2])' = To(i, e[2])
  BY <1>2, <1>3, <1>4, ToStays
<1>6. \E a, b \in verts' : /\ Overlap(a, To(i, e[1])) /\ Overlap(b, To(i, e[2]))
                           /\ <<a, b>> \in DOMAIN edge' \/ <<b, a>> \in DOMAIN edge'
  <2>1. CASE Added(i, "edges", e)
    BY <2>1, <1>2, <1>0 DEF UsesStayConnected
  <2>2. CASE i = n /\ phase = "edges" /\ e \in left /\ AddEdge(e)
    <3> DEFINE a == Find(Relocated(e[1]))
               b == Find(Relocated(e[2]))
    <3>1. /\ a \in verts /\ Overlap(a, Relocated(e[1]))
          /\ b \in verts /\ Overlap(b, Relocated(e[2]))
      BY <2>2, EndsFound DEF IInv
    <3>2. To(i, e[1]) = Relocated(e[1]) /\ To(i, e[2]) = Relocated(e[2])
      BY <2>2, <1>4, ToIsRelocated DEF Linking, C
    <3>3. <<a, b>> \in DOMAIN edge' \/ <<b, a>> \in DOMAIN edge'
      BY <2>2 DEF AddEdge, Put
    <3> QED BY <3>1, <3>2, <3>3, <1>0
  <2> QED BY <1>2, <2>1, <2>2
<1> QED BY <1>5, <1>6

\* For any collections, a dependency of a collection joins what stands in the place of its
\* ends in the result, however vertices were merged and edges dropped (link_into).
THEOREM NoDependencyIsLost == Spec => []UsesStayConnected
<1>1. Init => UsesStayConnected
  BY DEF Init, UsesStayConnected
<1> QED BY <1>1, IInvInit, IInvStep, ConnectedStep, PTL DEF Spec

-----------------------------------------------------------------------------
(* Declarations reach the definition.                                      *)

Member(y, set) == \E k \in DOMAIN set : set[k] = y

LEMMA OneMore ==
  ASSUME NEW S, NEW s \in Seq(S), NEW t \in Seq(S), NEW x, NEW i \in 0 .. Len(s),
         Len(t) = Len(s) + 1, t[i + 1] = x,
         \A k \in 1 .. i : t[k] = s[k], \A k \in i + 1 .. Len(s) : t[k + 1] = s[k]
  PROVE  Member(x, t) /\ \A y : Member(y, s) => Member(y, t)
<1>1. Len(s) \in Nat /\ i \in Nat /\ DOMAIN s = 1 .. Len(s) /\ DOMAIN t = 1 .. Len(s) + 1
  OBVIOUS
<1>2. ASSUME NEW k \in DOMAIN s PROVE Member(s[k], t)
  <2>1. CASE k <= i
    BY <2>1, <1>1 DEF Member
  <2>2. CASE k > i
    <3>1. k \in i + 1 .. Len(s) /\ k + 1 \in DOMAIN t
      BY <2>2, <1>1
    <3> QED BY <3>1 DEF Member
  <2> QED BY <2>1, <2>2, <1>1
<1>3. Member(x, t)
  BY <1>1 DEF Member
<1> QED BY <1>2, <1>3 DEF Member

LEMMA Spliced ==
  ASSUME NEW S, NEW s \in Seq(S), NEW x \in S, NEW i \in 0 .. Len(s)
  PROVE  LET t == SubSeq(s, 1, i) \o <<x>> \o SubSeq(s, i + 1, Len(s))
         IN Member(x, t) /\ \A y : Member(y, s) => Member(y, t)
<1>0. Len(s) \in Nat /\ i \in Nat /\ \A k \in 1 .. Len(s) : s[k] \in S
  OBVIOUS
<1> DEFINE a == SubSeq(s, 1, i)
           b == SubSeq(s, i + 1, Len(s))
           c == a \o <<x>>
           t == c \o b
<1>1. a \in Seq(S) /\ Len(a) = i /\ \A k \in 1 .. i : a[k] = s[k]
  <2>1. \A k \in 1 .. i : s[k] \in S
    BY <1>0
  <2>2. /\ a \in Seq(S) /\ Len(a) = IF 1 <= i THEN i - 1 + 1 ELSE 0
        /\ \A k \in 1 .. i - 1 + 1 : a[k] = s[1 + k - 1]
    BY <2>1, <1>0, SubSeqProperties
  <2> QED BY <2>2, <1>0
<1>2. b \in Seq(S) /\ Len(b) = Len(s) - i /\ \A k \in 1 .. Len(s) - i : b[k] = s[i + k]
  <2>1. \A k \in i + 1 .. Len(s) : s[k] \in S
    BY <1>0
  <2>2. /\ b \in Seq(S) /\ Len(b) = IF i + 1 <= Len(s) THEN Len(s) - (i + 1) + 1 ELSE 0
        /\ \A k \in 1 .. Len(s) - (i + 1) + 1 : b[k] = s[i + 1 + k - 1]
    BY <2>1, <1>0, SubSeqProperties
  <2> QED BY <2>2, <1>0
<1> HIDE DEF a, b
<1>3. <<x>> \in Seq(S) /\ Len(<<x>>) = 1 /\ <<x>>[1] = x
  OBVIOUS
<1>4. /\ c \in Seq(S) /\ Len(c) = i + 1 /\ c[i + 1] = x
      /\ \A k \in 1 .. i : c[k] = s[k]
  <2>1. /\ c \in Seq(S) /\ Len(c) = Len(a) + Len(<<x>>)
        /\ \A k \in 1 .. Len(a) + Len(<<x>>) :
             c[k] = IF k <= Len(a) THEN a[k] ELSE <<x>>[k - Len(a)]
    BY <1>1, <1>3, ConcatProperties
  <2> QED BY <2>1, <1>0, <1>1, <1>3
<1> HIDE DEF c
<1>5. /\ t \in Seq(S) /\ Len(t) = Len(c) + Len(b)
      /\ \A k \in 1 .. Len(c) + Len(b) : t[k] = IF k <= Len(c) THEN c[k] ELSE b[k - Len(c)]
  BY <1>2, <1>4, ConcatProperties
<1> HIDE DEF t
<1>6. Len(c) + Len(b) = Len(s) + 1
  BY <1>4, <1>2, <1>0
<1>7. t[i + 1] = x
  <2>1. i + 1 \in 1 .. Len(c) + Len(b) /\ i + 1 <= Len(c)
    BY <1>6, <1>4, <1>0
  <2> QED BY <2>1, <1>5, <1>4
<1>8. ASSUME NEW k \in 1 .. i PROVE t[k] = s[k]
  <2>1. k \in 1 .. Len(c) + Len(b) /\ k <= Len(c)
    BY <1>6, <1>4, <1>0
  <2> QED BY <2>1, <1>5, <1>4
<1>9. ASSUME NEW k \in i + 1 .. Len(s) PROVE t[k + 1] = s[k]
  <2>1. k + 1 \in 1 .. Len(c) + Len(b) /\ ~(k + 1 <= Len(c)) /\ k + 1 - Len(c) = k - i
    BY <1>6, <1>4, <1>2, <1>0
  <2>2. k - i \in 1 .. Len(s) - i /\ i + (k - i) = k
    BY <1>0
  <2>3. t[k + 1] = b[k - i]
    BY <2>1, <1>5
  <2>4. b[k - i] = s[i + (k - i)]
    BY <2>2, <1>2
  <2> QED BY <2>2, <2>3, <2>4
<1>10. Member(x, t) /\ \A y : Member(y, s) => Member(y, t)
  <2>1. /\ t \in Seq(S) /\ Len(t) = Len(s) + 1 /\ t[i + 1] = x
        /\ \A k \in 1 .. i : t[k] = s[k]
        /\ \A k \in i + 1 .. Len(s) : t[k + 1] = s[k]
    BY <1>5, <1>6, <1>7, <1>8, <1>9
  <2> QED BY <2>1, OneMore, Zenon
<1> QED BY <1>10 DEF t, c, a, b

\* Although Less is no strict weak ordering, insert drops nothing but what is there.
LEMMA InsertedKeeps ==
  ASSUME NEW F, F \subseteq Int, NEW set \in Seq(Places(F)), NEW x \in Places(F),
         NEW i \in Gaps(set, x)
  PROVE  /\ Member(x, Inserted(set, x, i))
         /\ \A y : Member(y, set) => Member(y, Inserted(set, x, i))
<1>0. i \in 0 .. Len(set) /\ Len(set) \in Nat /\ DOMAIN set = 1 .. Len(set)
  BY DEF Gaps
<1>1. CASE i = 0 \/ Less(set[i], x)
  <2> DEFINE t == SubSeq(set, 1, i) \o <<x>> \o SubSeq(set, i + 1, Len(set))
  <2>1. Member(x, t) /\ \A y : Member(y, set) => Member(y, t)
    BY <1>0, Spliced
  <2> QED BY <1>1, <2>1 DEF Inserted
<1>2. CASE ~(i = 0 \/ Less(set[i], x))
  <2>1. i \in DOMAIN set /\ ~Less(set[i], x) /\ ~Less(x, set[i]) /\ set[i] \in Places(F)
    BY <1>2, <1>0 DEF Gaps
  <2>2. set[i] = x
    <3> DEFINE y == set[i]
    <3>1. /\ y.f \in Int /\ y.pos \in Int /\ x.f \in Int /\ x.pos \in Int
          /\ y = [f |-> y.f, pos |-> y.pos] /\ x = [f |-> x.f, pos |-> x.pos]
      BY <2>1 DEF Places
    <3>2. ~(y.f < x.f \/ y.pos < x.pos) /\ ~(x.f < y.f \/ x.pos < y.pos)
      BY <2>1 DEF Less
    <3>3. y.f = x.f /\ y.pos = x.pos
      BY <3>1, <3>2
    <3> QED BY <3>1, <3>3
  <2> QED BY <1>2, <2>1, <2>2 DEF Inserted, Member
<1> QED BY <1>1, <1>2

\* The definitions of collection i have been added; the entries of its tables; one of them.
DefsAdded(i) == i < n \/ phase \in {"locs", "read", "resolve", "linked"}
LocsAdded(i, q) ==
  i < n \/ phase \in {"read", "resolve", "linked"} \/ (phase = "locs" /\ q \notin left)

\* glbl_defs has the first definition of every symbol.
Firsts ==
  \A s \in Symbols :
    /\ \A j \in 1 .. n, x \in Places(Int) :
         DefsAdded(j) /\ Defines(j, s) /\ x = from[j].defs[s] => defs[s] = To(j, x)
    /\ (\A j \in 1 .. n : DefsAdded(j) => from[j].defs[s] = None) => defs[s] = None

\* The tables have every declaration.
AllNoted ==
  \A i \in 1 .. n, t \in Tables, s \in Symbols : \A x \in from[i].locs[t][s] :
    LocsAdded(i, <<t, s, x>>) => Member(To(i, x), locs[t][s])

\* Places of a collection are integers, also where it is relocated to.
LEMMA PlaceOfDefinition ==
  ASSUME IInv, NEW i \in 1 .. n, NEW s \in Symbols, NEW x, x = from[i].defs[s], x # None
  PROVE  x.f \in FilesOf(from[i].user, from[i].syst) /\ x \in Places(Int)
<1>1. x \in Places(FilesOf(from[i].user, from[i].syst)) /\ IsCollection(from[i])
  BY OneOfCollections DEF IInv, IsCollection
<1>2. FilesOf(from[i].user, from[i].syst) \subseteq Int
  BY DEF FilesOf
<1> QED BY <1>1, <1>2 DEF Places

LEMMA ToIsPlace ==
  ASSUME IInv, NEW i \in 1 .. n, i < n \/ phase # "files",
         NEW x \in Places(Int), x.f \in FilesOf(from[i].user, from[i].syst)
  PROVE  To(i, x) \in Places(FilesOf(user, syst)) /\ To(i, x) # None
<1>1. PICK e : Names(e, user, syst, from[i], x.f)
  BY DEF IInv, Registered
<1>2. To(i, x) = [x EXCEPT !.f = e]
  BY <1>1, FileOfNames DEF IInv, To
<1>3. e \in FilesOf(user, syst) /\ e \in Int
  BY <1>1 DEF Names, FilesOf
<1>4. To(i, x) \in Places(FilesOf(user, syst)) /\ To(i, x) \in Places(Int)
  BY <1>2, <1>3 DEF Places
<1> QED BY <1>4, LinkAssumption

LEMMA FirstsStep ==
  ASSUME IInv, Firsts, [Next]_vars
  PROVE  Firsts'
<1>0. n \in Nat /\ from' = from /\ \A j, s : Defines(j, s)' = Defines(j, s)
  BY PhaseSteps DEF IInv, Progress, Defines
<1>1. ASSUME NEW i \in 1 .. n, i < n \/ phase # "files", NEW s \in Symbols,
             NEW x \in Places(Int), Defines(i, s), x = from[i].defs[s]
      PROVE  To(i, x)' = To(i, x) /\ To(i, x) # None
  <2>1. x # None
    BY <1>1 DEF Defines
  <2>2. x.f \in FilesOf(from[i].user, from[i].syst)
    BY <1>1, <2>1, PlaceOfDefinition
  <2> QED BY <1>1, <2>2, ToStays, ToIsPlace
<1>2. CASE AddDefinitions
  <2>1. /\ phase = "defs" /\ phase' = "locs" /\ n' = n /\ n \in 1 .. n
        /\ defs' = [s \in Symbols |-> IF defs[s] = None /\ C.defs[s] # None
                                      THEN Relocated(C.defs[s]) ELSE defs[s]]
    BY <1>2 DEF AddDefinitions, IInv, Progress, Linking
  <2>2. \A j \in 1 .. n : DefsAdded(j) <=> j < n
    BY <2>1, <1>0 DEF DefsAdded
  <2>3. ASSUME NEW s \in Symbols, NEW j \in 1 .. n, NEW x \in Places(Int),
               Defines(j, s), x = from[j].defs[s]
        PROVE  defs'[s] = To(j, x)'
    <3>1. To(j, x)' = To(j, x) /\ To(j, x) # None
      BY <2>1, <2>3, <1>1
    <3>2. CASE j < n
      <4>1. defs[s] = To(j, x)
        BY <3>2, <2>2, <2>3 DEF Firsts
      <4> QED BY <4>1, <3>1, <2>1
    <3>3. CASE j = n
      <4>1. \A i \in 1 .. n : DefsAdded(i) => from[i].defs[s] = None
        BY <2>2, <2>3, <3>3, <1>0 DEF Defines
      <4>2. defs[s] = None /\ C.defs[s] # None /\ x = C.defs[s]
        BY <4>1, <2>3, <3>3 DEF Firsts, Defines, C
      <4>3. x.f \in FilesOf(C.user, C.syst)
        BY <4>2, <2>1, <2>3, <3>3, PlaceOfDefinition DEF C
      <4>4. To(j, x) = Relocated(x)
        BY <4>3, <3>3, <2>1, ToIsRelocated DEF Linking
      <4> QED BY <4>2, <4>4, <3>1, <2>1
    <3> QED BY <3>2, <3>3, <1>0
  <2>4. ASSUME NEW s \in Symbols, \A j \in 1 .. n : from[j].defs[s] = None
        PROVE  defs'[s] = None
    <3>1. defs[s] = None
      BY <2>4 DEF Firsts
    <3>2. C.defs[s] = None
      BY <2>4, <2>1 DEF C
    <3> QED BY <3>1, <3>2, <2>1
  <2>5. \A j \in 1 .. n : DefsAdded(j)'
    BY <2>1 DEF DefsAdded
  <2> QED BY <2>1, <2>3, <2>4, <2>5, <1>0 DEF Firsts
<1>3. CASE ~AddDefinitions
  <2>1. defs' = defs
    BY <1>3 DEF Next, Read, Relocate, UserFile, SystFile, FilesDone, LinkInto, AddVertex,
                VerticesDone, AddEdge, EdgesDone, AddPlace, LocsDone, ResolveReferences, AllRead,
                Resolve, Linked, vars, tables
  <2>2. \A j \in 1 .. n' : DefsAdded(j)' <=> j \in 1 .. n /\ DefsAdded(j)
    <3>1. CASE Read
      <4>1. phase = "read" /\ phase' = "files" /\ n' = n + 1
        BY <3>1 DEF Read
      <4> QED BY <4>1, <1>0 DEF DefsAdded
    <3>2. CASE ~Read
      <4>1. n' = n
        BY <3>2, PhaseSteps
      <4>2. phase \in {"locs", "read", "resolve", "linked"} <=>
              phase' \in {"locs", "read", "resolve", "linked"}
        BY <3>2, <1>3, PhaseSteps DEF FilesDone, Files, VerticesDone, EdgesDone, LocsDone, AllRead, Linked
      <4> QED BY <4>1, <4>2 DEF DefsAdded
    <3> QED BY <3>1, <3>2
  <2>4. \A j \in 1 .. n : j \in 1 .. n'
    BY <1>0, PhaseSteps DEF Read
  <2>5. ASSUME NEW s \in Symbols, NEW j \in 1 .. n', NEW x \in Places(Int),
               DefsAdded(j)', Defines(j, s), x = from[j].defs[s]
        PROVE  defs'[s] = To(j, x)'
    <3>1. j \in 1 .. n /\ DefsAdded(j)
      BY <2>2, <2>5
    <3>2. defs[s] = To(j, x)
      BY <3>1, <2>5 DEF Firsts
    <3>3. j < n \/ phase # "files"
      BY <3>1 DEF DefsAdded
    <3>4. To(j, x)' = To(j, x)
      BY <3>1, <3>3, <2>5, <1>1
    <3> QED BY <3>2, <3>4, <2>1
  <2>6. ASSUME NEW s \in Symbols, \A j \in 1 .. n' : DefsAdded(j)' => from[j].defs[s] = None
        PROVE  defs'[s] = None
    <3>1. \A j \in 1 .. n : DefsAdded(j) => from[j].defs[s] = None
      BY <2>2, <2>4, <2>6
    <3> QED BY <3>1, <2>1 DEF Firsts
  <2> QED BY <2>5, <2>6, <1>0 DEF Firsts
<1> QED BY <1>2, <1>3

LEMMA LocAdded ==
  ASSUME IInv, [Next]_vars, NEW i \in 1 .. n', NEW t \in Tables, NEW s \in Symbols,
         NEW x \in from[i].locs[t][s], LocsAdded(i, <<t, s, x>>)'
  PROVE  \/ i \in 1 .. n /\ LocsAdded(i, <<t, s, x>>)
         \/ i = n /\ phase = "locs" /\ <<t, s, x>> \in left /\ AddPlace(t, s, x)
<1>0. n \in Nat /\ i \in Int
  BY DEF IInv, Progress
<1> USE DEF LocsAdded
<1>1. CASE Read
  BY <1>0, <1>1 DEF Read
<1>2. CASE ~Read /\ i < n
  BY <1>0, <1>2, PhaseSteps
<1>3. CASE ~Read /\ i = n
  <2>1. /\ n' = n /\ i \in 1 .. n
        /\ phase' \in {"read", "resolve", "linked"} \/ (phase' = "locs" /\ <<t, s, x>> \notin left')
    BY <1>3, <1>0, PhaseSteps
  <2>2. CASE Relocate
    BY <2>1, <2>2 DEF Relocate, UserFile, SystFile, FilesDone, Files
  <2>3. CASE (\E v \in left : AddVertex(v)) \/ VerticesDone \/ (\E e \in left : AddEdge(e)) \/ EdgesDone
    BY <2>1, <2>3 DEF AddVertex, VerticesDone, AddEdge, EdgesDone
  <2>4. CASE AddDefinitions
    <3>1. phase' = "locs" /\ left' = Entries
      BY <2>4 DEF AddDefinitions
    <3>2. <<t, s, x>> \in Entries
      <4>1. x \in C.locs[t][s] /\ from' = from
        BY <1>3, PhaseSteps DEF C
      <4>2. <<t, s, x>> \in {<<t, s, y>> : y \in C.locs[t][s]}
        BY <4>1
      <4>3. {<<t, s, y>> : y \in C.locs[t][s]}
              \in {{<<u, r, y>> : y \in C.locs[u][r]} : u \in Tables, r \in Symbols}
        OBVIOUS
      <4> DEFINE X == {<<t, s, y>> : y \in C.locs[t][s]}
                 U == {{<<u, r, y>> : y \in C.locs[u][r]} : u \in Tables, r \in Symbols}
      <4>4. X \in U
        BY <4>3
      <4>5. Entries = UNION U
        BY DEF Entries
      <4> HIDE DEF X, U
      <4>6. \A e \in X : e \in UNION U
        BY <4>4
      <4>7. <<t, s, x>> \in X
        BY <4>2 DEF X
      <4> QED BY <4>5, <4>6, <4>7
    <3> QED BY <3>1, <3>2, <2>1
  <2>5. CASE \E q \in left : AddPlace(q[1], q[2], q[3])
    <3>1. PICK q \in left : AddPlace(q[1], q[2], q[3])
      BY <2>5
    <3>2. phase = "locs" /\ left' = left \ {<<q[1], q[2], q[3]>>}
      BY <3>1 DEF AddPlace
    <3>3. q = <<q[1], q[2], q[3]>>
      BY <3>2, EntriesArePlaces DEF IInv
    <3>4. CASE q = <<t, s, x>>
      BY <3>1, <3>2, <3>4, <1>3
    <3>5. CASE q # <<t, s, x>>
      <4>1. phase' = phase
        BY <3>1 DEF AddPlace
      <4>2. <<t, s, x>> \notin left'
        BY <4>1, <3>2, <2>1
      <4>3. <<t, s, x>> \notin left
        BY <4>2, <3>2, <3>3, <3>5
      <4> QED BY <4>3, <3>2, <2>1
    <3> QED BY <3>4, <3>5
  <2>6. CASE LocsDone
    BY <2>1, <2>6, <1>3 DEF LocsDone
  <2>7. CASE ResolveReferences
    BY <2>1, <2>7, <1>3 DEF ResolveReferences, AllRead, Resolve, Linked
  <2>8. CASE UNCHANGED vars
    BY <2>1, <2>8, <1>3 DEF vars
  <2> QED BY <1>3, <2>2, <2>3, <2>4, <2>5, <2>6, <2>7, <2>8 DEF Next, LinkInto
<1> QED BY <1>0, <1>1, <1>2, <1>3, PhaseSteps

\* Inserting a place takes none out.
LEMMA PlaceAdded ==
  ASSUME IInv, NEW t, NEW s, NEW x, <<t, s, x>> \in left, AddPlace(t, s, x)
  PROVE  /\ Member(Relocated(x), locs'[t][s])
         /\ \A u \in Tables, r \in Symbols : \A y : Member(y, locs[u][r]) => Member(y, locs'[u][r])
<1>1. phase = "locs"
  BY DEF AddPlace
<1>2. t \in Tables /\ s \in Symbols /\ x \in Places(FilesOf(C.user, C.syst))
  BY <1>1, EntriesArePlaces DEF IInv
<1>3. Relocated(x) \in Places(FilesOf(user, syst)) /\ FilesOf(user, syst) \subseteq Int
  BY <1>1, <1>2, RelocatedPlace DEF IInv, Linking, FilesOf
<1>4. PICK i \in Gaps(locs[t][s], Relocated(x)) :
        locs' = [locs EXCEPT ![t][s] = Inserted(@, Relocated(x), i)]
  BY DEF AddPlace
<1>5. locs[t][s] \in Seq(Places(FilesOf(user, syst)))
  BY <1>2 DEF IInv, Located
<1>6. /\ Member(Relocated(x), Inserted(locs[t][s], Relocated(x), i))
      /\ \A y : Member(y, locs[t][s]) => Member(y, Inserted(locs[t][s], Relocated(x), i))
  BY <1>3, <1>5, InsertedKeeps
<1>7. /\ locs'[t][s] = Inserted(locs[t][s], Relocated(x), i)
      /\ \A u \in Tables, r \in Symbols : u # t \/ r # s => locs'[u][r] = locs[u][r]
  BY <1>2, <1>4 DEF IInv, Located
<1> QED BY <1>6, <1>7

LEMMA NotedStep ==
  ASSUME IInv, AllNoted, [Next]_vars
  PROVE  AllNoted'
<1>0. from' = from
  BY PhaseSteps
<1>1. SUFFICES ASSUME NEW i \in 1 .. n', NEW t \in Tables, NEW s \in Symbols,
                      NEW x \in from[i].locs[t][s], LocsAdded(i, <<t, s, x>>)'
               PROVE  Member(To(i, x)', locs'[t][s])
  BY <1>0 DEF AllNoted, Member
<1>2. \/ i \in 1 .. n /\ LocsAdded(i, <<t, s, x>>)
      \/ i = n /\ phase = "locs" /\ <<t, s, x>> \in left /\ AddPlace(t, s, x)
  BY <1>1, LocAdded
<1>3. i \in 1 .. n /\ (i < n \/ phase # "files")
  BY <1>2 DEF LocsAdded, IInv, Progress, Linking
<1>4. x.f \in FilesOf(from[i].user, from[i].syst)
  <2>1. IsCollection(from[i])
    BY <1>3, OneOfCollections DEF IInv
  <2>2. from[i].locs[t][s] \subseteq Places(FilesOf(from[i].user, from[i].syst))
    BY <2>1 DEF IsCollection
  <2> QED BY <2>2 DEF Places
<1>5. To(i, x)' = To(i, x)
  BY <1>3, <1>4, ToStays
<1>6. CASE i \in 1 .. n /\ LocsAdded(i, <<t, s, x>>)
  <2>1. Member(To(i, x), locs[t][s])
    BY <1>6 DEF AllNoted
  <2>2. CASE \E q \in left : AddPlace(q[1], q[2], q[3])
    <3>1. PICK q \in left : AddPlace(q[1], q[2], q[3])
      BY <2>2
    <3>2. <<q[1], q[2], q[3]>> \in left
      BY <3>1, EntriesArePlaces DEF IInv, AddPlace
    <3> QED BY <3>1, <3>2, <2>1, <1>5, PlaceAdded
  <2>3. CASE \A q \in left : ~AddPlace(q[1], q[2], q[3])
    <3>1. locs' = locs
      <4>1. CASE AddDefinitions
        BY <4>1 DEF AddDefinitions
      <4>2. CASE ~AddDefinitions
        BY <4>2, <2>3, TablesStay
      <4> QED BY <4>1, <4>2
    <3> QED BY <3>1, <2>1, <1>5
  <2> QED BY <2>2, <2>3
<1>7. CASE i = n /\ phase = "locs" /\ <<t, s, x>> \in left /\ AddPlace(t, s, x)
  <2>1. To(i, x) = Relocated(x)
    BY <1>4, <1>7, ToIsRelocated DEF C, Linking
  <2> QED BY <2>1, <1>5, <1>7, PlaceAdded
<1> QED BY <1>2, <1>6, <1>7

\* What resolve_references has done.
Resolved ==
  phase \in {"resolve", "linked"} =>
    \A s \in Symbols :
      /\ phase = "linked" \/ s \notin left
      /\ locs["glbl_decls"][s] # <<>> /\ defs[s] # None /\ Covered(defs[s])
      => \A d \in {<<v, s>> : v \in Declared(s)} \cup {<<s, At(defs[s])>>} :
           d \in DOMAIN edge /\ edge[d] = "FWD_DECL"

LEMMA ResolvedStep ==
  ASSUME IInv, Resolved, [Next]_vars
  PROVE  Resolved'
<1>1. CASE AllRead
  BY <1>1 DEF AllRead, Resolved, tables
<1>2. CASE \E r \in left : Resolve(r)
  <2>1. PICK r \in left : Resolve(r)
    BY <1>2
  <2>2. /\ phase = "resolve" /\ phase' = "resolve" /\ left' = left \ {r}
        /\ verts' = verts /\ defs' = defs /\ locs' = locs
    BY <2>1 DEF Resolve, tables
  <2>3. /\ \A s : Declared(s)' = Declared(s)
        /\ \A x : At(x)' = At(x) /\ Covered(x)' = Covered(x)
        /\ \A s : At(defs[s])' = At(defs[s]) /\ Covered(defs[s])' = Covered(defs[s])
    BY <2>2 DEF Declared, At, Covered
  <2> DEFINE E(s) == {<<v, s>> : v \in Declared(s)} \cup {<<s, At(defs[s])>>}
  <2>4. \A d \in DOMAIN edge : edge[d] = "FWD_DECL" => d \in DOMAIN edge' /\ edge'[d] = "FWD_DECL"
    BY <2>1 DEF Resolve, Put
  <2>5. ASSUME defs[r] # None, Covered(defs[r])
        PROVE  \A d \in E(r) : d \in DOMAIN edge' /\ edge'[d] = "FWD_DECL"
    BY <2>1, <2>5 DEF Resolve, Put
  <2>6. ASSUME NEW s \in Symbols, s \notin left', locs["glbl_decls"][s] # <<>>,
               defs[s] # None, Covered(defs[s])
        PROVE  \A d \in E(s) : d \in DOMAIN edge' /\ edge'[d] = "FWD_DECL"
    <3>1. CASE s = r
      BY <3>1, <2>5, <2>6
    <3>2. CASE s # r
      <4>1. s \notin left
        BY <3>2, <2>2, <2>6
      <4>2. \A d \in E(s) : d \in DOMAIN edge /\ edge[d] = "FWD_DECL"
        BY <4>1, <2>2, <2>6 DEF Resolved
      <4> QED BY <4>2, <2>4
    <3> QED BY <3>1, <3>2
  <2> QED BY <2>2, <2>3, <2>6 DEF Resolved
<1>3. CASE Linked
  <2>1. /\ phase = "resolve" /\ left = {} /\ verts' = verts /\ defs' = defs /\ locs' = locs
        /\ edge' = edge
    BY <1>3 DEF Linked, graph, tables
  <2>2. /\ \A s : Declared(s)' = Declared(s)
        /\ \A s : At(defs[s])' = At(defs[s]) /\ Covered(defs[s])' = Covered(defs[s])
    BY <2>1 DEF Declared, At, Covered
  <2> QED BY <2>1, <2>2 DEF Resolved
<1>4. CASE UNCHANGED vars
  <2>1. /\ verts' = verts /\ defs' = defs /\ locs' = locs /\ edge' = edge /\ left' = left
        /\ phase' = phase
    BY <1>4 DEF vars, graph, tables
  <2>2. /\ \A s : Declared(s)' = Declared(s)
        /\ \A s : At(defs[s])' = At(defs[s]) /\ Covered(defs[s])' = Covered(defs[s])
    BY <2>1 DEF Declared, At, Covered
  <2> QED BY <2>1, <2>2 DEF Resolved
<1>5. CASE Read \/ Relocate \/ LinkInto
  <2>1. phase' \notin {"resolve", "linked"}
    BY <1>5 DEF Read, Relocate, UserFile, SystFile, FilesDone, Files, LinkInto, AddVertex,
                VerticesDone, AddEdge, EdgesDone, AddDefinitions, AddPlace, LocsDone
  <2> QED BY <2>1 DEF Resolved
<1> QED BY <1>1, <1>2, <1>3, <1>4, <1>5 DEF Next, ResolveReferences

LEMMA NotedIsDeclared ==
  ASSUME NEW s, NEW x, Member(x, locs["glbl_decls"][s]), Covered(x)
  PROVE  At(x) \in Declared(s) /\ locs["glbl_decls"][s] # <<>>
<1>1. PICK k \in DOMAIN locs["glbl_decls"][s] : locs["glbl_decls"][s][k] = x
  BY DEF Member
<1>2. At(x) \in Declared(s)
  BY <1>1 DEF Declared
<1> QED BY <1>1, <1>2

LEMMA ReachingInit == Init => Firsts /\ AllNoted /\ Resolved
<1> SUFFICES ASSUME Init PROVE Firsts /\ AllNoted /\ Resolved
  OBVIOUS
<1>1. n = 0 /\ phase = "read" /\ \A s \in Symbols : defs[s] = None
  BY DEF Init
<1> QED BY <1>1 DEF Firsts, AllNoted, Resolved

LEMMA AllLinkedReach ==
  ASSUME IInv, Firsts, AllNoted, Resolved
  PROVE  DeclarationsReachDefinition
<1> SUFFICES ASSUME phase = "linked", NEW i \in 1 .. Len(from), NEW j \in 1 .. Len(from),
                    NEW s \in Symbols, NEW x \in from[i].locs["glbl_decls"][s], Defines(j, s),
                    Covered(To(i, x)), Covered(To(j, from[j].defs[s]))
             PROVE  LET y == To(j, from[j].defs[s])
                    IN /\ <<At(To(i, x)), s>> \in DOMAIN edge
                       /\ <<s, At(y)>> \in DOMAIN edge
                       /\ edge[<<At(To(i, x)), s>>] = "FWD_DECL"
                       /\ edge[<<s, At(y)>>] = "FWD_DECL"
  BY DEF DeclarationsReachDefinition
<1>1. n = Len(from) /\ i \in 1 .. n /\ j \in 1 .. n
  BY DEF IInv, Progress
<1> DEFINE d == from[j].defs[s]
<1>2. defs[s] = To(j, d) /\ defs[s] # None
  <2>1. d # None
    BY DEF Defines
  <2>2. d.f \in FilesOf(from[j].user, from[j].syst) /\ d \in Places(Int)
    BY <1>1, <2>1, PlaceOfDefinition
  <2>3. defs[s] = To(j, d)
    BY <1>1, <2>2 DEF Firsts, DefsAdded
  <2> QED BY <1>1, <2>2, <2>3, ToIsPlace
<1>3. Member(To(i, x), locs["glbl_decls"][s])
  BY <1>1 DEF AllNoted, LocsAdded, Tables
<1>4. At(To(i, x)) \in Declared(s) /\ locs["glbl_decls"][s] # <<>>
  BY <1>3, NotedIsDeclared
<1>5. \A e \in {<<v, s>> : v \in Declared(s)} \cup {<<s, At(defs[s])>>} :
        e \in DOMAIN edge /\ edge[e] = "FWD_DECL"
  BY <1>2, <1>4 DEF Resolved
<1> QED BY <1>2, <1>4, <1>5

\* Whatever the collections and the order in which their files, vertices and tables are gone
\* through, what the comment at link.cpp:402 promises of resolve_references holds: every
\* declaration leads to the definition of its symbol, although the set of declarations is
\* ordered by a comparison that is no order (collect_impl.h:73).
THEOREM DeclarationsLeadToDefinition == Spec => []DeclarationsReachDefinition
<1> DEFINE RInv == IInv /\ Firsts /\ AllNoted /\ Resolved
<1>1. Init => RInv
  BY IInvInit, ReachingInit
<1>2. RInv /\ [Next]_vars => RInv'
  BY IInvStep, FirstsStep, NotedStep, ResolvedStep
<1>3. RInv => DeclarationsReachDefinition
  BY AllLinkedReach
<1> QED BY <1>1, <1>2, <1>3, PTL DEF Spec

-----------------------------------------------------------------------------
(* Collections that agree add up.                                          *)

\* The collections whose files have their numbers in the result.
Numbering == {i \in 1 .. n : i < n \/ phase # "files"}

\* What of these collections the result has, or will have, is equal if it overlaps.
AgreeSoFar == \A i, j \in Numbering : \A v \in from[i].verts, w \in from[j].verts :
                Overlap(To(i, v), To(j, w)) => To(i, v) = To(j, w)

\* A vertex that was gone through.
Brought(w) == \E i \in 1 .. n : \E v \in from[i].verts : Added(i, "vertices", v) /\ w = To(i, v)

\* An edge of the result, with its type, that some collection has.
Given(e) == \E i \in Numbering : \E d \in DOMAIN from[i].edge :
              e = <<To(i, d[1]), To(i, d[2])>> /\ edge[e] = from[i].edge[d]

AddedUp ==
  AgreeSoFar => /\ \A w : w \in verts <=> Brought(w)
                /\ \A e \in DOMAIN edge \cap (verts \X verts) :
                     Given(e) /\ (<<e[2], e[1]>> \in DOMAIN edge => e[1] = e[2])

\* Files of collections whose vertices or edges are looked at have their numbers.
LEMMA VerticesHaveFiles ==
  ASSUME IInv, NEW i \in 1 .. n, NEW v \in from[i].verts
  PROVE  v.f \in FilesOf(from[i].user, from[i].syst)
BY OneOfCollections, RangeParts DEF IInv, IsCollection

LEMMA EdgesHaveVertices ==
  ASSUME IInv, NEW i \in 1 .. n, NEW d \in DOMAIN from[i].edge
  PROVE  d[1] \in from[i].verts /\ d[2] \in from[i].verts /\ d = <<d[1], d[2]>>
BY OneOfCollections DEF IInv, IsCollection

LEMMA NumberingGrows ==
  ASSUME IInv, [Next]_vars
  PROVE  Numbering \subseteq Numbering'
<1>1. n \in Nat /\ n' \in Nat
  BY IInvStep DEF IInv, Progress
<1>2. CASE Read
  BY <1>1, <1>2 DEF Read, Numbering
<1>3. CASE ~Read
  <2>1. n' = n
    BY <1>3, PhaseSteps
  <2>2. phase # "files" => phase' # "files"
    BY <1>3, PhaseSteps DEF FilesDone, VerticesDone, EdgesDone, AddDefinitions, LocsDone, AllRead, Linked
  <2> QED BY <2>1, <2>2 DEF Numbering
<1> QED BY <1>2, <1>3

LEMMA AgreedBefore ==
  ASSUME IInv, [Next]_vars, AgreeSoFar'
  PROVE  AgreeSoFar
<1> SUFFICES ASSUME NEW i \in Numbering, NEW j \in Numbering, NEW v \in from[i].verts,
                    NEW w \in from[j].verts, Overlap(To(i, v), To(j, w))
             PROVE  To(i, v) = To(j, w)
  BY DEF AgreeSoFar
<1>1. i \in Numbering' /\ j \in Numbering' /\ from' = from
  BY NumberingGrows, PhaseSteps
<1>2. To(i, v)' = To(i, v) /\ To(j, w)' = To(j, w)
  BY VerticesHaveFiles, ToStays DEF Numbering
<1> QED BY <1>1, <1>2 DEF AgreeSoFar

\* The loop over vertices is the only place where a vertex becomes one that was gone through.
LEMMA VertexAdded ==
  ASSUME IInv, [Next]_vars, NEW i \in 1 .. n', NEW v \in from[i].verts, Added(i, "vertices", v)'
  PROVE  \/ i \in 1 .. n /\ Added(i, "vertices", v)
         \/ i = n /\ phase = "vertices" /\ v \in left /\ AddVertex(v)
<1>0. n \in Nat /\ i \in Int
  BY DEF IInv, Progress
<1> USE DEF Added, Past
<1>1. CASE Read
  BY <1>0, <1>1 DEF Read
<1>2. CASE ~Read /\ i < n
  BY <1>0, <1>2, PhaseSteps
<1>3. CASE ~Read /\ i = n
  <2>1. n' = n /\ i \in 1 .. n /\ (phase' \in Past("vertices") \/ (phase' = "vertices" /\ v \notin left'))
    BY <1>3, <1>0, PhaseSteps
  <2>2. CASE Relocate
    BY <2>1, <2>2, <1>3 DEF Relocate, UserFile, SystFile, FilesDone, Files, C
  <2>3. CASE VerticesDone
    BY <2>1, <2>3, <1>3 DEF VerticesDone, C
  <2>4. CASE \E w \in left : AddVertex(w)
    BY <2>1, <2>4, <1>3 DEF AddVertex
  <2>5. CASE EdgesDone \/ (\E d \in left : AddEdge(d))
    BY <2>1, <2>5, <1>3 DEF EdgesDone, AddEdge
  <2>6. CASE AddDefinitions \/ LocsDone \/ (\E q \in left : AddPlace(q[1], q[2], q[3]))
    BY <2>1, <2>6, <1>3 DEF AddDefinitions, AddPlace, LocsDone
  <2>7. CASE ResolveReferences
    BY <2>1, <2>7, <1>3 DEF ResolveReferences, AllRead, Resolve, Linked
  <2>8. CASE UNCHANGED vars
    BY <2>1, <2>8, <1>3 DEF vars
  <2> QED BY <1>3, <2>2, <2>3, <2>4, <2>5, <2>6, <2>7, <2>8 DEF Next, LinkInto
<1> QED BY <1>0, <1>1, <1>2, <1>3, PhaseSteps

\* What was gone through stays so.
LEMMA AddedStays ==
  ASSUME IInv, [Next]_vars, NEW i \in 1 .. n, NEW v \in from[i].verts, Added(i, "vertices", v)
  PROVE  i \in 1 .. n' /\ Added(i, "vertices", v)'
<1>0. n \in Nat /\ n' \in Nat /\ i \in Int
  BY IInvStep DEF IInv, Progress
<1> USE DEF Added, Past
<1>1. CASE Read
  BY <1>0, <1>1 DEF Read
<1>2. CASE ~Read /\ i < n
  BY <1>0, <1>2, PhaseSteps
<1>3. CASE ~Read /\ i = n
  <2>1. n' = n /\ (phase \in Past("vertices") \/ (phase = "vertices" /\ v \notin left))
    BY <1>3, <1>0, PhaseSteps
  <2>2. CASE Relocate
    BY <2>1, <2>2, <1>3 DEF Relocate, UserFile, SystFile, FilesDone, Files
  <2>3. CASE VerticesDone
    BY <2>1, <2>3, <1>3 DEF VerticesDone
  <2>4. CASE \E w \in left : AddVertex(w)
    BY <2>1, <2>4, <1>3 DEF AddVertex
  <2>5. CASE EdgesDone \/ (\E d \in left : AddEdge(d))
    BY <2>1, <2>5, <1>3 DEF EdgesDone, AddEdge
  <2>6. CASE AddDefinitions \/ LocsDone \/ (\E q \in left : AddPlace(q[1], q[2], q[3]))
    BY <2>1, <2>6, <1>3 DEF AddDefinitions, AddPlace, LocsDone
  <2>7. CASE ResolveReferences
    BY <2>1, <2>7, <1>3 DEF ResolveReferences, AllRead, Resolve, Linked
  <2>8. CASE UNCHANGED vars
    BY <2>1, <2>8, <1>3 DEF vars
  <2> QED BY <1>3, <2>2, <2>3, <2>4, <2>5, <2>6, <2>7, <2>8 DEF Next, LinkInto
<1> QED BY <1>0, <1>1, <1>2, <1>3, PhaseSteps

LEMMA BroughtStays ==
  ASSUME IInv, [Next]_vars, NEW w, Brought(w)
  PROVE  Brought(w)'
<1>0. PICK i \in 1 .. n : \E v \in from[i].verts : Added(i, "vertices", v) /\ w = To(i, v)
  BY DEF Brought
<1>1. PICK v \in from[i].verts : Added(i, "vertices", v) /\ w = To(i, v)
  BY <1>0
<1>2. i < n \/ phase # "files"
  BY <1>1 DEF Added, Past
<1>3. To(i, v)' = To(i, v) /\ from' = from
  BY <1>2, VerticesHaveFiles, ToStays, PhaseSteps
<1>4. i \in 1 .. n' /\ Added(i, "vertices", v)'
  BY <1>1, AddedStays
<1> QED BY <1>1, <1>3, <1>4 DEF Brought

\* What has been gone through later was gone through before, or is looked at now.
LEMMA BroughtBefore ==
  ASSUME IInv, [Next]_vars, NEW w, Brought(w)'
  PROVE  Brought(w) \/ \E v \in left : phase = "vertices" /\ AddVertex(v) /\ w = Relocated(v)
<1>0. from' = from
  BY PhaseSteps
<1>7. PICK i \in 1 .. n' : \E v \in from[i].verts : Added(i, "vertices", v)' /\ w = To(i, v)'
  BY <1>0 DEF Brought
<1>1. PICK v \in from[i].verts : Added(i, "vertices", v)' /\ w = To(i, v)'
  BY <1>7
<1>2. CASE i \in 1 .. n /\ Added(i, "vertices", v)
  <2>1. i < n \/ phase # "files"
    BY <1>2 DEF Added, Past
  <2>2. To(i, v)' = To(i, v)
    BY <1>2, <2>1, VerticesHaveFiles, ToStays
  <2> QED BY <1>1, <1>2, <2>2 DEF Brought
<1>3. CASE i = n /\ phase = "vertices" /\ v \in left /\ AddVertex(v)
  <2>1. i \in 1 .. n
    BY <1>3, <1>1 DEF IInv, Progress, Linking
  <2>2. v.f \in FilesOf(C.user, C.syst)
    BY <1>3, <2>1, VerticesHaveFiles DEF C
  <2>3. To(n, v) = Relocated(v)
    BY <1>3, <2>2, ToIsRelocated DEF Linking
  <2>4. To(i, v)' = To(i, v)
    BY <1>3, <2>1, <2>2, ToStays DEF C
  <2> QED BY <1>1, <1>3, <2>3, <2>4
<1> QED BY <1>1, <1>2, <1>3, VertexAdded

\* A vertex that was gone through, or is now, is where it is relocated to.
LEMMA LinkedVertex ==
  ASSUME IInv, phase \in {"vertices", "edges"}, NEW v \in C.verts
  PROVE  n \in 1 .. n /\ n \in Numbering /\ v \in from[n].verts /\ To(n, v) = Relocated(v)
<1>1. n \in 1 .. n /\ C = from[n]
  BY CIsCollection DEF IInv, Linking
<1>2. v.f \in FilesOf(C.user, C.syst)
  BY <1>1, VerticesHaveFiles
<1>3. To(n, v) = Relocated(v)
  BY <1>2, ToIsRelocated DEF Linking
<1> QED BY <1>1, <1>3 DEF Numbering

\* If the collections agree, a vertex that is dropped is one that the result has.
LEMMA AddVertexAdds ==
  ASSUME IInv, AddedUp, AgreeSoFar, NEW v \in left, AddVertex(v)
  PROVE  verts' = verts \cup {Relocated(v)} /\ Brought(Relocated(v))'
<1>1. phase = "vertices" /\ v \in C.verts /\ left' = left \ {v} /\ phase' = phase /\ n' = n
      /\ from' = from
  BY DEF AddVertex, IInv, Looping
<1>2. n \in 1 .. n /\ n \in Numbering /\ v \in from[n].verts /\ To(n, v) = Relocated(v)
  BY <1>1, LinkedVertex
<1>3. ASSUME \E w \in verts : Overlap(w, Relocated(v)) PROVE verts' = verts \cup {Relocated(v)}
  <2>1. PICK w \in verts : Overlap(w, Relocated(v))
    BY <1>3
  <2>2. Brought(w)
    BY DEF AddedUp
  <2>3. PICK j \in 1 .. n : \E u \in from[j].verts : Added(j, "vertices", u) /\ w = To(j, u)
    BY <2>2 DEF Brought
  <2>4. PICK u \in from[j].verts : Added(j, "vertices", u) /\ w = To(j, u)
    BY <2>3
  <2>5. j \in Numbering
    BY <1>1 DEF Numbering
  <2>6. w = Relocated(v)
    BY <1>2, <2>1, <2>4, <2>5 DEF AgreeSoFar
  <2> QED BY <1>3, <2>6 DEF AddVertex
<1>4. ASSUME \A w \in verts : ~Overlap(w, Relocated(v)) PROVE verts' = verts \cup {Relocated(v)}
  BY <1>4 DEF AddVertex
<1>5. Brought(Relocated(v))'
  <2>1. Added(n, "vertices", v)'
    BY <1>1 DEF Added
  <2>2. v.f \in FilesOf(from[n].user, from[n].syst)
    BY <1>2, VerticesHaveFiles
  <2>3. To(n, v)' = To(n, v)
    BY <1>1, <1>2, <2>2, ToStays DEF Next, LinkInto
  <2>4. Relocated(v)' = Relocated(v)
    BY DEF AddVertex, Relocated
  <2> QED BY <1>1, <1>2, <2>1, <2>3, <2>4 DEF Brought
<1> QED BY <1>3, <1>4, <1>5

LEMMA VertsStay ==
  ASSUME [Next]_vars, \A v \in left : ~AddVertex(v)
  PROVE  verts' = verts
<1>1. CASE \E e \in left : AddEdge(e)
  BY <1>1 DEF AddEdge
<1>2. CASE \E s \in left : Resolve(s)
  BY <1>2 DEF Resolve
<1> QED BY <1>1, <1>2, GraphStays

LEMMA VerticesAddUp ==
  ASSUME IInv, AddedUp, AgreeSoFar, [Next]_vars
  PROVE  \A w : w \in verts' <=> Brought(w)'
<1>0. \A w : w \in verts <=> Brought(w)
  BY DEF AddedUp
<1> SUFFICES ASSUME NEW w PROVE w \in verts' <=> Brought(w)'
  OBVIOUS
<1>1. CASE \E v \in left : AddVertex(v)
  <2>1. PICK v \in left : AddVertex(v)
    BY <1>1
  <2>2. verts' = verts \cup {Relocated(v)} /\ Brought(Relocated(v))'
    BY <2>1, AddVertexAdds
  <2>3. Relocated(v)' = Relocated(v)
    BY <2>1 DEF AddVertex, Relocated
  <2>4. ASSUME w \in verts' PROVE Brought(w)'
    <3>1. CASE w = Relocated(v)
      BY <3>1, <2>2, <2>3
    <3>2. CASE w \in verts
      BY <3>2, <1>0, BroughtStays
    <3> QED BY <2>2, <2>4, <3>1, <3>2
  <2>5. ASSUME Brought(w)' PROVE w \in verts'
    <3>1. \A u \in left : AddVertex(u) => u = v
      BY <2>1 DEF AddVertex
    <3> QED BY <2>2, <2>5, <3>1, <1>0, BroughtBefore
  <2> QED BY <2>4, <2>5
<1>2. CASE \A v \in left : ~AddVertex(v)
  BY <1>0, <1>2, VertsStay, BroughtStays, BroughtBefore
<1> QED BY <1>1, <1>2

LEMMA GivenStays ==
  ASSUME IInv, [Next]_vars, NEW e, Given(e), edge'[e] = edge[e]
  PROVE  Given(e)'
<1>1. PICK i \in Numbering : \E d \in DOMAIN from[i].edge :
        e = <<To(i, d[1]), To(i, d[2])>> /\ edge[e] = from[i].edge[d]
  BY DEF Given
<1>2. PICK d \in DOMAIN from[i].edge :
        e = <<To(i, d[1]), To(i, d[2])>> /\ edge[e] = from[i].edge[d]
  BY <1>1
<1>3. i \in Numbering' /\ from' = from /\ i \in 1 .. n /\ (i < n \/ phase # "files")
  BY NumberingGrows, PhaseSteps DEF Numbering
<1>4. d[1] \in from[i].verts /\ d[2] \in from[i].verts
  BY <1>3, EdgesHaveVertices
<1>5. To(i, d[1])' = To(i, d[1]) /\ To(i, d[2])' = To(i, d[2])
  BY <1>3, <1>4, VerticesHaveFiles, ToStays
<1> QED BY <1>2, <1>3, <1>5 DEF Given

\* No vertex is a dummy vertex.
LEMMA VerticesAreNoSymbols == IInv => \A v \in verts : v \notin Symbols
<1>1. FilesOf(user, syst) \subseteq Int
  BY DEF FilesOf
<1>2. Ranges(FilesOf(user, syst)) \subseteq Ranges(Int)
  BY <1>1 DEF Ranges
<1> QED BY <1>2, LinkAssumption DEF IInv, Graph

\* What an edge of the collection joins, if the collections agree.
LEMMA AddEdgeAdds ==
  ASSUME IInv, AddedUp, AgreeSoFar, phase = "edges", NEW d \in left
  PROVE  /\ Find(Relocated(d[1])) = To(n, d[1]) /\ Find(Relocated(d[2])) = To(n, d[2])
         /\ d \in DOMAIN from[n].edge /\ n \in Numbering
<1>1. /\ d \in DOMAIN C.edge /\ d[1] \in C.verts /\ d[2] \in C.verts
      /\ Find(Relocated(d[1])) \in verts /\ Overlap(Find(Relocated(d[1])), Relocated(d[1]))
      /\ Find(Relocated(d[2])) \in verts /\ Overlap(Find(Relocated(d[2])), Relocated(d[2]))
  BY EndsFound DEF IInv
<1>2. ASSUME NEW v \in C.verts PROVE To(n, v) = Relocated(v) /\ Relocated(v) \in verts
  <2>1. n \in 1 .. n /\ v \in from[n].verts /\ To(n, v) = Relocated(v)
    BY LinkedVertex
  <2>2. Added(n, "vertices", v)
    BY DEF Added, Past
  <2>3. Brought(Relocated(v))
    BY <2>1, <2>2 DEF Brought
  <2> QED BY <2>1, <2>3 DEF AddedUp
<1>3. \A a, b \in verts : Overlap(a, b) => a = b
  BY DEF IInv, Graph
<1>4. n \in Numbering
  BY <1>1, LinkedVertex
<1> QED BY <1>1, <1>2, <1>3, <1>4 DEF C

LEMMA EdgesAddUp ==
  ASSUME IInv, AddedUp, AgreeSoFar, [Next]_vars,
         NEW e \in DOMAIN edge' \cap (verts' \X verts')
  PROVE  Given(e)' /\ (<<e[2], e[1]>> \in DOMAIN edge' => e[1] = e[2])
<1>0. /\ \A d \in DOMAIN edge \cap (verts \X verts) :
            Given(d) /\ (<<d[2], d[1]>> \in DOMAIN edge => d[1] = d[2])
  BY DEF AddedUp
<1>1. e[1] \in verts' /\ e[2] \in verts' /\ e = <<e[1], e[2]>>
  OBVIOUS
<1>2. e[1] \notin Symbols /\ e[2] \notin Symbols
  <2>1. IInv'
    BY IInvStep
  <2>2. (\A v \in verts : v \notin Symbols)'
    BY <2>1, VerticesAreNoSymbols, PTL
  <2> QED BY <1>1, <2>2
<1>3. ASSUME e \in DOMAIN edge PROVE e \in verts \X verts
  BY <1>2, <1>3, <1>1 DEF IInv, Graph
<1>4. ASSUME e \in DOMAIN edge, edge'[e] = edge[e],
             <<e[2], e[1]>> \in DOMAIN edge' => <<e[2], e[1]>> \in DOMAIN edge
      PROVE  Given(e)' /\ (<<e[2], e[1]>> \in DOMAIN edge' => e[1] = e[2])
  BY <1>0, <1>3, <1>4, GivenStays
<1>5. CASE \E d \in left : AddEdge(d)
  <2>1. PICK d \in left : AddEdge(d)
    BY <1>5
  <2> DEFINE a == Find(Relocated(d[1]))
             b == Find(Relocated(d[2]))
  <2>2. phase = "edges" /\ n' = n /\ phase' = phase /\ from' = from
    BY <2>1 DEF AddEdge
  <2>3. a = To(n, d[1]) /\ b = To(n, d[2]) /\ d \in DOMAIN from[n].edge /\ n \in Numbering
    BY <2>2, AddEdgeAdds
  <2>4. CASE <<b, a>> \in DOMAIN edge
    <3>1. edge' = edge
      BY <2>1, <2>4 DEF AddEdge
    <3> QED BY <3>1, <1>4
  <2>5. CASE <<b, a>> \notin DOMAIN edge
    <3>1. edge' = Put({<<a, b>>}, C.edge[d])
      BY <2>1, <2>5 DEF AddEdge
    <3> HIDE DEF a, b
    <3>2. DOMAIN edge' = DOMAIN edge \cup {<<a, b>>} /\ edge'[<<a, b>>] = C.edge[d]
      BY <3>1 DEF Put
    <3>3. CASE e = <<a, b>>
      <4>1. n \in 1 .. n /\ (n < n \/ phase # "files")
        BY <2>3 DEF Numbering
      <4>2. d[1] \in from[n].verts /\ d[2] \in from[n].verts
        BY <2>3, <4>1, EdgesHaveVertices
      <4>3. To(n, d[1])' = To(n, d[1]) /\ To(n, d[2])' = To(n, d[2])
        <5>1. /\ d[1].f \in FilesOf(from[n].user, from[n].syst)
              /\ d[2].f \in FilesOf(from[n].user, from[n].syst)
          BY <4>1, <4>2, VerticesHaveFiles
        <5> QED BY <5>1, <4>1, <2>2, ToStays
      <4>4. Given(e)'
        <5>1. n \in Numbering'
          BY <2>3, NumberingGrows
        <5> QED BY <5>1, <2>2, <2>3, <3>2, <3>3, <4>3 DEF Given, C
      <4>5. <<e[2], e[1]>> \in DOMAIN edge' => e[1] = e[2]
        BY <3>2, <3>3, <2>5
      <4> QED BY <4>4, <4>5
    <3>4. CASE e # <<a, b>>
      <4>1. e \in DOMAIN edge /\ edge'[e] = edge[e]
        BY <3>1, <3>2, <3>4 DEF Put
      <4>2. <<e[2], e[1]>> # <<a, b>>
        BY <4>1, <1>1, <2>5
      <4> QED BY <4>1, <4>2, <3>2, <1>4
    <3> QED BY <3>3, <3>4
  <2> QED BY <2>4, <2>5
<1>6. CASE \E s \in left : Resolve(s)
  <2>1. PICK s \in left : Resolve(s)
    BY <1>6
  <2>2. s \in Symbols
    BY <2>1 DEF Resolve, IInv, Looping
  <2> DEFINE E == {<<v, s>> : v \in Declared(s)} \cup {<<s, At(defs[s])>>}
  <2>3. edge' = edge \/ edge' = Put(E, "FWD_DECL")
    BY <2>1 DEF Resolve
  <2>4. e \notin E /\ <<e[2], e[1]>> \notin E
    BY <1>1, <1>2, <2>2
  <2> HIDE DEF E
  <2>5. /\ e \in DOMAIN edge /\ edge'[e] = edge[e]
        /\ <<e[2], e[1]>> \in DOMAIN edge' => <<e[2], e[1]>> \in DOMAIN edge
    BY <2>3, <2>4 DEF Put
  <2> QED BY <2>5, <1>4
<1>7. CASE (\A d \in left : ~AddEdge(d)) /\ (\A s \in left : ~Resolve(s))
  <2>1. edge' = edge
    <3>1. CASE \E v \in left : AddVertex(v)
      BY <3>1 DEF AddVertex
    <3> QED BY <3>1, <1>7, GraphStays
  <2> QED BY <2>1, <1>4
<1> QED BY <1>5, <1>6, <1>7

LEMMA AddedUpStep == IInv /\ AddedUp /\ [Next]_vars => AddedUp'
<1> SUFFICES ASSUME IInv, AddedUp, [Next]_vars, AgreeSoFar'
             PROVE  /\ \A w : w \in verts' <=> Brought(w)'
                    /\ \A e \in DOMAIN edge' \cap (verts' \X verts') :
                         Given(e)' /\ (<<e[2], e[1]>> \in DOMAIN edge' => e[1] = e[2])
  BY DEF AddedUp
<1>1. AgreeSoFar
  BY AgreedBefore
<1> QED BY <1>1, VerticesAddUp, EdgesAddUp

\* Once all collections have been linked, the names of the property are those of the invariant.
LEMMA AllAdded ==
  ASSUME IInv, phase \in {"resolve", "linked"}
  PROVE  /\ n = Len(from) /\ Numbering = 1 .. n
         /\ \A i \in 1 .. n : \A v : Added(i, "vertices", v)
<1>1. n = Len(from) /\ n \in Nat
  BY DEF IInv, Progress
<1> QED BY <1>1 DEF Numbering, Added, Past

LEMMA AddedUpIsEnough == IInv /\ AddedUp => AgreeingCollectionsAddUp
<1> SUFFICES ASSUME IInv, AddedUp, phase = "linked", Agree
             PROVE  /\ verts = UNION {{To(i, v) : v \in from[i].verts} : i \in 1 .. Len(from)}
                    /\ \A e \in DOMAIN edge \cap (verts \X verts) :
                         /\ \E i \in 1 .. Len(from) : \E d \in DOMAIN from[i].edge :
                              e = <<To(i, d[1]), To(i, d[2])>> /\ edge[e] = from[i].edge[d]
                         /\ <<e[2], e[1]>> \in DOMAIN edge => e[1] = e[2]
  BY DEF AgreeingCollectionsAddUp
<1>1. n = Len(from) /\ Numbering = 1 .. n /\ \A i \in 1 .. n : \A v : Added(i, "vertices", v)
  BY AllAdded
<1>2. AgreeSoFar
  BY <1>1 DEF Agree, AgreeSoFar
<1>3. \A w : w \in verts <=> \E i \in 1 .. n : \E v \in from[i].verts : w = To(i, v)
  BY <1>1, <1>2 DEF AddedUp, Brought
<1>4. verts = UNION {{To(i, v) : v \in from[i].verts} : i \in 1 .. n}
  BY <1>3
<1> QED BY <1>1, <1>2, <1>4 DEF AddedUp, Given

\* Whatever the collections and the order in which Boost and the hash tables hand out their
\* parts: if no piece of one overlaps another piece of another, link_into puts the sum of
\* them into the result, with one edge of each pair of opposites.
THEOREM AgreeingAddUp == Spec => []AgreeingCollectionsAddUp
<1>1. Init => AddedUp
  BY DEF Init, AddedUp, Brought
<1> QED BY <1>1, IInvInit, IInvStep, AddedUpStep, AddedUpIsEnough, PTL DEF Spec

-----------------------------------------------------------------------------
(* What was asked for is found.                                            *)

\* How far carbon-extract has come with what was asked for.
Asking ==
  /\ asked \in Requests
  /\ pending \in [places : SUBSET asked.places, symbols : SUBSET asked.symbols]
  /\ status \in {"linking", "looking", "found", "exit", "undefined"}
  /\ status = "linking" => pending = asked /\ targets = {}
  /\ status # "linking" => phase = "linked"
  /\ status = "found" => pending.places = {} /\ pending.symbols = {}

\* The places and symbols looked up have their vertices, if no look-up failed.
PlacesFound ==
  status \in {"looking", "found"} =>
    \A q \in asked.places \ pending.places : \E v \in targets :
      user[v.f + 1] = q[1] /\ v.beg <= q[2] /\ q[2] < v.end

SymbolsFound ==
  \A s \in asked.symbols \ pending.symbols, i \in 1 .. Len(from) :
    Defines(i, s) /\ Covered(To(i, from[i].defs[s])) =>
      \E v \in targets : Within(To(i, from[i].defs[s]), v)

\* Every vertex found is for one of them.
Counted ==
  /\ IsFiniteSet(targets)
  /\ Cardinality(targets) <= Cardinality(asked.places \ pending.places)
                              + Cardinality(asked.symbols \ pending.symbols)

GaveUp ==
  /\ status = "exit" => ~Agree \/ \E q \in asked.places : \A i \in 1 .. n : ~HasCode(i, q)
  /\ status = "undefined" =>
       \E q \in asked.places : \A i \in 1 .. n : \A j \in DOMAIN from[i].user :
         from[i].user[j] # q[1]

LookInv == Asking /\ PlacesFound /\ SymbolsFound /\ Counted /\ GaveUp
LinkInv == IInv /\ Firsts /\ AddedUp

\* A linked graph changes no more.
LEMMA LinkedStays ==
  ASSUME phase = "linked", [LookNext]_allVars
  PROVE  vars' = vars
<1>1. ~Next
  BY DEF Next, Read, Relocate, UserFile, SystFile, FilesDone, Files, LinkInto, AddVertex,
         VerticesDone, AddEdge, EdgesDone, AddDefinitions, AddPlace, LocsDone, ResolveReferences,
         AllRead, Resolve, Linked
<1> QED BY <1>1 DEF LookNext, LinkStep, StartLooking, LookPlace, LookSymbol, Looked, allVars

\* A user file that a collection has is the file of the result with its path.
LEMMA UserFileKnown ==
  ASSUME IInv, phase = "linked", NEW i \in 1 .. n, NEW f \in FilesOf(from[i].user, from[i].syst),
         f >= 0, NEW q, from[i].user[f + 1] = q[1]
  PROVE  Known(q) /\ FileOf(i, f) = PlaceOf(q).f
<1>1. PICK e : Names(e, user, syst, from[i], f)
  BY DEF IInv, Registered
<1>2. f \in Int /\ e \in Int /\ ~(f < 0) /\ ~(e < 0) /\ Len(user) \in Nat /\ Len(syst) \in Nat
      /\ e \in -Len(syst) .. Len(user) - 1 /\ user[e + 1] = q[1]
  BY <1>1 DEF Names, FilesOf, PathOf, IInv, Filed
<1>3. e + 1 \in DOMAIN user
  BY <1>2 DEF IInv, Filed
<1> DEFINE k == CHOOSE m \in DOMAIN user : user[m] = q[1]
<1>4. k = e + 1
  BY <1>2, <1>3 DEF IInv, Filed, NoTwice
<1>5. FileOf(i, f) = e
  BY <1>1, FileOfNames DEF IInv
<1>6. PlaceOf(q).f = k - 1
  BY DEF PlaceOf
<1>7. Known(q)
  BY <1>2, <1>3 DEF Known
<1> HIDE DEF k
<1> QED BY <1>2, <1>4, <1>5, <1>6, <1>7

\* Code of a collection is in the graph, if the collections agree.
LEMMA CodeIsCovered ==
  ASSUME LinkInv, phase = "linked", Agree, NEW q, q[2] \in Nat, NEW i \in 1 .. n, HasCode(i, q)
  PROVE  Covered(PlaceOf(q))
<1>1. PICK v \in from[i].verts : /\ v.f >= 0 /\ from[i].user[v.f + 1] = q[1]
                                 /\ v.beg <= q[2] /\ q[2] < v.end
  BY DEF HasCode
<1>2. v.f \in FilesOf(from[i].user, from[i].syst)
  BY VerticesHaveFiles DEF LinkInv
<1>3. FileOf(i, v.f) = PlaceOf(q).f
  BY <1>1, <1>2, UserFileKnown DEF LinkInv
<1>4. n = Len(from) /\ Numbering = 1 .. n /\ Added(i, "vertices", v)
  BY AllAdded DEF LinkInv
<1>5. AgreeSoFar
  BY <1>4 DEF Agree, AgreeSoFar
<1>6. To(i, v) \in verts
  BY <1>4, <1>5 DEF LinkInv, AddedUp, Brought
<1>7. v \in Ranges(FilesOf(from[i].user, from[i].syst))
  BY OneOfCollections DEF LinkInv, IInv, IsCollection
<1>8. To(i, v).f = PlaceOf(q).f /\ To(i, v).beg = v.beg /\ To(i, v).end = v.end
  BY <1>3, <1>7 DEF To, Ranges
<1>9. Within(PlaceOf(q), To(i, v))
  BY <1>1, <1>8 DEF Within, PlaceOf
<1> QED BY <1>6, <1>9 DEF Covered

LEMMA RequestParts ==
  ASSUME Asking
  PROVE  /\ IsFiniteSet(asked.places) /\ IsFiniteSet(asked.symbols)
         /\ asked.places \subseteq Paths \X Nat /\ asked.symbols \subseteq Symbols
         /\ asked = [places |-> asked.places, symbols |-> asked.symbols]
         /\ pending.places \subseteq asked.places /\ pending.symbols \subseteq asked.symbols
         /\ pending = [places |-> pending.places, symbols |-> pending.symbols]
BY LookupAssumption DEF Asking

\* One more of a finite set has been looked up, and at most one vertex has been found.
LEMMA OneMoreCounted ==
  ASSUME NEW S, IsFiniteSet(S), NEW P \in SUBSET S, NEW q \in P, NEW T, IsFiniteSet(T),
         NEW T2, T2 \subseteq T \/ \E v : T2 \subseteq T \cup {v}, NEW k \in Nat,
         Cardinality(T) <= Cardinality(S \ P) + k
  PROVE  IsFiniteSet(T2) /\ Cardinality(T2) <= Cardinality(S \ (P \ {q})) + k
<1>1. /\ S \ (P \ {q}) = (S \ P) \cup {q} /\ q \notin S \ P
  OBVIOUS
<1>2. IsFiniteSet(S \ P)
  BY FS_Subset
<1>3. Cardinality(S \ (P \ {q})) = Cardinality(S \ P) + 1 /\ Cardinality(S \ P) \in Nat
  BY <1>1, <1>2, FS_AddElement, FS_CardinalityType
<1>4. Cardinality(T) \in Nat
  BY FS_CardinalityType
<1>5. ASSUME NEW v PROVE IsFiniteSet(T \cup {v}) /\ Cardinality(T \cup {v}) <= Cardinality(T) + 1
  <2>1. /\ IsFiniteSet(T \cup {v})
        /\ Cardinality(T \cup {v}) = IF v \in T THEN Cardinality(T) ELSE Cardinality(T) + 1
    BY FS_AddElement
  <2> QED BY <2>1, <1>4
<1>6. CASE T2 \subseteq T
  <2>1. IsFiniteSet(T2) /\ Cardinality(T2) <= Cardinality(T) /\ Cardinality(T2) \in Nat
    BY <1>6, FS_Subset, FS_CardinalityType
  <2> QED BY <2>1, <1>3, <1>4
<1>7. CASE \E v : T2 \subseteq T \cup {v}
  <2>1. PICK v : T2 \subseteq T \cup {v}
    BY <1>7
  <2>2. IsFiniteSet(T2) /\ Cardinality(T2) <= Cardinality(T \cup {v}) /\ Cardinality(T2) \in Nat
        /\ Cardinality(T \cup {v}) \in Nat
    BY <2>1, <1>5, FS_Subset, FS_CardinalityType
  <2> QED BY <2>2, <1>3, <1>4, <1>5
<1> QED BY <1>6, <1>7

LEMMA LookPlaceInv ==
  ASSUME LinkInv, LookInv, NEW q \in pending.places, LookPlace(q)
  PROVE  LookInv'
<1>1. /\ status = "looking" /\ phase = "linked" /\ asked' = asked /\ vars' = vars
      /\ pending' = [pending EXCEPT !.places = @ \ {q}]
  BY DEF LookPlace, LookInv, Asking
<1>2. /\ from' = from /\ n' = n /\ phase' = phase /\ user' = user /\ syst' = syst /\ verts' = verts
  BY <1>1 DEF vars, files, graph
<1>3. /\ pending'.places = pending.places \ {q} /\ pending'.symbols = pending.symbols
      /\ pending' = [places |-> pending.places \ {q}, symbols |-> pending.symbols]
  BY <1>1, RequestParts DEF LookInv
<1>4. q \in asked.places /\ q \in Paths \X Nat /\ q[2] \in Nat
  BY RequestParts DEF LookInv
<1>5. /\ Agree' = Agree /\ (\A i : \A r : HasCode(i, r)' = HasCode(i, r))
  BY <1>2 DEF Agree, To, FileOf, HasCode
<1>6. /\ status' \in {"looking", "exit", "undefined"} /\ targets \subseteq targets'
      /\ targets' = targets \/ \E v : targets' = targets \cup {v}
  BY <1>1 DEF LookPlace
<1>7. Asking'
  BY <1>1, <1>2, <1>3, <1>6, RequestParts DEF LookInv, Asking
<1>8. PlacesFound'
  <2>1. SUFFICES ASSUME status' = "looking", NEW r \in asked.places \ (pending.places \ {q})
                 PROVE  \E v \in targets' : user[v.f + 1] = r[1] /\ v.beg <= r[2] /\ r[2] < v.end
    BY <1>1, <1>2, <1>3, <1>6 DEF PlacesFound
  <2>2. CASE r # q
    BY <2>2, <1>1, <1>6 DEF LookInv, PlacesFound
  <2>3. CASE r = q
    <3>1. Known(q) /\ Covered(PlaceOf(q)) /\ At(PlaceOf(q)) \in targets'
      BY <1>1, <2>1 DEF LookPlace
    <3>2. Within(PlaceOf(q), At(PlaceOf(q)))
      BY <3>1, AtIsThere
    <3> DEFINE k == CHOOSE m \in DOMAIN user : user[m] = q[1]
    <3>3. k \in DOMAIN user /\ user[k] = q[1]
      BY <3>1 DEF Known
    <3>4. k \in Int
      BY <3>3 DEF LinkInv, IInv, Filed
    <3>5. PlaceOf(q).f = k - 1 /\ PlaceOf(q).pos = q[2]
      BY DEF PlaceOf
    <3> DEFINE v == At(PlaceOf(q))
    <3>6. v.f = k - 1 /\ v.beg <= q[2] /\ q[2] < v.end
      BY <3>2, <3>5 DEF Within
    <3>7. user[v.f + 1] = q[1]
      <4> HIDE DEF k, v
      <4>1. v.f + 1 = k
        BY <3>4, <3>6
      <4> QED BY <4>1, <3>3
    <3> QED BY <3>1, <3>6, <3>7, <2>3
  <2> QED BY <2>2, <2>3
<1>9. SymbolsFound'
  <2>1. \A x : Covered(x)' = Covered(x)
    BY <1>2 DEF Covered
  <2>2. \A i, x : To(i, x)' = To(i, x)
    BY <1>2 DEF To, FileOf
  <2>3. \A i, s : Defines(i, s)' = Defines(i, s)
    BY <1>2 DEF Defines
  <2> QED BY <1>1, <1>2, <1>3, <1>6, <2>1, <2>2, <2>3 DEF LookInv, SymbolsFound
<1>10. Counted'
  <2>1. IsFiniteSet(asked.places) /\ pending.places \in SUBSET asked.places
        /\ Cardinality(asked.symbols \ pending.symbols) \in Nat
    BY RequestParts, FS_Subset, FS_CardinalityType DEF LookInv
  <2>2. IsFiniteSet(targets) /\ Cardinality(targets) <= Cardinality(asked.places \ pending.places)
                              + Cardinality(asked.symbols \ pending.symbols)
    BY DEF LookInv, Counted
  <2>3. IsFiniteSet(targets') /\ Cardinality(targets') <=
          Cardinality(asked.places \ (pending.places \ {q})) + Cardinality(asked.symbols \ pending.symbols)
    BY <2>1, <2>2, <1>6, OneMoreCounted
  <2> QED BY <2>3, <1>1, <1>3 DEF Counted
<1>11. GaveUp'
  <2>1. ASSUME status' = "exit", Agree, NEW i \in 1 .. n, HasCode(i, q) PROVE FALSE
    <3>1. ~Covered(PlaceOf(q))
      BY <1>1, <2>1 DEF LookPlace
    <3> QED BY <3>1, <2>1, <1>1, <1>4, CodeIsCovered
  <2>2. ASSUME status' = "undefined", NEW i \in 1 .. n, NEW j \in DOMAIN from[i].user, from[i].user[j] = q[1]
        PROVE  FALSE
    <3>1. ~Known(q)
      BY <1>1, <2>2 DEF LookPlace
    <3>2. from[i].user \in Seq(Paths) /\ from[i].syst \in Seq(Paths)
      BY OneOfCollections DEF LinkInv, IInv, IsCollection
    <3>3. j - 1 \in FilesOf(from[i].user, from[i].syst) /\ j - 1 >= 0 /\ j - 1 + 1 = j
      BY <3>2 DEF FilesOf
    <3> QED BY <3>1, <3>3, <2>2, <1>1, UserFileKnown DEF LinkInv
  <2> QED BY <2>1, <2>2, <1>1, <1>2, <1>4, <1>5 DEF GaveUp
<1> QED BY <1>7, <1>8, <1>9, <1>10, <1>11 DEF LookInv

LEMMA LookSymbolInv ==
  ASSUME LinkInv, LookInv, NEW s \in pending.symbols, LookSymbol(s)
  PROVE  LookInv'
<1>1. /\ status = "looking" /\ phase = "linked" /\ asked' = asked /\ vars' = vars /\ status' = status
      /\ pending' = [pending EXCEPT !.symbols = @ \ {s}]
      /\ targets' = targets \cup {At(x) : x \in {y \in DefinedAt(s) : Covered(y)}}
  BY DEF LookSymbol, LookInv, Asking
<1>2. /\ from' = from /\ n' = n /\ phase' = phase /\ user' = user /\ syst' = syst /\ verts' = verts
  BY <1>1 DEF vars, files, graph
<1>3. /\ pending'.symbols = pending.symbols \ {s} /\ pending'.places = pending.places
      /\ pending' = [places |-> pending.places, symbols |-> pending.symbols \ {s}]
  BY <1>1, RequestParts DEF LookInv
<1>4. s \in asked.symbols /\ s \in Symbols
  BY RequestParts DEF LookInv
<1>5. targets \subseteq targets'
  BY <1>1
<1>6. targets' \subseteq targets \/ \E v : targets' \subseteq targets \cup {v}
  <2>1. DefinedAt(s) = {} \/ \E y : DefinedAt(s) = {y}
    BY DEF DefinedAt
  <2> QED BY <2>1, <1>1
<1>7. Asking'
  BY <1>1, <1>2, <1>3, RequestParts DEF LookInv, Asking
<1>8. PlacesFound'
  BY <1>1, <1>2, <1>3, <1>5 DEF LookInv, PlacesFound
<1>9. SymbolsFound'
  <2>1. \A x : Covered(x)' = Covered(x)
    BY <1>2 DEF Covered
  <2>2. \A i, x : To(i, x)' = To(i, x)
    BY <1>2 DEF To, FileOf
  <2>3. \A i, r : Defines(i, r)' = Defines(i, r)
    BY <1>2 DEF Defines
  <2>4. ASSUME NEW i \in 1 .. Len(from), Defines(i, s), Covered(To(i, from[i].defs[s]))
        PROVE  \E v \in targets' : Within(To(i, from[i].defs[s]), v)
    <3> DEFINE d == from[i].defs[s]
    <3>1. n = Len(from) /\ i \in 1 .. n /\ DefsAdded(i)
      BY <1>1 DEF DefsAdded, LinkInv, IInv, Progress
    <3>2. d # None
      BY <2>4 DEF Defines
    <3>3. d.f \in FilesOf(from[i].user, from[i].syst) /\ d \in Places(Int)
      BY <3>1, <3>2, <1>4, PlaceOfDefinition DEF LinkInv
    <3>4. defs[s] = To(i, d)
      BY <3>1, <3>3, <2>4, <1>4 DEF LinkInv, Firsts
    <3>5. defs[s] # None
      BY <3>1, <3>3, <3>4, <1>1, ToIsPlace DEF LinkInv
    <3>6. To(i, d) \in {y \in DefinedAt(s) : Covered(y)}
      BY <3>4, <3>5, <2>4 DEF DefinedAt
    <3>7. At(To(i, d)) \in targets'
      BY <3>6, <1>1
    <3> QED BY <3>7, <2>4, AtIsThere
  <2>5. ASSUME NEW r \in asked.symbols \ (pending.symbols \ {s}), NEW i \in 1 .. Len(from),
               Defines(i, r), Covered(To(i, from[i].defs[r]))
        PROVE  \E v \in targets' : Within(To(i, from[i].defs[r]), v)
    <3>1. CASE r = s
      BY <3>1, <2>4, <2>5
    <3>2. CASE r # s
      BY <3>2, <2>5, <1>5 DEF LookInv, SymbolsFound
    <3> QED BY <3>1, <3>2
  <2> QED BY <1>1, <1>2, <1>3, <2>1, <2>2, <2>3, <2>5 DEF SymbolsFound
<1>10. Counted'
  <2>1. IsFiniteSet(asked.symbols) /\ pending.symbols \in SUBSET asked.symbols
        /\ Cardinality(asked.places \ pending.places) \in Nat
        /\ Cardinality(asked.symbols \ pending.symbols) \in Nat
    BY RequestParts, FS_Subset, FS_CardinalityType DEF LookInv
  <2>2. IsFiniteSet(targets) /\ Cardinality(targets) <= Cardinality(asked.symbols \ pending.symbols)
                              + Cardinality(asked.places \ pending.places)
    BY <2>1 DEF LookInv, Counted
  <2>3. IsFiniteSet(targets') /\ Cardinality(targets') <=
          Cardinality(asked.symbols \ (pending.symbols \ {s})) + Cardinality(asked.places \ pending.places)
    BY <2>1, <2>2, <1>6, OneMoreCounted
  <2>4. Cardinality(asked.symbols \ (pending.symbols \ {s})) \in Nat
    BY <2>1, FS_Subset, FS_CardinalityType
  <2> QED BY <2>1, <2>3, <2>4, <1>1, <1>3 DEF Counted
<1>11. GaveUp'
  BY <1>1 DEF GaveUp
<1> QED BY <1>7, <1>8, <1>9, <1>10, <1>11 DEF LookInv

\* The same graph and the same findings.
LEMMA NothingLooked ==
  ASSUME LookInv, vars' = vars, asked' = asked, pending' = pending, targets' = targets, Asking',
         status' = status \/ (status = "linking" /\ status' = "looking")
                          \/ (status = "looking" /\ status' = "found")
  PROVE  LookInv'
<1>1. /\ from' = from /\ n' = n /\ user' = user /\ syst' = syst /\ verts' = verts
  BY DEF vars, files, graph
<1>2. /\ Agree' = Agree /\ (\A i, r : HasCode(i, r)' = HasCode(i, r))
      /\ (\A x : Covered(x)' = Covered(x)) /\ (\A i, x : To(i, x)' = To(i, x))
      /\ (\A i, r : Defines(i, r)' = Defines(i, r))
  BY <1>1 DEF Agree, To, FileOf, HasCode, Covered, Defines
<1>3. PlacesFound'
  BY <1>1 DEF LookInv, PlacesFound, Asking
<1>4. SymbolsFound'
  BY <1>1, <1>2 DEF LookInv, SymbolsFound
<1>5. Counted'
  BY DEF LookInv, Counted
<1>6. GaveUp'
  BY <1>1, <1>2 DEF LookInv, GaveUp
<1> QED BY <1>3, <1>4, <1>5, <1>6 DEF LookInv

LEMMA LookInvStep == LinkInv /\ LookInv /\ [LookNext]_allVars => LookInv'
<1> SUFFICES ASSUME LinkInv, LookInv, [LookNext]_allVars PROVE LookInv'
  OBVIOUS
<1>1. CASE status = "linking" /\ LinkStep
  <2>1. /\ status' = "linking" /\ pending' = asked' /\ targets' = {} /\ asked' \in Requests
        /\ asked' = asked /\ pending' = pending
    BY <1>1 DEF LinkStep, lookVars, LookInv, Asking
  <2>2. Asking'
    BY <2>1 DEF LookInv, Asking
  <2>3. asked'.places \ pending'.places = {} /\ asked'.symbols \ pending'.symbols = {}
    BY <2>1
  <2>4. Counted'
    BY <2>1, <2>3, FS_EmptySet DEF Counted
  <2> QED BY <2>1, <2>2, <2>3, <2>4 DEF LookInv, PlacesFound, SymbolsFound, GaveUp
<1>2. CASE status # "linking" /\ LinkStep
  <2>1. phase = "linked" /\ vars' = vars
    BY <1>2, LinkedStays DEF LookInv, Asking
  <2>2. UNCHANGED <<asked, pending, targets, status>> /\ phase' = phase
    BY <2>1, <1>2 DEF LinkStep, lookVars, vars
  <2>3. Asking'
    BY <2>1, <2>2 DEF LookInv, Asking
  <2> QED BY <2>1, <2>2, <2>3, NothingLooked
<1>3. CASE StartLooking
  <2>1. Asking'
    BY <1>3 DEF StartLooking, LookInv, Asking, vars
  <2> QED BY <1>3, <2>1, NothingLooked DEF StartLooking
<1>4. CASE \E q \in pending.places : LookPlace(q)
  BY <1>4, LookPlaceInv
<1>5. CASE \E s \in pending.symbols : LookSymbol(s)
  BY <1>5, LookSymbolInv
<1>6. CASE Looked
  <2>1. Asking'
    BY <1>6 DEF Looked, LookInv, Asking, vars
  <2> QED BY <1>6, <2>1, NothingLooked DEF Looked
<1>7. CASE UNCHANGED allVars
  <2>1. vars' = vars /\ UNCHANGED <<asked, pending, targets, status, phase>>
    BY <1>7 DEF allVars, lookVars, vars
  <2>2. Asking'
    BY <2>1 DEF LookInv, Asking
  <2> QED BY <2>1, <2>2, NothingLooked
<1> QED BY <1>1, <1>2, <1>3, <1>4, <1>5, <1>6, <1>7 DEF LookNext

LEMMA LookInvInit == LookInit => LookInv
<1> SUFFICES ASSUME LookInit PROVE LookInv
  OBVIOUS
<1>1. asked \in Requests /\ pending = asked /\ targets = {} /\ status = "linking"
  BY DEF LookInit
<1>2. asked \in [places : SUBSET asked.places, symbols : SUBSET asked.symbols]
  BY <1>1, LookupAssumption
<1>3. Asking
  BY <1>1, <1>2 DEF Asking
<1>4. asked.places \ pending.places = {} /\ asked.symbols \ pending.symbols = {}
  BY <1>1
<1>5. Counted
  BY <1>1, <1>4, FS_EmptySet DEF Counted
<1> QED BY <1>1, <1>3, <1>4, <1>5 DEF LookInv, PlacesFound, SymbolsFound, GaveUp

LEMMA LookInvIsEnough == LinkInv /\ LookInv => AskedIsFound
<1> SUFFICES ASSUME LinkInv, LookInv PROVE AskedIsFound
  OBVIOUS
<1>1. ASSUME status = "found"
      PROVE  /\ asked.places \ pending.places = asked.places
             /\ asked.symbols \ pending.symbols = asked.symbols
  BY <1>1 DEF LookInv, Asking
<1> QED BY <1>1 DEF LookInv, PlacesFound, SymbolsFound, Counted, GaveUp, AskedIsFound

\* Whatever is linked and whatever is asked for, reachable_code finds it if the collections
\* have it, and gives up only where they do not (reachable.cpp:92-180).
THEOREM AskedFound == LookSpec => []AskedIsFound
<1>1. LookInit => LinkInv /\ LookInv
  <2>1. Init => AddedUp
    BY DEF Init, AddedUp, Brought
  <2> QED BY <2>1, IInvInit, ReachingInit, LookInvInit DEF LinkInv, LookInit
<1>2. [LookNext]_allVars => [Next]_vars
  BY DEF LookNext, LinkStep, StartLooking, LookPlace, LookSymbol, Looked, allVars
<1>3. LinkInv /\ [LookNext]_allVars => LinkInv'
  BY <1>2, IInvStep, FirstsStep, AddedUpStep DEF LinkInv
<1> QED BY <1>1, <1>3, LookInvStep, LookInvIsEnough, PTL DEF LookSpec

=============================================================================
