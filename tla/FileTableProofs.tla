--------------------------- MODULE FileTableProofs ---------------------------
(***************************************************************************)
(* The table of files stays a bijection between files and indices, for any *)
(* number of files, of inclusions, and whatever user code system headers   *)
(* include.                                                                *)
(***************************************************************************)
EXTENDS FileTable, SequenceTheorems, TLAPS

Fid == [file : Files, parent : Nat, sys : BOOLEAN]

HasFields(u) == DOMAIN u = {"user", "syst", "toplvl", "index", "died"}

\* What a header is noted for does not matter here.
IsSequence(s) == \E S : s \in Seq(S)

\* TypeOK of any table, with the types of what it consists of.
GoodTable(u) ==
  /\ HasFields(u)
  /\ u.user \in Seq(Files) /\ u.syst \in Seq(Files) /\ IsSequence(u.toplvl)
  /\ u.index \in [DOMAIN u.index -> Int]
  /\ \A i \in DOMAIN u.user : u.index[u.user[i]] = i - 1
  /\ \A i \in DOMAIN u.syst : u.index[u.syst[i]] = -i
  /\ DOMAIN u.index = {u.user[i] : i \in DOMAIN u.user} \cup {u.syst[i] : i \in DOMAIN u.syst}
  /\ Len(u.toplvl) = Len(u.syst)

\* No file is given another index.
Stable(u, w) == \A f \in DOMAIN u.index : f \in DOMAIN w.index /\ w.index[f] = u.index[f]

IInv == fids \in Seq(Fid) /\ GoodTable(t)

-----------------------------------------------------------------------------
\* Sequences of anything.
LEMMA AppendAnything ==
  ASSUME NEW s, IsSequence(s), NEW e
  PROVE  IsSequence(Append(s, e)) /\ Len(Append(s, e)) = Len(s) + 1
<1>1. PICK S : s \in Seq(S)
  BY DEF IsSequence
<1>2. s \in Seq(S \cup {e})
  BY <1>1
<1>3. Append(s, e) \in Seq(S \cup {e}) /\ Len(Append(s, e)) = Len(s) + 1
  BY <1>2
<1> QED BY <1>3 DEF IsSequence

LEMMA ReplaceAnything ==
  ASSUME NEW s, IsSequence(s), NEW k \in DOMAIN s, NEW e
  PROVE  IsSequence([s EXCEPT ![k] = e]) /\ Len([s EXCEPT ![k] = e]) = Len(s)
<1>1. PICK S : s \in Seq(S)
  BY DEF IsSequence
<1>2. s \in Seq(S \cup {e}) /\ k \in 1 .. Len(s)
  BY <1>1
<1>3. [s EXCEPT ![k] = e] \in Seq(S \cup {e}) /\ Len([s EXCEPT ![k] = e]) = Len(s)
  BY <1>2, ExceptSeq
<1> QED BY <1>3 DEF IsSequence

\* A list of files with one more at its end.
LEMMA AppendFile ==
  ASSUME NEW s \in Seq(Files), NEW f \in Files
  PROVE  LET w == Append(s, f)
         IN /\ w \in Seq(Files) /\ Len(s) \in Nat /\ Len(w) = Len(s) + 1
            /\ DOMAIN w = 1 .. Len(s) + 1 /\ DOMAIN s = 1 .. Len(s)
            /\ \A i \in DOMAIN s : w[i] = s[i]
            /\ w[Len(s) + 1] = f
            /\ {w[i] : i \in DOMAIN w} = {s[i] : i \in DOMAIN s} \cup {f}
<1> DEFINE w == Append(s, f)
<1>1. /\ w \in Seq(Files) /\ Len(s) \in Nat /\ Len(w) = Len(s) + 1
      /\ DOMAIN w = 1 .. Len(s) + 1 /\ DOMAIN s = 1 .. Len(s)
      /\ \A i \in DOMAIN s : w[i] = s[i]
      /\ w[Len(s) + 1] = f
  OBVIOUS
<1> HIDE DEF w
<1>2. {w[i] : i \in DOMAIN w} = {s[i] : i \in DOMAIN s} \cup {f}
  BY <1>1
<1> QED BY <1>1, <1>2 DEF w

\* A file of user code that is new is added at the end.
LEMMA AddUserGood ==
  ASSUME NEW u, GoodTable(u), NEW f \in Files, ~Known(u, f)
  PROVE  GoodTable(AddUser(u, f)) /\ Stable(u, AddUser(u, f))
<1> DEFINE w == AddUser(u, f)
<1>1. /\ w.user = Append(u.user, f) /\ w.syst = u.syst /\ w.toplvl = u.toplvl
      /\ w.index = Assign(u.index, f, Len(u.user)) /\ w.died = u.died /\ HasFields(w)
  BY DEF GoodTable, HasFields, AddUser
<1>2. /\ DOMAIN w.user = 1 .. Len(u.user) + 1 /\ DOMAIN u.user = 1 .. Len(u.user)
      /\ w.user \in Seq(Files) /\ Len(u.user) \in Nat
      /\ \A i \in DOMAIN u.user : w.user[i] = u.user[i]
      /\ w.user[Len(u.user) + 1] = f
      /\ {w.user[i] : i \in DOMAIN w.user} = {u.user[i] : i \in DOMAIN u.user} \cup {f}
  <2>1. u.user \in Seq(Files) /\ w.user = Append(u.user, f)
    BY <1>1 DEF GoodTable
  <2> HIDE DEF w
  <2> QED BY <2>1, AppendFile
<1>3. /\ DOMAIN w.index = DOMAIN u.index \cup {f} /\ w.index[f] = Len(u.user)
      /\ \A h \in DOMAIN u.index : w.index[h] = u.index[h]
      /\ w.index \in [DOMAIN w.index -> Int]
  BY <1>1, <1>2 DEF GoodTable, Assign, Known
<1> HIDE DEF w
<1>4. Stable(u, w)
  BY <1>3 DEF Stable
<1>5. \A i \in DOMAIN w.user : w.index[w.user[i]] = i - 1
  <2> TAKE i \in DOMAIN w.user
  <2>1. CASE i = Len(u.user) + 1
    BY <2>1, <1>2, <1>3
  <2>2. CASE i \in DOMAIN u.user
    BY <2>2, <1>2, <1>3 DEF GoodTable
  <2> QED BY <2>1, <2>2, <1>2
<1>6. \A i \in DOMAIN w.syst : w.index[w.syst[i]] = -i
  BY <1>1, <1>3 DEF GoodTable
<1>7. DOMAIN w.index = {w.user[i] : i \in DOMAIN w.user} \cup {w.syst[i] : i \in DOMAIN w.syst}
  <2>1. DOMAIN u.index = {u.user[i] : i \in DOMAIN u.user} \cup {u.syst[i] : i \in DOMAIN u.syst}
    BY DEF GoodTable
  <2> QED BY <2>1, <1>1, <1>2, <1>3
<1>8. GoodTable(w)
  BY <1>1, <1>2, <1>3, <1>5, <1>6, <1>7 DEF GoodTable
<1> QED BY <1>4, <1>8 DEF w

\* So is a new system header, whatever is said of its top-level header.
LEMMA AddSystGood ==
  ASSUME NEW u, GoodTable(u), NEW f \in Files, ~Known(u, f), NEW top
  PROVE  GoodTable(AddSyst(u, f, top)) /\ Stable(u, AddSyst(u, f, top))
<1> DEFINE w == AddSyst(u, f, top)
<1>1. /\ w.user = u.user /\ w.syst = Append(u.syst, f) /\ w.toplvl = Append(u.toplvl, top)
      /\ w.index = Assign(u.index, f, SystIndex(Len(u.syst))) /\ w.died = u.died /\ HasFields(w)
  BY DEF GoodTable, HasFields, AddSyst
<1>2. /\ DOMAIN w.syst = 1 .. Len(u.syst) + 1 /\ DOMAIN u.syst = 1 .. Len(u.syst)
      /\ w.syst \in Seq(Files) /\ Len(u.syst) \in Nat /\ Len(w.syst) = Len(u.syst) + 1
      /\ \A i \in DOMAIN u.syst : w.syst[i] = u.syst[i]
      /\ w.syst[Len(u.syst) + 1] = f
      /\ {w.syst[i] : i \in DOMAIN w.syst} = {u.syst[i] : i \in DOMAIN u.syst} \cup {f}
  <2>1. u.syst \in Seq(Files) /\ w.syst = Append(u.syst, f)
    BY <1>1 DEF GoodTable
  <2> HIDE DEF w
  <2> QED BY <2>1, AppendFile
<1>3. IsSequence(w.toplvl) /\ Len(w.toplvl) = Len(w.syst)
  <2>1. IsSequence(u.toplvl) /\ Len(u.toplvl) = Len(u.syst)
    BY DEF GoodTable
  <2>2. w.toplvl = Append(u.toplvl, top) /\ Len(w.syst) = Len(u.syst) + 1
    BY <1>1, <1>2
  <2> HIDE DEF w
  <2>3. IsSequence(w.toplvl) /\ Len(w.toplvl) = Len(u.toplvl) + 1
    BY <2>1, <2>2, AppendAnything
  <2> QED BY <2>1, <2>2, <2>3
<1>4. /\ DOMAIN w.index = DOMAIN u.index \cup {f} /\ w.index[f] = SystIndex(Len(u.syst))
      /\ \A h \in DOMAIN u.index : w.index[h] = u.index[h]
      /\ w.index \in [DOMAIN w.index -> Int]
  BY <1>1, <1>2 DEF GoodTable, Assign, Known, SystIndex
<1> HIDE DEF w
<1>5. Stable(u, w)
  BY <1>4 DEF Stable
<1>6. \A i \in DOMAIN w.syst : w.index[w.syst[i]] = -i
  <2> TAKE i \in DOMAIN w.syst
  <2>1. CASE i = Len(u.syst) + 1
    BY <2>1, <1>2, <1>4 DEF SystIndex
  <2>2. CASE i \in DOMAIN u.syst
    BY <2>2, <1>2, <1>4 DEF GoodTable
  <2> QED BY <2>1, <2>2, <1>2
<1>7. \A i \in DOMAIN w.user : w.index[w.user[i]] = i - 1
  BY <1>1, <1>4 DEF GoodTable
<1>8. DOMAIN w.index = {w.user[i] : i \in DOMAIN w.user} \cup {w.syst[i] : i \in DOMAIN w.syst}
  <2>1. DOMAIN u.index = {u.user[i] : i \in DOMAIN u.user} \cup {u.syst[i] : i \in DOMAIN u.syst}
    BY DEF GoodTable
  <2>2. DOMAIN w.index = {u.user[i] : i \in DOMAIN u.user} \cup {w.syst[i] : i \in DOMAIN w.syst}
    BY <2>1, <1>2, <1>4
  <2> QED BY <2>2, <1>1
<1>9. GoodTable(w)
  BY <1>1, <1>2, <1>3, <1>4, <1>6, <1>7, <1>8 DEF GoodTable
<1> QED BY <1>5, <1>9 DEF w

\* The other fields do not matter.
LEMMA SameLists ==
  ASSUME NEW u, GoodTable(u), NEW w, HasFields(w), IsSequence(w.toplvl),
         w.user = u.user, w.syst = u.syst, w.index = u.index, Len(w.toplvl) = Len(u.toplvl)
  PROVE  GoodTable(w) /\ Stable(u, w)
<1>1. /\ u.user \in Seq(Files) /\ u.syst \in Seq(Files) /\ u.index \in [DOMAIN u.index -> Int]
      /\ Len(u.toplvl) = Len(u.syst)
      /\ DOMAIN u.index = {u.user[i] : i \in DOMAIN u.user} \cup {u.syst[i] : i \in DOMAIN u.syst}
  BY Zenon DEF GoodTable
<1>2. /\ \A i \in DOMAIN u.user : u.index[u.user[i]] = i - 1
      /\ \A i \in DOMAIN u.syst : u.index[u.syst[i]] = -i
  BY Zenon DEF GoodTable
<1>3. /\ w.user \in Seq(Files) /\ w.syst \in Seq(Files) /\ w.index \in [DOMAIN w.index -> Int]
      /\ Len(w.toplvl) = Len(w.syst)
  BY <1>1, Zenon
<1>4. DOMAIN w.index = {w.user[i] : i \in DOMAIN w.user} \cup {w.syst[i] : i \in DOMAIN w.syst}
  BY <1>1, Zenon
<1>5. /\ \A i \in DOMAIN w.user : w.index[w.user[i]] = i - 1
      /\ \A i \in DOMAIN w.syst : w.index[w.syst[i]] = -i
  BY <1>2, Zenon
<1>6. GoodTable(w) BY <1>3, <1>4, <1>5, Zenon DEF GoodTable
<1>7. Stable(u, w) BY Zenon DEF Stable
<1> QED BY <1>6, <1>7

LEMMA StableTransitive ==
  ASSUME NEW u, NEW v, NEW w, Stable(u, v), Stable(v, w)
  PROVE  Stable(u, w)
BY DEF Stable

\* Both functions that register a file.
LEMMA AskFerGood ==
  ASSUME NEW u, GoodTable(u), NEW f \in Files
  PROVE  GoodTable(AskFer(u, f)) /\ Stable(u, AskFer(u, f))
BY AddUserGood, AddSystGood DEF AskFer, Stable

\* A top-level header that is overwritten, its own file's or another's, is not part of
\* the bijection.
LEMMA AskFidGood ==
  ASSUME NEW u, GoodTable(u), NEW n, fids[n].file \in Files, fids[n].sys \in BOOLEAN
  PROVE  GoodTable(AskFid(u, n)) /\ Stable(u, AskFid(u, n))
<1> DEFINE f == fids[n].file
           top == fids[Top[n]].file
           slot == IndexOf(u.index[f]) + 1
<1>1. CASE ~Known(u, f)
  <2>1. AskFid(u, n) = IF fids[n].sys THEN AddSyst(u, f, top) ELSE AddUser(u, f)
    BY <1>1 DEF AskFid
  <2> QED BY <2>1, <1>1, AddUserGood, AddSystGood
<1>2. CASE Known(u, f) /\ ~fids[n].sys
  <2>1. AskFid(u, n) = u
    BY <1>2 DEF AskFid
  <2> QED BY <2>1 DEF Stable
<1>3. CASE Known(u, f) /\ fids[n].sys
  <2>1. AskFid(u, n) = IF slot \in DOMAIN u.toplvl THEN [u EXCEPT !.toplvl[slot] = top]
                       ELSE [u EXCEPT !.died = TRUE]
    BY <1>3 DEF AskFid
  <2>2. CASE slot \in DOMAIN u.toplvl
    <3> DEFINE w == [u EXCEPT !.toplvl[slot] = top]
    <3>1. /\ w.user = u.user /\ w.syst = u.syst /\ w.index = u.index /\ HasFields(w)
          /\ w.toplvl = [u.toplvl EXCEPT ![slot] = top]
      BY DEF GoodTable, HasFields
    <3>2. IsSequence(w.toplvl) /\ Len(w.toplvl) = Len(u.toplvl)
      <4>1. IsSequence(u.toplvl)
        BY DEF GoodTable
      <4> QED BY <4>1, <3>1, <2>2, ReplaceAnything
    <3>3. w = AskFid(u, n)
      BY <2>1, <2>2
    <3> HIDE DEF w
    <3>4. GoodTable(w) /\ Stable(u, w)
      BY <3>1, <3>2, SameLists
    <3> QED BY <3>3, <3>4
  <2>3. CASE slot \notin DOMAIN u.toplvl
    <3> DEFINE w == [u EXCEPT !.died = TRUE]
    <3>1. /\ w.user = u.user /\ w.syst = u.syst /\ w.index = u.index /\ HasFields(w)
          /\ w.toplvl = u.toplvl
      BY DEF GoodTable, HasFields
    <3>2. w = AskFid(u, n)
      BY <2>1, <2>3
    <3> HIDE DEF w
    <3>3. GoodTable(w) /\ Stable(u, w)
      <4>1. IsSequence(u.toplvl)
        BY DEF GoodTable
      <4> QED BY <4>1, <3>1, SameLists
    <3> QED BY <3>2, <3>3
  <2> QED BY <2>2, <2>3
<1> QED BY <1>1, <1>2, <1>3

-----------------------------------------------------------------------------
LEMMA InitGood == Init => IInv
<1> SUFFICES ASSUME Init PROVE IInv
  OBVIOUS
<1>1. fids \in Seq(Fid)
  BY FileAssumption DEF Init, Fid
<1>2. GoodTable(t)
  <2>1. IsSequence(<<>>)
    <3>1. <<>> \in Seq({})
      OBVIOUS
    <3> QED BY <3>1 DEF IsSequence
  <2> QED BY <2>1 DEF Init, EmptyTable, GoodTable, HasFields
<1> QED BY <1>1, <1>2 DEF IInv

\* Every call leaves a good table, and one that continues the table before.
LEMMA StepGood == IInv /\ [Next]_vars => IInv' /\ Stable(t, t')
<1> SUFFICES ASSUME IInv, [Next]_vars PROVE IInv' /\ Stable(t, t')
  OBVIOUS
<1>0. fids \in Seq(Fid) /\ GoodTable(t)
  BY DEF IInv
<1>1. ASSUME NEW n \in DOMAIN fids
      PROVE  n \in Nat /\ fids[n].file \in Files /\ fids[n].sys \in BOOLEAN
  <2>1. n \in Nat /\ fids[n] \in Fid
    BY <1>0
  <2> QED BY <2>1 DEF Fid
<1>2. ASSUME NEW n \in DOMAIN fids, Mention(n) PROVE IInv' /\ Stable(t, t')
  <2>1. GoodTable(t') /\ Stable(t, t')
    BY <1>0, <1>1, <1>2, AskFidGood DEF Mention
  <2>2. GoodTable(t)'
    BY <2>1 DEF GoodTable
  <2> QED BY <2>1, <2>2, <1>0, <1>2 DEF Mention, IInv
<1>3. ASSUME NEW n \in DOMAIN fids, NEW f \in Files, NEW enters \in BOOLEAN,
             Inclusion(n, f, enters)
      PROVE  IInv' /\ Stable(t, t')
  <2>1. /\ GoodTable(AskFer(AskFid(t, n), f)) /\ Stable(t, AskFer(AskFid(t, n), f))
        /\ GoodTable(AskFid(AskFer(t, f), n)) /\ Stable(t, AskFid(AskFer(t, f), n))
    <3>1. GoodTable(AskFid(t, n)) /\ Stable(t, AskFid(t, n))
      BY <1>0, <1>1, AskFidGood
    <3>2. GoodTable(AskFer(t, f)) /\ Stable(t, AskFer(t, f))
      BY <1>0, AskFerGood
    <3>3. /\ GoodTable(AskFer(AskFid(t, n), f))
          /\ Stable(AskFid(t, n), AskFer(AskFid(t, n), f))
      BY <3>1, AskFerGood
    <3>4. /\ GoodTable(AskFid(AskFer(t, f), n))
          /\ Stable(AskFer(t, f), AskFid(AskFer(t, f), n))
      BY <3>2, <1>1, AskFidGood
    <3> QED BY <3>1, <3>2, <3>3, <3>4, StableTransitive
  <2>2. GoodTable(t') /\ Stable(t, t')
    BY <2>1, <1>3 DEF Inclusion
  <2>3. GoodTable(t)'
    BY <2>2 DEF GoodTable
  <2>4. fids' \in Seq(Fid)
    <3>1. [file |-> f, parent |-> n, sys |-> f \notin UserFiles \/ fids[n].sys] \in Fid
      BY <1>1 DEF Fid
    <3> QED BY <3>1, <1>0, <1>3 DEF Inclusion
  <2> QED BY <2>2, <2>3, <2>4 DEF IInv
<1>4. CASE UNCHANGED vars
  BY <1>0, <1>4 DEF vars, IInv, GoodTable, Stable
<1> QED BY <1>2, <1>3, <1>4 DEF Next

\* For any files and inclusions, every registered file has one index that leads back to
\* it, and system headers keep their slots for top-level headers.
THEOREM TableIsBijection == Spec => []TypeOK
<1>1. IInv => TypeOK
  BY DEF IInv, GoodTable, TypeOK
<1> QED BY <1>1, InitGood, StepGood, PTL DEF Spec

\* For any files and inclusions, no call changes the index of a registered file, though
\* the two functions that register files disagree on what a system header is.
THEOREM IndicesAreStable == Spec => IndexIsStable
<1>1. IInv /\ [Next]_vars => [\A f \in DOMAIN t.index : f \in DOMAIN t'.index /\ t'.index[f] = t.index[f]]_vars
  BY StepGood DEF Stable
<1> QED BY <1>1, InitGood, StepGood, PTL DEF Spec, IndexIsStable

-----------------------------------------------------------------------------
(* The top-level header of an inclusion: what the recursion up the chain of *)
(* #include's computes.  It has one solution since every inclusion comes    *)
(* after the one with its #include.                                         *)

IsTop(s, h) == h = [n \in 2 .. Len(s) |-> IF ~s[s[n].parent].sys THEN n ELSE h[s[n].parent]]

Climbing(s) ==
  /\ s \in Seq(Fid) /\ Len(s) >= 1 /\ ~s[1].sys
  /\ \A n \in 2 .. Len(s) : s[n].parent \in 1 .. n - 1
  /\ \E h : /\ IsTop(s, h) /\ \A n \in 2 .. Len(s) : h[n] \in 2 .. n
            /\ \A w : IsTop(s, w) => w = h

\* A new inclusion leaves the chains of the others what they were.
LEMMA ClimbsOn ==
  ASSUME NEW s, Climbing(s), NEW e \in Fid, e.parent \in DOMAIN s, NEW h, IsTop(s, h)
  PROVE  /\ Climbing(Append(s, e))
         /\ \A w : IsTop(Append(s, e), w) => \A n \in 2 .. Len(s) : w[n] = h[n]
<1> DEFINE l == Len(s)
           s2 == Append(s, e)
           up(n) == s2[n].parent
           top == IF ~s2[e.parent].sys THEN l + 1 ELSE h[e.parent]
           h2 == [n \in 2 .. l + 1 |-> IF n = l + 1 THEN top ELSE h[n]]
<1>1. /\ s \in Seq(Fid) /\ l \in Nat /\ l >= 1 /\ DOMAIN s = 1 .. l
      /\ s2 \in Seq(Fid) /\ Len(s2) = l + 1
      /\ \A n \in 1 .. l : s2[n] = s[n]
      /\ s2[l + 1] = e
  BY DEF Climbing
<1>2. \A n \in 2 .. l : s[n].parent \in 1 .. n - 1
  BY DEF Climbing
<1>3. e.parent \in 1 .. l
  BY <1>1
<1>4. ~s[1].sys
  BY DEF Climbing
<1> HIDE DEF s2, l
<1>5. \A n \in 2 .. l + 1 : up(n) \in 1 .. n - 1
  <2> TAKE n \in 2 .. l + 1
  <2>1. CASE n = l + 1
    BY <1>1, <1>3, <2>1
  <2>2. CASE n \in 2 .. l
    BY <1>1, <1>2, <2>2
  <2> QED BY <1>1, <2>1, <2>2
<1>6. ~s2[1].sys
  BY <1>1, <1>4
<1>7. h = [n \in 2 .. l |-> IF ~s[s[n].parent].sys THEN n ELSE h[s[n].parent]]
  BY DEF IsTop, l
<1>8. \A n \in 2 .. l : h[n] = IF ~s2[up(n)].sys THEN n ELSE h[up(n)]
  <2> TAKE n \in 2 .. l
  <2>1. s2[n] = s[n] /\ s2[s[n].parent] = s[s[n].parent]
    BY <1>1, <1>2
  <2>2. h[n] = IF ~s[s[n].parent].sys THEN n ELSE h[s[n].parent]
    BY <1>7, Zenon
  <2> QED BY <2>1, <2>2, Zenon
<1>9. \A n \in 2 .. l + 1 : h2[n] = IF ~s2[up(n)].sys THEN n ELSE h2[up(n)]
  <2> TAKE n \in 2 .. l + 1
  <2>1. up(n) \in 1 .. n - 1 /\ (s2[up(n)].sys => up(n) \in 2 .. l /\ up(n) # l + 1)
    BY <1>1, <1>5, <1>6
  <2>2. CASE n = l + 1
    <3>1. h2[n] = top /\ up(n) = e.parent
      BY <1>1, <2>2
    <3>2. s2[up(n)].sys => h2[up(n)] = h[up(n)]
      BY <1>1, <2>1
    <3> QED BY <2>2, <3>1, <3>2
  <2>3. CASE n # l + 1
    <3>1. n \in 2 .. l /\ h2[n] = h[n]
      BY <1>1, <2>3
    <3>2. s2[up(n)].sys => h2[up(n)] = h[up(n)]
      BY <1>1, <2>1
    <3> QED BY <1>8, <3>1, <3>2
  <2> QED BY <2>2, <2>3
<1>10. h2 = [n \in 2 .. l + 1 |-> IF ~s2[up(n)].sys THEN n ELSE h2[up(n)]]
  BY <1>9
<1>11. IsTop(s2, h2)
  BY <1>1, <1>10 DEF IsTop
<1>12. ASSUME NEW w, IsTop(s2, w)
       PROVE  w = h2 /\ \A n \in 2 .. l : w[n] = h[n]
  <2> DEFINE v == [n \in 2 .. l |-> w[n]]
  <2>1. w = [n \in 2 .. l + 1 |-> IF ~s2[up(n)].sys THEN n ELSE w[up(n)]]
    BY <1>1, <1>12 DEF IsTop
  <2>2. \A n \in 2 .. l : v[n] = IF ~s[s[n].parent].sys THEN n ELSE v[s[n].parent]
    <3> TAKE n \in 2 .. l
    <3>1. s2[n] = s[n] /\ s2[s[n].parent] = s[s[n].parent] /\ n \in 2 .. l + 1
      BY <1>1, <1>2
    <3>2. s[s[n].parent].sys => s[n].parent \in 2 .. l
      BY <1>1, <1>2, <1>4
    <3>3. v[n] = w[n]
      OBVIOUS
    <3>4. s[s[n].parent].sys => v[s[n].parent] = w[s[n].parent]
      BY <3>2
    <3>5. w[n] = IF ~s2[up(n)].sys THEN n ELSE w[up(n)]
      BY <2>1, <3>1, Zenon
    <3> HIDE DEF v
    <3> QED BY <3>1, <3>3, <3>4, <3>5, Zenon
  <2>3. v = [n \in 2 .. l |-> IF ~s[s[n].parent].sys THEN n ELSE v[s[n].parent]]
    BY <2>2
  <2>4. IsTop(s, v)
    BY <2>3 DEF IsTop, l
  <2>5. v = h
    BY <2>4 DEF Climbing
  <2>6. \A n \in 2 .. l : w[n] = h[n]
    BY <2>5
  <2>7. w[l + 1] = top
    <3>1. l + 1 \in 2 .. l + 1 /\ up(l + 1) = e.parent
      BY <1>1
    <3>2. s2[e.parent].sys => e.parent \in 2 .. l
      BY <1>1, <1>3, <1>6
    <3> QED BY <2>1, <2>6, <3>1, <3>2
  <2>8. \A n \in 2 .. l + 1 : w[n] = h2[n]
    <3> TAKE n \in 2 .. l + 1
    <3>1. n = l + 1 \/ n \in 2 .. l
      BY <1>1
    <3> QED BY <2>6, <2>7, <3>1, <1>1
  <2>9. w = [n \in 2 .. l + 1 |-> w[n]] /\ h2 = [n \in 2 .. l + 1 |-> h2[n]]
    BY <2>1
  <2>10. w = h2
    BY <2>8, <2>9
  <2> QED BY <2>6, <2>10
<1>13. Climbing(s2)
  <2>1. \A n \in 2 .. l : h[n] \in 2 .. n
    BY DEF Climbing, l
  <2>2. \A n \in 2 .. l + 1 : h2[n] \in 2 .. n
    <3> TAKE n \in 2 .. l + 1
    <3>1. n \in 2 .. l => h2[n] = h[n]
      BY <1>1
    <3>2. n = l + 1 \/ n \in 2 .. l
      BY <1>1
    <3>3. CASE n = l + 1
      <4>1. h2[n] = top /\ n \in 2 .. n
        BY <1>1, <3>3
      <4>2. s2[e.parent].sys => e.parent \in 2 .. l
        BY <1>1, <1>3, <1>6
      <4>3. s2[e.parent].sys => h[e.parent] \in 2 .. n
        BY <1>1, <2>1, <3>3, <4>2
      <4> QED BY <3>3, <4>1, <4>3
    <3> QED BY <2>1, <3>1, <3>2, <3>3
  <2>3. /\ IsTop(s2, h2) /\ \A n \in 2 .. Len(s2) : h2[n] \in 2 .. n
        /\ \A w : IsTop(s2, w) => w = h2
    BY <1>1, <1>11, <1>12, <2>2
  <2> HIDE DEF h2
  <2>4. \E g : /\ IsTop(s2, g) /\ \A n \in 2 .. Len(s2) : g[n] \in 2 .. n
               /\ \A w : IsTop(s2, w) => w = g
    BY <2>3
  <2> QED BY <1>1, <1>5, <1>6, <2>4 DEF Climbing
<1> QED BY <1>12, <1>13 DEF s2, l

\* The function Top of the model is the solution.
LEMMA TopIsTop ==
  Climbing(fids) => IsTop(fids, Top) /\ \A n \in 2 .. Len(fids) : Top[n] \in 2 .. n
<1>1. Climbing(fids) => IsTop(fids, Top)
  BY DEF Climbing, IsTop, Top
<1> QED BY <1>1 DEF Climbing

-----------------------------------------------------------------------------
(* Which list a file is in, and what is noted for a header.                *)

\* User headers are not included from system headers.
NoMixing == \A n \in DOMAIN fids : fids[n].sys => fids[n].file \notin UserFiles

\* The header noted for the i-th system header led to it.
LeadsTo(fs, top, u, i) ==
  u.toplvl[i] # None =>
    \E n \in 2 .. Len(fs) : /\ fs[n].file = u.syst[i] /\ fs[n].sys
                            /\ fs[top[n]].file = u.toplvl[i]

Led(fs, top, u) ==
  /\ GoodTable(u) /\ u.died = FALSE
  /\ \A i \in DOMAIN u.user : u.user[i] \in UserFiles
  /\ \A i \in DOMAIN u.syst : u.syst[i] \notin UserFiles /\ LeadsTo(fs, top, u, i)

\* Every entry of a header leads there, whichever function made it or filled it in.
LEMMA AppendedList ==
  ASSUME NEW s, IsSequence(s), NEW e
  PROVE  /\ Len(s) \in Nat /\ DOMAIN s = 1 .. Len(s) /\ DOMAIN Append(s, e) = 1 .. Len(s) + 1
         /\ \A i \in 1 .. Len(s) : Append(s, e)[i] = s[i]
         /\ Append(s, e)[Len(s) + 1] = e
<1>1. PICK S : s \in Seq(S)
  BY DEF IsSequence
<1>2. s \in Seq(S \cup {e}) /\ e \in S \cup {e}
  BY <1>1
<1> QED BY <1>2

LEMMA AddUserLed ==
  ASSUME NEW fs, NEW top, NEW u, Led(fs, top, u), NEW f \in Files \cap UserFiles, ~Known(u, f)
  PROVE  Led(fs, top, AddUser(u, f))
<1> DEFINE w == AddUser(u, f)
<1>1. GoodTable(u) /\ u.died = FALSE /\ IsSequence(u.user)
  BY DEF Led, GoodTable, IsSequence
<1>2. /\ w.user = Append(u.user, f) /\ w.syst = u.syst /\ w.toplvl = u.toplvl
      /\ w.died = u.died
  BY <1>1 DEF GoodTable, HasFields, AddUser
<1>3. GoodTable(w)
  BY <1>1, AddUserGood
<1> HIDE DEF w
<1>4. \A i \in DOMAIN w.user : w.user[i] \in UserFiles
  <2> TAKE i \in DOMAIN w.user
  <2>1. i = Len(u.user) + 1 \/ i \in DOMAIN u.user
    BY <1>1, <1>2, AppendedList
  <2> QED BY <1>1, <1>2, <2>1, AppendedList DEF Led
<1>5. \A i \in DOMAIN w.syst : w.syst[i] \notin UserFiles /\ LeadsTo(fs, top, w, i)
  BY <1>2 DEF Led, LeadsTo
<1> QED BY <1>1, <1>2, <1>3, <1>4, <1>5 DEF Led, w

LEMMA AddSystLed ==
  ASSUME NEW fs, NEW top, NEW u, Led(fs, top, u), NEW f \in Files \ UserFiles, ~Known(u, f),
         NEW h,
         h # None => \E n \in 2 .. Len(fs) : fs[n].file = f /\ fs[n].sys /\ fs[top[n]].file = h
  PROVE  Led(fs, top, AddSyst(u, f, h))
<1> DEFINE w == AddSyst(u, f, h)
<1>1. /\ GoodTable(u) /\ u.died = FALSE /\ IsSequence(u.syst) /\ IsSequence(u.toplvl)
      /\ Len(u.toplvl) = Len(u.syst)
  BY DEF Led, GoodTable, IsSequence
<1>2. /\ w.user = u.user /\ w.syst = Append(u.syst, f) /\ w.toplvl = Append(u.toplvl, h)
      /\ w.died = u.died
  BY <1>1 DEF GoodTable, HasFields, AddSyst
<1>3. GoodTable(w)
  BY <1>1, AddSystGood
<1> HIDE DEF w
<1>4. \A i \in DOMAIN w.user : w.user[i] \in UserFiles
  BY <1>2 DEF Led
<1>5. \A i \in DOMAIN w.syst : w.syst[i] \notin UserFiles /\ LeadsTo(fs, top, w, i)
  <2> TAKE i \in DOMAIN w.syst
  <2>1. i = Len(u.syst) + 1 \/ i \in DOMAIN u.syst
    BY <1>1, <1>2, AppendedList
  <2>2. CASE i \in DOMAIN u.syst
    <3>1. w.syst[i] = u.syst[i] /\ w.toplvl[i] = u.toplvl[i]
      BY <1>1, <1>2, <2>2, AppendedList
    <3>2. u.syst[i] \notin UserFiles /\ LeadsTo(fs, top, u, i)
      BY <2>2 DEF Led
    <3> QED BY <3>1, <3>2 DEF LeadsTo
  <2>3. CASE i = Len(u.syst) + 1
    <3>1. w.syst[i] = f /\ w.toplvl[i] = h
      BY <1>1, <1>2, <2>3, AppendedList
    <3> QED BY <3>1 DEF LeadsTo
  <2> QED BY <2>1, <2>2, <2>3
<1> QED BY <1>1, <1>2, <1>3, <1>4, <1>5 DEF Led, w

LEMMA AskFerLed ==
  ASSUME NEW fs, NEW top, NEW u, Led(fs, top, u), NEW f \in Files
  PROVE  Led(fs, top, AskFer(u, f))
BY AddUserLed, AddSystLed DEF AskFer

\* The slot that is overwritten is the header's own: its index is that of a system header.
LEMMA AskFidLed ==
  ASSUME Climbing(fids), NoMixing, NEW u, Led(fids, Top, u), NEW n \in DOMAIN fids,
         ~fids[n].sys => fids[n].file \in UserFiles
  PROVE  Led(fids, Top, AskFid(u, n))
<1> DEFINE f == fids[n].file
           h == fids[Top[n]].file
           slot == IndexOf(u.index[f]) + 1
<1>1. f \in Files /\ DOMAIN fids = 1 .. Len(fids) /\ Len(fids) \in Nat
      /\ fids[n].sys \in BOOLEAN /\ ~fids[1].sys
  <2>1. fids \in Seq(Fid) /\ ~fids[1].sys
    BY DEF Climbing
  <2>2. fids[n] \in Fid /\ DOMAIN fids = 1 .. Len(fids) /\ Len(fids) \in Nat
    BY <2>1
  <2> QED BY <2>1, <2>2 DEF Fid
<1>2. fids[n].sys => n \in 2 .. Len(fids) /\ f \notin UserFiles
  BY <1>1 DEF NoMixing
<1>3. CASE ~Known(u, f)
  <2>1. AskFid(u, n) = IF fids[n].sys THEN AddSyst(u, f, h) ELSE AddUser(u, f)
    BY <1>3 DEF AskFid
  <2>2. CASE fids[n].sys
    <3>1. f \in Files \ UserFiles
      BY <1>1, <1>2, <2>2
    <3>2. \E m \in 2 .. Len(fids) : fids[m].file = f /\ fids[m].sys /\ fids[Top[m]].file = h
      BY <1>2, <2>2
    <3> QED BY <1>3, <2>1, <2>2, <3>1, <3>2, AddSystLed
  <2>3. CASE ~fids[n].sys
    <3>1. f \in Files \cap UserFiles
      BY <1>1, <2>3
    <3> QED BY <1>3, <2>1, <2>3, <3>1, AddUserLed
  <2> QED BY <2>2, <2>3
<1>4. CASE Known(u, f) /\ ~fids[n].sys
  <2>1. AskFid(u, n) = u
    BY <1>4 DEF AskFid
  <2> QED BY <2>1
<1>5. CASE Known(u, f) /\ fids[n].sys
  <2>1. AskFid(u, n) = IF slot \in DOMAIN u.toplvl THEN [u EXCEPT !.toplvl[slot] = h]
                       ELSE [u EXCEPT !.died = TRUE]
    BY <1>5 DEF AskFid
  <2>2. GoodTable(u)
    BY DEF Led
  <2>3. /\ u.syst \in Seq(Files) /\ Len(u.syst) \in Nat /\ DOMAIN u.syst = 1 .. Len(u.syst)
        /\ IsSequence(u.toplvl) /\ Len(u.toplvl) = Len(u.syst)
    BY <2>2 DEF GoodTable
  <2>4. DOMAIN u.toplvl = DOMAIN u.syst
    BY <2>3, AppendedList
  <2>5. PICK i \in DOMAIN u.syst : u.syst[i] = f
    <3>1. f \in DOMAIN u.index /\ f \notin UserFiles
      BY <1>2, <1>5 DEF Known
    <3> QED BY <2>2, <3>1 DEF Led, GoodTable
  <2>6. slot = i
    <3>1. u.index[f] = -i
      BY <2>2, <2>5 DEF GoodTable
    <3>2. i \in Nat /\ i >= 1
      BY <2>3, <2>5
    <3> QED BY <3>1, <3>2 DEF IndexOf
  <2> DEFINE w == [u EXCEPT !.toplvl[i] = h]
  <2>7. AskFid(u, n) = w
    BY <2>1, <2>4, <2>5, <2>6
  <2>8. /\ w.user = u.user /\ w.syst = u.syst /\ w.died = u.died
        /\ w.toplvl = [u.toplvl EXCEPT ![i] = h]
    BY <2>2 DEF GoodTable, HasFields
  <2>9. GoodTable(w)
    BY <1>1, <2>2, <2>7, AskFidGood
  <2> HIDE DEF w
  <2>10. \A j \in DOMAIN w.user : w.user[j] \in UserFiles
    BY <2>8 DEF Led
  <2>11. \A j \in DOMAIN w.syst : w.syst[j] \notin UserFiles /\ LeadsTo(fids, Top, w, j)
    <3> TAKE j \in DOMAIN w.syst
    <3>1. u.syst[j] \notin UserFiles /\ LeadsTo(fids, Top, u, j)
      BY <2>8 DEF Led
    <3>2. j \in DOMAIN u.toplvl
      BY <2>4, <2>8
    <3>3. CASE j = i
      <4>1. w.toplvl[j] = h /\ w.syst[j] = f
        BY <2>5, <2>8, <3>2, <3>3
      <4> QED BY <1>2, <1>5, <2>8, <3>1, <4>1 DEF LeadsTo
    <3>4. CASE j # i
      <4>1. w.toplvl[j] = u.toplvl[j]
        BY <2>8, <3>2, <3>4
      <4> QED BY <2>8, <3>1, <4>1 DEF LeadsTo
    <3> QED BY <3>3, <3>4
  <2>12. u.died = FALSE
    BY DEF Led
  <2> QED BY <2>7, <2>8, <2>9, <2>10, <2>11, <2>12 DEF Led
<1> QED BY <1>3, <1>4, <1>5

\* What led to a header still does when more is included.
LEMMA LedOn ==
  ASSUME NEW fs, NEW top, NEW u, Led(fs, top, u), Climbing(fs), IsTop(fs, top),
         NEW e \in Fid, NEW top2, \A n \in 2 .. Len(fs) : top2[n] = top[n],
         \A n \in 2 .. Len(fs) : top[n] \in DOMAIN fs
  PROVE  Led(Append(fs, e), top2, u)
<1>1. /\ fs \in Seq(Fid) /\ Len(fs) \in Nat /\ DOMAIN fs = 1 .. Len(fs)
      /\ Len(Append(fs, e)) = Len(fs) + 1
      /\ \A n \in DOMAIN fs : Append(fs, e)[n] = fs[n]
  BY DEF Climbing
<1>2. ASSUME NEW i \in DOMAIN u.syst PROVE LeadsTo(Append(fs, e), top2, u, i)
  <2>1. LeadsTo(fs, top, u, i)
    BY DEF Led
  <2>2. \A n \in 2 .. Len(fs) : /\ n \in 2 .. Len(fs) + 1 /\ n \in DOMAIN fs
                                /\ top2[n] = top[n] /\ top[n] \in DOMAIN fs
    BY <1>1
  <2> QED BY <1>1, <2>1, <2>2 DEF LeadsTo
<1> QED BY <1>2 DEF Led

-----------------------------------------------------------------------------
LedInv ==
  /\ Climbing(fids) /\ Led(fids, Top, t)
  /\ \A n \in DOMAIN fids : ~fids[n].sys => fids[n].file \in UserFiles

LEMMA PrimedLed ==
  ASSUME Climbing(fids'), Led(fids', Top', t'),
         \A n \in DOMAIN fids' : ~fids'[n].sys => fids'[n].file \in UserFiles
  PROVE  LedInv'
<1>1. Climbing(fids)'
  BY DEF Climbing, IsTop
<1>2. GoodTable(t)'
  BY DEF Led, GoodTable, HasFields
<1>3. Led(fids, Top, t)'
  BY <1>2 DEF Led, LeadsTo
<1> QED BY <1>1, <1>3 DEF LedInv

LEMMA LedInit == Init => LedInv
<1> SUFFICES ASSUME Init PROVE LedInv
  OBVIOUS
<1>1. /\ fids = <<[file |-> Main, parent |-> 0, sys |-> FALSE]>> /\ fids \in Seq(Fid)
      /\ Len(fids) = 1 /\ fids[1] = [file |-> Main, parent |-> 0, sys |-> FALSE]
  BY FileAssumption DEF Init, Fid
<1>2. 2 .. Len(fids) = {}
  BY <1>1
<1>3. Climbing(fids)
  <2> DEFINE h == [n \in {} |-> n]
  <2>1. \A w : IsTop(fids, w) <=> w = h
    BY <1>2 DEF IsTop
  <2> HIDE DEF h
  <2>2. \E g : /\ IsTop(fids, g) /\ \A n \in 2 .. Len(fids) : g[n] \in 2 .. n
               /\ \A w : IsTop(fids, w) => w = g
    BY <1>2, <2>1
  <2>3. Len(fids) >= 1 /\ ~fids[1].sys
    BY <1>1
  <2>4. \A n \in 2 .. Len(fids) : fids[n].parent \in 1 .. n - 1
    BY <1>2
  <2> HIDE DEF Fid
  <2> QED BY <1>1, <2>2, <2>3, <2>4 DEF Climbing
<1>4. GoodTable(t)
  BY InitGood DEF IInv
<1>5. t.died = FALSE /\ t.user = <<>> /\ t.syst = <<>>
  BY DEF Init, EmptyTable
<1>6. Led(fids, Top, t)
  BY <1>4, <1>5 DEF Led
<1> QED BY <1>1, <1>3, <1>6, FileAssumption DEF LedInv

LEMMA LedStep == LedInv /\ NoMixing /\ [Next]_vars => LedInv'
<1> SUFFICES ASSUME LedInv, NoMixing, [Next]_vars PROVE LedInv'
  OBVIOUS
<1>1. /\ Climbing(fids) /\ Led(fids, Top, t)
      /\ \A n \in DOMAIN fids : ~fids[n].sys => fids[n].file \in UserFiles
  BY DEF LedInv
<1>2. CASE UNCHANGED fids /\ Led(fids, Top, t')
  <2>1. Top' = Top
    BY <1>2 DEF Top
  <2>2. Climbing(fids')
    BY <1>1, <1>2
  <2>3. Led(fids', Top', t')
    BY <1>2, <2>1
  <2> QED BY <1>1, <1>2, <2>2, <2>3, PrimedLed
<1>3. ASSUME NEW n \in DOMAIN fids, Mention(n) PROVE LedInv'
  BY <1>1, <1>2, <1>3, AskFidLed DEF Mention
<1>4. ASSUME NEW n \in DOMAIN fids, NEW f \in Files, NEW enters \in BOOLEAN,
             Inclusion(n, f, enters)
      PROVE  LedInv'
  <2>1. Led(fids, Top, t')
    BY <1>1, <1>4, AskFidLed, AskFerLed DEF Inclusion
  <2>2. CASE ~enters
    BY <1>2, <1>4, <2>1, <2>2 DEF Inclusion
  <2>3. CASE enters
    <3> DEFINE e == [file |-> f, parent |-> n, sys |-> f \notin UserFiles \/ fids[n].sys]
    <3>1. fids' = Append(fids, e)
      BY <1>4, <2>3 DEF Inclusion
    <3>2. fids \in Seq(Fid)
      BY <1>1 DEF Climbing
    <3>3. e \in Fid /\ e.parent \in DOMAIN fids
      BY <3>2 DEF Fid
    <3>4. e.file = f /\ (~e.sys => f \in UserFiles)
      OBVIOUS
    <3> HIDE DEF e
    <3>5. IsTop(fids, Top) /\ \A m \in 2 .. Len(fids) : Top[m] \in 2 .. m
      BY <1>1, TopIsTop
    <3>6. Climbing(fids')
      BY <1>1, <3>1, <3>3, <3>5, ClimbsOn
    <3>7. IsTop(fids', Top')
      <4>1. Climbing(fids)' => IsTop(fids, Top)'
        BY TopIsTop, PTL
      <4> QED BY <3>6, <4>1 DEF Climbing, IsTop
    <3>8. \A m \in 2 .. Len(fids) : Top'[m] = Top[m] /\ Top[m] \in DOMAIN fids
      <4>1. Len(fids) \in Nat /\ DOMAIN fids = 1 .. Len(fids)
        BY <3>2
      <4> QED BY <1>1, <3>1, <3>3, <3>5, <3>7, <4>1, ClimbsOn
    <3>9. Led(fids', Top', t')
      BY <1>1, <2>1, <3>1, <3>3, <3>5, <3>8, LedOn
    <3>10. \A m \in DOMAIN fids' : ~fids'[m].sys => fids'[m].file \in UserFiles
      <4>1. /\ Len(fids) \in Nat /\ DOMAIN fids = 1 .. Len(fids)
            /\ DOMAIN fids' = 1 .. Len(fids) + 1 /\ fids'[Len(fids) + 1] = e
            /\ \A m \in 1 .. Len(fids) : fids'[m] = fids[m]
        BY <3>1, <3>2, <3>3
      <4> QED BY <1>1, <3>4, <4>1
    <3> QED BY <3>6, <3>9, <3>10, PrimedLed
  <2> QED BY <2>2, <2>3
<1>5. CASE UNCHANGED vars
  BY <1>1, <1>2, <1>5 DEF vars
<1> QED BY <1>3, <1>4, <1>5 DEF Next

\* No system header has an #include of user code.
NoUserCodeInSystemHeaders == \A p \in Includes : p[1] \notin UserFiles => p[2] \notin UserFiles

LEMMA StepDoesNotMix ==
  ASSUME NoUserCodeInSystemHeaders, IInv, NoMixing, [Next]_vars
  PROVE  NoMixing'
<1>1. fids \in Seq(Fid)
  BY DEF IInv
<1>2. ASSUME NEW n \in DOMAIN fids, NEW f \in Files, NEW enters \in BOOLEAN,
             Inclusion(n, f, enters)
      PROVE  NoMixing'
  <2> DEFINE e == [file |-> f, parent |-> n, sys |-> f \notin UserFiles \/ fids[n].sys]
  <2>1. fids' = fids \/ fids' = Append(fids, e)
    BY <1>2 DEF Inclusion
  <2>2. e.sys => e.file \notin UserFiles
    <3>1. fids[n].sys => fids[n].file \notin UserFiles
      BY DEF NoMixing
    <3>2. <<fids[n].file, f>> \in Includes
      BY <1>2 DEF Inclusion
    <3> QED BY <3>1, <3>2 DEF NoUserCodeInSystemHeaders
  <2>3. e \in Fid
    BY <1>1 DEF Fid
  <2> HIDE DEF e
  <2>4. CASE fids' = fids
    BY <2>4 DEF NoMixing
  <2>5. CASE fids' = Append(fids, e)
    <3>1. /\ Len(fids) \in Nat /\ DOMAIN fids = 1 .. Len(fids)
          /\ DOMAIN fids' = 1 .. Len(fids) + 1 /\ fids'[Len(fids) + 1] = e
          /\ \A m \in 1 .. Len(fids) : fids'[m] = fids[m]
      BY <1>1, <2>3, <2>5
    <3> QED BY <2>2, <3>1 DEF NoMixing
  <2> QED BY <2>1, <2>4, <2>5
<1>3. CASE UNCHANGED fids
  BY <1>3 DEF NoMixing
<1> QED BY <1>2, <1>3 DEF Next, Mention, vars

\* For any files and inclusions, as long as no system header includes user code: the header
\* noted for a system header is one that user code included and that led to it.
THEOREM TopLevelHeadersLead ==
  ASSUME NoUserCodeInSystemHeaders
  PROVE  Spec => []TopLevelLeadsThere
<1>1. ASSUME LedInv PROVE TopLevelLeadsThere
  <2>1. Led(fids, Top, t) /\ fids \in Seq(Fid)
    BY <1>1 DEF LedInv, Climbing
  <2>2. 2 .. Len(fids) \subseteq DOMAIN fids
    BY <2>1
  <2> QED BY <2>1, <2>2 DEF Led, LeadsTo, TopLevelLeadsThere, GoodTable
<1>2. Init => NoMixing
  BY DEF Init, NoMixing
<1>3. LedInv /\ NoMixing /\ [Next]_vars => LedInv'
  BY LedStep
<1>4. IInv /\ NoMixing /\ [Next]_vars => NoMixing'
  BY StepDoesNotMix
<1> QED BY <1>1, <1>2, <1>3, <1>4, LedInit, InitGood, StepGood, PTL DEF Spec

=============================================================================
