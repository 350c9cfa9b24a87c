---------------------------- MODULE FlattenProofs ---------------------------
(***************************************************************************)
(* Code is read back as it was compiled, for every width of an offset, size *)
(* of a file, and number of inclusions, as long as its offsets fit; and     *)
(* --flatten expands #include's as the preprocessor does, for all files,    *)
(* whatever includes what, or gives up because there is no other way.       *)
(*                                                                         *)
(* A call of flatten_includes works from the back of a text that it changes *)
(* as it goes.  The invariant says of every call on the stack from which    *)
(* line on its text is expanded; before it, the text is the file's still    *)
(* (Lined, Pending).  Expansion is defined by recursion on the files that   *)
(* are not being expanded yet; that it and Flat exist at all is proved      *)
(* first, by induction on how many these are and on the length of a text.   *)
(***************************************************************************)
EXTENDS Flatten, FiniteSetTheorems, SequenceTheorems, TLAPS

-----------------------------------------------------------------------------
(* Offsets.                                                                *)

\* What fits is not changed by the type.
LEMMA ToIntFits ==
  ASSUME NEW x \in Int, -(IntMax + 1) <= x, x <= IntMax
  PROVE  ToInt(x) = x
<1>1. IntMax \in Nat /\ x + IntMax + 1 >= 0 /\ x + IntMax + 1 < Span /\ Span \in Nat
  BY OffsetsAssumption DEF Span
<1>2. (x + IntMax + 1) % Span = x + IntMax + 1
  BY <1>1
<1> QED BY <1>1, <1>2 DEF ToInt

LEMMA UnsignedFits ==
  ASSUME NEW x \in Nat, x <= IntMax
  PROVE  Unsigned(x) = x
<1>1. IntMax \in Nat /\ x < Span /\ Span \in Nat
  BY OffsetsAssumption DEF Span
<1> QED BY <1>1 DEF Unsigned

\* Multiplication, for solvers that know of sums only.
LEMMA Products ==
  ASSUME NEW N \in Nat, NEW j \in Int, NEW k \in Int, j <= k
  PROVE  /\ j * N \in Int /\ k * N \in Int /\ j * N <= k * N
         /\ (k - j) * N = k * N - j * N
         /\ j < k => j * N + N <= k * N
OBVIOUS

LEMMA Remainder ==
  ASSUME NEW N \in Nat, NEW k \in Nat, NEW p \in 0 .. N - 1
  PROVE  (p + k * N) % N = p
OBVIOUS

LEMMA SamePrefix ==
  ASSUME NEW S, NEW was \in Seq(S), NEW now \in Seq(S), NEW b \in Nat, NEW e \in Nat, b < e,
         e <= Len(was), e <= Len(now), SubSeq(now, 1, e) = SubSeq(was, 1, e)
  PROVE  SubSeq(now, b + 1, e) = SubSeq(was, b + 1, e)
<1>1. \A i \in 1 .. e : now[i] = was[i]
  <2>1. ASSUME NEW i \in 1 .. e PROVE SubSeq(now, 1, e)[i] = now[i] /\ SubSeq(was, 1, e)[i] = was[i]
    OBVIOUS
  <2> QED BY <2>1
<1> DEFINE s == SubSeq(now, b + 1, e)
           t == SubSeq(was, b + 1, e)
<1>2. s \in Seq(S) /\ t \in Seq(S) /\ Len(s) = e - b /\ Len(t) = e - b
  OBVIOUS
<1>3. ASSUME NEW i \in 1 .. e - b PROVE s[i] = t[i]
  <2>1. s[i] = now[b + i] /\ t[i] = was[b + i]
    OBVIOUS
  <2>2. b + i \in 1 .. e
    OBVIOUS
  <2> QED BY <2>1, <2>2, <1>1
<1> HIDE DEF s, t
<1>4. s = t
  BY <1>2, <1>3
<1> QED BY <1>4 DEF s, t

\* What the offsets of a vertex are, in whatever band.
LEMMA OffsetsOfBand ==
  ASSUME NEW N \in Nat, NEW k \in Nat, NEW b \in Nat, NEW e \in Nat, b < e, e <= N,
         e + k * N < IntMax, NEW r \in Bands(RangeIn(k, N, b, e), N)
  PROVE  \E h \in 0 .. k : r = [beg |-> b + h * N, end |-> e + h * N] /\ e + h * N < IntMax
<1>0. IntMax \in Nat /\ k * N \in Nat
  BY OffsetsAssumption
<1>1. RangeIn(k, N, b, e) = [beg |-> b + k * N, end |-> e + k * N]
  BY <1>0, ToIntFits DEF RangeIn
<1>2. PICK j \in 0 .. IntMax : /\ r = [beg |-> b + k * N - j * N, end |-> e + k * N - j * N]
                              /\ r.beg >= 0
  BY <1>1 DEF Bands, Lower, Valid
<1>3. j <= k
  <2>1. SUFFICES ASSUME k < j PROVE FALSE
    BY <1>0
  <2>2. k * N + N <= j * N
    BY <2>1, Products
  <2>3. b + k * N - j * N >= 0
    BY <1>2
  <2> QED BY <2>2, <2>3, <1>0, Products
<1>4. (k - j) * N = k * N - j * N /\ k - j \in 0 .. k /\ (k - j) * N <= k * N
  BY <1>3, Products
<1>5. b + k * N - j * N = b + (k - j) * N /\ e + k * N - j * N = e + (k - j) * N
  BY <1>0, <1>3, <1>4, Products
<1>6. e + (k - j) * N < IntMax
  BY <1>0, <1>4, Products
<1>7. r = [beg |-> b + (k - j) * N, end |-> e + (k - j) * N]
  BY <1>2, <1>5
<1> QED BY <1>4, <1>6, <1>7

\* Where these are read, in a file of M lines.
LEMMA SeekInBands ==
  ASSUME NEW N \in Nat, NEW M \in Nat, NEW k \in Nat, NEW b \in Nat, NEW e \in Nat, b < e,
         e <= N, e <= M, e + k * N < IntMax,
         NEW r \in Bands(RangeIn(k, N, b, e), N), r.beg < N \/ M = N
  PROVE  r # EntireFile /\ Seek(r, M) = b /\ b + r.end - r.beg = e
<1>1. PICK h \in 0 .. k : r = [beg |-> b + h * N, end |-> e + h * N] /\ e + h * N < IntMax
  BY OffsetsOfBand
<1>2. h \in Nat /\ h * N \in Nat /\ IntMax \in Nat /\ r.beg = b + h * N /\ r.end = e + h * N
  BY <1>1, Products, OffsetsAssumption
<1>3. Unsigned(r.beg) = b + h * N
  BY <1>1, <1>2, UnsignedFits
<1>4. (b + h * N) % M = b
  <2>1. CASE M = N
    BY <2>1, <1>2, Remainder
  <2>2. CASE b + h * N < N
    <3>1. ~(0 < h)
      <4>1. 0 < h => 0 * N + N <= h * N
        BY <1>2, Products
      <4> QED BY <4>1, <2>2, <1>2
    <3>2. b + h * N = b /\ b % M = b
      BY <3>1, <1>2
    <3> QED BY <3>2
  <2> QED BY <2>1, <2>2, <1>2
<1>5. r # EntireFile
  BY <1>1, <1>2 DEF EntireFile
<1> QED BY <1>2, <1>3, <1>4, <1>5 DEF Seek

\* Inputs do not change, and are as they were read: printable, if nothing intervened.
Recorded == IsCode(code)
            /\ piece \in Bands(RangeIn(code.k, Len(code.was), code.beg, code.end), Len(code.was))

Intact == /\ code.end + code.k * Len(code.was) < IntMax
          /\ code.end <= Len(code.now)
          /\ SubSeq(code.now, 1, code.end) = SubSeq(code.was, 1, code.end)
          /\ piece.beg < Len(code.was) \/ Len(code.now) = Len(code.was)
          /\ 0 \notin excluded

ReadInv == Recorded /\ (Intact => status \notin {"skipped", "died"})

LEMMA IntactIsPrinted ==
  ASSUME Recorded, Intact
  PROVE  /\ piece # EntireFile /\ Readable(piece, code.now)
         /\ Text(0) = SubSeq(code.was, code.beg + 1, code.end)
<1> DEFINE S == UserFiles \X Nat
<1>1. /\ code.was \in Seq(S) /\ code.now \in Seq(S)
      /\ code.k \in Nat /\ code.beg \in Nat /\ code.end \in Nat
      /\ code.beg < code.end /\ code.end <= Len(code.was)
      /\ piece \in Bands(RangeIn(code.k, Len(code.was), code.beg, code.end), Len(code.was))
  BY DEF Recorded, IsCode
<1>2. /\ code.end + code.k * Len(code.was) < IntMax /\ code.end <= Len(code.now)
      /\ SubSeq(code.now, 1, code.end) = SubSeq(code.was, 1, code.end)
      /\ piece.beg < Len(code.was) \/ Len(code.now) = Len(code.was)
  BY DEF Intact
<1> HIDE DEF S
<1>3. /\ piece # EntireFile /\ Readable(piece, code.now)
      /\ SourceText(piece, code.now) = SubSeq(code.was, code.beg + 1, code.end)
  <2> DEFINE was == code.was
             now == code.now
             k == code.k
             b == code.beg
             e == code.end
  <2>1. /\ was \in Seq(S) /\ now \in Seq(S) /\ k \in Nat /\ b \in Nat /\ e \in Nat
        /\ b < e /\ e <= Len(was) /\ e <= Len(now) /\ e + k * Len(was) < IntMax
        /\ SubSeq(now, 1, e) = SubSeq(was, 1, e)
        /\ piece \in Bands(RangeIn(k, Len(was), b, e), Len(was))
        /\ piece.beg < Len(was) \/ Len(now) = Len(was)
    BY <1>1, <1>2
  <2> HIDE DEF was, now, k, b, e
  <2> DEFINE N == Len(was)
             M == Len(now)
  <2>2. /\ N \in Nat /\ M \in Nat /\ e <= N /\ e <= M /\ e + k * N < IntMax
        /\ piece \in Bands(RangeIn(k, N, b, e), N) /\ (piece.beg < N \/ M = N)
    BY <2>1
  <2> HIDE DEF N, M
  <2>3. piece # EntireFile /\ Seek(piece, M) = b /\ b + piece.end - piece.beg = e
    <3>1. k \in Nat /\ b \in Nat /\ e \in Nat /\ b < e BY <2>1
    <3> QED BY <2>2, <3>1, SeekInBands
  <2>4. M > 0 /\ M = Len(now) BY <2>1, <2>2 DEF M
  <2>5. Readable(piece, now) BY <2>2, <2>3, <2>4 DEF Readable
  <2>6. SourceText(piece, now) = SubSeq(now, b + 1, e) BY <2>3, <2>4 DEF SourceText
  <2>7. SubSeq(now, b + 1, e) = SubSeq(was, b + 1, e)
    <3>1. e <= Len(was) /\ e <= Len(now) /\ b < e BY <2>1
    <3> QED BY <2>1, <3>1, SamePrefix
  <2> QED BY <2>3, <2>5, <2>6, <2>7 DEF was, now, k, b, e
<1> QED BY <1>3 DEF Text, Intact

LEMMA ReadInvHolds == Spec => []ReadInv
<1>1. Init => ReadInv
  BY FlattenAssumption DEF Init, ReadInv, Recorded
<1>2. ReadInv /\ [Next]_vars => ReadInv'
  <2> SUFFICES ASSUME ReadInv, [Next]_vars PROVE ReadInv'
    OBVIOUS
  <2>1. UNCHANGED inputs
    BY DEF Next, vars, ReadCode, Leave, GiveUp, Expand, Return, Flattened
  <2>2. Recorded' /\ (Intact' <=> Intact)
    BY <2>1 DEF ReadInv, Recorded, Intact, IsCode, inputs
  <2>3. Intact => status' \notin {"skipped", "died"}
    <3>1. CASE ReadCode
      BY <3>1, IntactIsPrinted DEF ReadCode, ReadInv, Intact
    <3>2. CASE UNCHANGED status
      BY <3>2 DEF ReadInv
    <3>3. CASE status' \in {"aborted", "flattened"}
      BY <3>3
    <3> QED BY <3>1, <3>2, <3>3 DEF Next, vars, Leave, GiveUp, Expand, Return, Flattened
  <2> QED BY <2>2, <2>3 DEF ReadInv
<1> QED BY <1>1, <1>2, PTL DEF Spec

\* Whatever the width of offsets, the size of the file and the number of inclusions: code
\* is printed as it was compiled (clang_source_range, collector_priv::code, source_text),
\* if its offsets fit and the file was not edited up to its end since.
THEOREM CodeIsPrintedAsCompiled == Spec => []PrintedAsCompiled
<1>1. ReadInv => PrintedAsCompiled
  BY IntactIsPrinted DEF ReadInv, Intact, PrintedAsCompiled
<1> QED BY <1>1, ReadInvHolds, PTL

-----------------------------------------------------------------------------
(* Texts that are put together, one file in another.                       *)

\* Induction over the natural numbers, for a set in place of a predicate.
LEMMA FromZero ==
  ASSUME NEW Z, 0 \in Z, \A n \in Nat : n \in Z => n + 1 \in Z
  PROVE  \A n \in Nat : n \in Z
<1> DEFINE M == {n \in Nat : n \notin Z}
           Less == {ss \in Nat \X Nat : ss[1] < ss[2]}
<1>1. SUFFICES ASSUME M # {} PROVE FALSE OBVIOUS
<1>2. IsWellFoundedOn(Less, Nat) BY NatLessThanWellFounded, Zenon DEF OpToRel
<1>3. \A m, n \in Nat : n < m => <<n, m>> \in Less OBVIOUS
<1>4. M \subseteq Nat OBVIOUS
<1> HIDE DEF Less
<1>5. PICK m \in M : \A n \in M : ~(<<n, m>> \in Less) BY <1>1, <1>2, <1>4, WFMin
<1>6. m \in Nat /\ m # 0 /\ m - 1 \in Nat /\ m - 1 < m BY <1>5
<1>7. m - 1 \notin M BY <1>3, <1>5, <1>6
<1> QED BY <1>5, <1>6, <1>7

\* The text from line k + 1 on: F[k].
Rests(s, T, F) ==
  /\ F \in [0 .. Len(s) -> Seq(T)] /\ F[Len(s)] = <<>>
  /\ \A k \in 0 .. Len(s) - 1 : F[k] = s[k + 1] \o F[k + 1]

\* There are such texts, found from the back.
LEMMA RestsExist ==
  ASSUME NEW T, NEW s \in Seq(Seq(T))
  PROVE  \E F : Rests(s, T, F)
<1> DEFINE n == Len(s)
           From(F, j) == \A k \in 0 .. n - 1 : k >= j => F[k] = s[k + 1] \o F[k + 1]
           Z == {m \in Nat : \E F \in [0 .. n -> Seq(T)] : F[n] = <<>> /\ From(F, n - m)}
<1>1. n \in Nat /\ \A k \in 0 .. n - 1 : s[k + 1] \in Seq(T) OBVIOUS
<1> HIDE DEF n
<1>2. 0 \in Z
  <2> DEFINE F == [k \in 0 .. n |-> <<>>]
  <2>1. F \in [0 .. n -> Seq(T)] /\ F[n] = <<>> BY <1>1
  <2>2. \A k \in 0 .. n - 1 : ~(k >= n - 0) BY <1>1
  <2> QED BY <2>1, <2>2
<1>3. ASSUME NEW m \in Nat, m \in Z PROVE m + 1 \in Z
  <2> DEFINE j == n - (m + 1)
  <2>1. PICK F \in [0 .. n -> Seq(T)] : F[n] = <<>> /\ From(F, n - m)
    BY <1>3
  <2>2. \E G \in [0 .. n -> Seq(T)] : G[n] = <<>> /\ From(G, j)
    <3>1. CASE j < 0
      <4>1. \A k \in 0 .. n - 1 : k >= j => (k >= n - m \/ k = j) BY <1>1
      <4>2. \A k \in 0 .. n - 1 : k # j BY <3>1
      <4>3. From(F, j) BY <2>1, <4>1, <4>2
      <4> QED BY <2>1, <4>3
    <3>2. CASE j >= 0
      <4> DEFINE x == s[j + 1] \o F[j + 1]
                 G == [F EXCEPT ![j] = x]
      <4>1. /\ j \in 0 .. n - 1 /\ j + 1 \in 0 .. n /\ j \in 0 .. n /\ n \in 0 .. n /\ j # n
            /\ j + 1 # j
        BY <1>1, <3>2
      <4>2. s[j + 1] \in Seq(T) /\ F[j + 1] \in Seq(T) BY <1>1, <2>1, <4>1
      <4>3. x \in Seq(T) BY <4>2, ConcatProperties
      <4>4. G \in [0 .. n -> Seq(T)] BY <2>1, <4>1, <4>3, Zenon
      <4>5. \A k \in 0 .. n : G[k] = IF k = j THEN x ELSE F[k] BY <2>1, Zenon
      <4>6. G[n] = <<>> BY <2>1, <4>1, <4>5
      <4> HIDE DEF G
      <4>7. ASSUME NEW k \in 0 .. n - 1, k >= j PROVE G[k] = s[k + 1] \o G[k + 1]
        <5>1. /\ k + 1 \in 0 .. n /\ k \in 0 .. n /\ k + 1 # j
              /\ k # j => k >= n - m
          BY <1>1, <4>1, <4>7
        <5>2. G[k + 1] = F[k + 1] BY <4>5, <5>1
        <5>3. CASE k = j BY <4>5, <5>1, <5>2, <5>3
        <5>4. CASE k # j
          <6>1. F[k] = s[k + 1] \o F[k + 1] BY <2>1, <5>1, <5>4
          <6>2. G[k] = F[k] BY <4>5, <5>1, <5>4
          <6> QED BY <5>2, <6>1, <6>2
        <5> QED BY <5>3, <5>4
      <4> QED BY <4>4, <4>6, <4>7
    <3>3. j < 0 \/ j >= 0 BY <1>1
    <3> QED BY <3>1, <3>2, <3>3, Zenon
  <2>3. m + 1 \in Nat OBVIOUS
  <2> QED BY <2>2, <2>3
<1>4. n \in Z
  <2> HIDE DEF Z
  <2> QED BY <1>1, <1>2, <1>3, FromZero
<1>5. PICK F \in [0 .. n -> Seq(T)] : F[n] = <<>> /\ From(F, n - n)
  BY <1>4
<1>6. \A k \in 0 .. n - 1 : k >= n - n BY <1>1
<1>7. \A k \in 0 .. n - 1 : F[k] = s[k + 1] \o F[k + 1] BY <1>5, <1>6
<1> QED BY <1>5, <1>7 DEF Rests, n

\* It is what Flat computes.
LEMMA FlatIs ==
  ASSUME NEW T, NEW s \in Seq(Seq(T)), NEW F, Rests(s, T, F)
  PROVE  Flat(s) = F[0] /\ Flat(s) \in Seq(T)
<1> DEFINE n == Len(s)
           Is(G) == G = [k \in 0 .. n |-> IF k = n THEN <<>> ELSE s[k + 1] \o G[k + 1]]
           G == CHOOSE H : Is(H)
<1>1. n \in Nat /\ F \in [0 .. n -> Seq(T)] /\ F[n] = <<>> BY DEF Rests
<1>2. Is(F)
  <2>1. ASSUME NEW k \in 0 .. n
        PROVE  F[k] = IF k = n THEN <<>> ELSE s[k + 1] \o F[k + 1]
    <3>1. k # n => k \in 0 .. n - 1 BY <1>1
    <3> QED BY <1>1, <3>1 DEF Rests
  <2> QED BY <1>1, <2>1
<1>3. Is(G)
  <2> HIDE DEF Is
  <2> QED BY <1>2
<1>4. Flat(s) = G[0]
  BY DEF Flat
<1> DEFINE Z == {m \in Nat : \A k \in 0 .. n : k >= n - m => G[k] = F[k]}
<1>5. \A k \in 0 .. n : G[k] = IF k = n THEN <<>> ELSE s[k + 1] \o G[k + 1]
  BY <1>3
<1>6. \A k \in 0 .. n : F[k] = IF k = n THEN <<>> ELSE s[k + 1] \o F[k + 1]
  BY <1>2
<1> HIDE DEF G
<1>7. 0 \in Z
  <2>1. \A k \in 0 .. n : k >= n - 0 => k = n BY <1>1
  <2>2. n \in 0 .. n /\ G[n] = F[n] BY <1>1, <1>5, <1>6
  <2> QED BY <2>1, <2>2
<1>8. ASSUME NEW m \in Nat, m \in Z PROVE m + 1 \in Z
  <2>1. ASSUME NEW k \in 0 .. n, k >= n - (m + 1) PROVE G[k] = F[k]
    <3>1. CASE k = n BY <1>5, <1>6, <3>1
    <3>2. CASE k # n
      <4>1. k + 1 \in 0 .. n /\ k + 1 >= n - m BY <1>1, <2>1, <3>2
      <4>2. G[k + 1] = F[k + 1] BY <1>8, <4>1
      <4> QED BY <1>5, <1>6, <3>2, <4>2
    <3> QED BY <3>1, <3>2
  <2> QED BY <2>1
<1>9. n \in Z
  <2> HIDE DEF Z, n
  <2> QED BY <1>1, <1>7, <1>8, FromZero
<1>10. 0 \in 0 .. n /\ 0 >= n - n BY <1>1
<1>11. G[0] = F[0] BY <1>9, <1>10
<1> QED BY <1>1, <1>4, <1>10, <1>11

\* A line of a text: its file, and its number there.
TextLines == UserFiles \X Nat
Texted == \A f \in UserFiles : Text(f) \in Seq(TextLines)

\* The lists of #include's.
Listed ==
  \A f \in UserFiles :
    /\ incs[f] \subseteq Nat \X Int
    /\ \A i \in incs[f] : i[2] >= 0 => i[2] \in UserFiles
    /\ \A i, j \in incs[f] : i[1] = j[1] => i = j

\* The #include in line i of f that is expanded.
Here(f, outer, i) == {j \in incs[f] : j[1] = i - 1 /\ j[2] >= 0 /\ j[2] \notin outer \cup {f}}

\* A file and those around it, and how many files it can still expand.
Scopes == UserFiles \X SUBSET UserFiles
Level(p) == Cardinality(UserFiles \ (p[2] \cup {p[1]}))

\* An #include that is expanded leaves fewer files to expand.
LEMMA Deeper ==
  ASSUME Listed, NEW p \in Scopes, NEW i, NEW j \in Here(p[1], p[2], i)
  PROVE  /\ <<j[2], p[2] \cup {p[1]}>> \in Scopes
         /\ Level(<<j[2], p[2] \cup {p[1]}>>) < Level(p)
         /\ Level(p) \in Nat /\ Level(<<j[2], p[2] \cup {p[1]}>>) \in Nat
<1> DEFINE q == <<j[2], p[2] \cup {p[1]}>>
           S == UserFiles \ (p[2] \cup {p[1]})
           R == UserFiles \ (q[2] \cup {q[1]})
<1>1. p[1] \in UserFiles /\ p[2] \in SUBSET UserFiles BY DEF Scopes
<1>2. j[2] \in UserFiles /\ j[2] \notin p[2] \cup {p[1]} BY <1>1 DEF Here, Listed
<1>3. q \in Scopes /\ q[1] = j[2] /\ q[2] = p[2] \cup {p[1]} BY <1>1, <1>2 DEF Scopes
<1>4. IsFiniteSet(UserFiles) BY FlattenAssumption
<1>5. IsFiniteSet(S) /\ S \subseteq UserFiles BY <1>4, FS_Subset
<1>6. R = S \ {j[2]} /\ j[2] \in S BY <1>2, <1>3
<1> HIDE DEF R, S
<1>7. IsFiniteSet(R) /\ Cardinality(R) = Cardinality(S) - 1 BY <1>5, <1>6, FS_RemoveElement
<1>8. Cardinality(R) \in Nat /\ Cardinality(S) \in Nat BY <1>5, <1>7, FS_CardinalityType
<1>9. Level(q) = Cardinality(R) /\ Level(p) = Cardinality(S) BY DEF Level, R, S
<1> QED BY <1>3, <1>7, <1>8, <1>9

\* These are never more than there are.
LEMMA Levels ==
  ASSUME NEW p \in Scopes
  PROVE  Level(p) \in Nat /\ Level(p) <= Cardinality(UserFiles) /\ Cardinality(UserFiles) \in Nat
<1> DEFINE S == UserFiles \ (p[2] \cup {p[1]})
<1>1. IsFiniteSet(UserFiles) /\ S \subseteq UserFiles BY FlattenAssumption
<1>2. /\ IsFiniteSet(S) /\ Cardinality(S) <= Cardinality(UserFiles)
      /\ Cardinality(S) \in Nat /\ Cardinality(UserFiles) \in Nat
  BY <1>1, FS_Subset, FS_CardinalityType
<1> QED BY <1>2 DEF Level

\* The texts of the lines of p, if E has those of the files they include.
LinesOf(E, p) == [i \in 1 .. Len(Text(p[1])) |-> InPlace(E, p[1], p[2], i)]

\* E is typed on scopes of a level below n, and so is what is made of it up to n.
LEMMA LinesTyped ==
  ASSUME Listed, Texted, NEW E, NEW n \in Nat,
         \A q \in Scopes : Level(q) < n => E[q] \in Seq(TextLines),
         NEW p \in Scopes, Level(p) <= n
  PROVE  LinesOf(E, p) \in Seq(Seq(TextLines))
<1>1. p[1] \in UserFiles /\ Text(p[1]) \in Seq(TextLines) BY DEF Scopes, Texted
<1>2. Len(Text(p[1])) \in Nat /\ DOMAIN Text(p[1]) = 1 .. Len(Text(p[1])) BY <1>1
<1>3. ASSUME NEW i \in 1 .. Len(Text(p[1])) PROVE InPlace(E, p[1], p[2], i) \in Seq(TextLines)
  <2>1. CASE Here(p[1], p[2], i) = {}
    <3>1. Text(p[1])[i] \in TextLines BY <1>1, <1>2
    <3>2. InPlace(E, p[1], p[2], i) = <<Text(p[1])[i]>> BY <2>1 DEF InPlace, Here
    <3> QED BY <3>1, <3>2
  <2>2. CASE Here(p[1], p[2], i) # {}
    <3> DEFINE j == CHOOSE k \in Here(p[1], p[2], i) : TRUE
               q == <<j[2], p[2] \cup {p[1]}>>
    <3>1. j \in Here(p[1], p[2], i) BY <2>2
    <3>2. InPlace(E, p[1], p[2], i) = E[q] BY <2>2 DEF InPlace, Here
    <3> HIDE DEF j
    <3>3. q \in Scopes /\ Level(q) < Level(p) /\ Level(q) \in Nat /\ Level(p) \in Nat
      BY <3>1, Deeper
    <3>4. Level(q) < n BY <3>3
    <3> QED BY <3>2, <3>3, <3>4
  <2> QED BY <2>1, <2>2
<1> QED BY <1>2, <1>3 DEF LinesOf

\* They depend on E at lower levels only.
LEMMA LinesSame ==
  ASSUME Listed, NEW E, NEW G, NEW p \in Scopes,
         \A q \in Scopes : Level(q) < Level(p) => E[q] = G[q]
  PROVE  LinesOf(E, p) = LinesOf(G, p)
<1>1. ASSUME NEW i \in 1 .. Len(Text(p[1]))
      PROVE  InPlace(E, p[1], p[2], i) = InPlace(G, p[1], p[2], i)
  <2>1. CASE Here(p[1], p[2], i) = {} BY <2>1 DEF InPlace, Here
  <2>2. CASE Here(p[1], p[2], i) # {}
    <3> DEFINE j == CHOOSE k \in Here(p[1], p[2], i) : TRUE
               q == <<j[2], p[2] \cup {p[1]}>>
    <3>1. j \in Here(p[1], p[2], i) BY <2>2
    <3>2. InPlace(E, p[1], p[2], i) = E[q] /\ InPlace(G, p[1], p[2], i) = G[q]
      BY <2>2 DEF InPlace, Here
    <3> HIDE DEF j
    <3>3. q \in Scopes /\ Level(q) < Level(p) BY <3>1, Deeper
    <3> QED BY <3>2, <3>3
  <2> QED BY <2>1, <2>2
<1> QED BY <1>1 DEF LinesOf

\* Texts put together are a text.
LEMMA FlatTyped ==
  ASSUME NEW T, NEW s \in Seq(Seq(T))
  PROVE  Flat(s) \in Seq(T)
BY RestsExist, FlatIs

\* There is a function of the kind Expansion chooses ...
LEMMA ExpansionExists ==
  ASSUME Listed, Texted
  PROVE  \E E \in [Scopes -> Seq(TextLines)] : \A p \in Scopes : E[p] = Flat(LinesOf(E, p))
<1> DEFINE Upto(E, n) == \A p \in Scopes : Level(p) < n => E[p] = Flat(LinesOf(E, p))
           Z == {n \in Nat : \E E \in [Scopes -> Seq(TextLines)] : Upto(E, n)}
<1>1. 0 \in Z
  <2> DEFINE E == [p \in Scopes |-> <<>>]
  <2>1. E \in [Scopes -> Seq(TextLines)] OBVIOUS
  <2>2. \A p \in Scopes : ~(Level(p) < 0) BY Levels
  <2> QED BY <2>1, <2>2
<1>2. ASSUME NEW n \in Nat, n \in Z PROVE n + 1 \in Z
  <2>1. PICK E \in [Scopes -> Seq(TextLines)] : Upto(E, n) BY <1>2
  <2> DEFINE G == [p \in Scopes |-> Flat(LinesOf(E, p))]
  <2>2. ASSUME NEW p \in Scopes PROVE Flat(LinesOf(E, p)) \in Seq(TextLines)
    <3>1. Level(p) \in Nat BY Levels
    <3>2. LinesOf(E, p) \in Seq(Seq(TextLines)) BY <3>1, LinesTyped
    <3> QED BY <3>2, FlatTyped
  <2>3. G \in [Scopes -> Seq(TextLines)] BY <2>2
  <2>4. ASSUME NEW p \in Scopes, Level(p) < n + 1 PROVE G[p] = Flat(LinesOf(G, p))
    <3>1. ASSUME NEW q \in Scopes, Level(q) < Level(p) PROVE E[q] = G[q]
      <4>1. Level(q) < n BY <2>4, <3>1, Levels
      <4> QED BY <2>1, <4>1
    <3> HIDE DEF G
    <3>2. LinesOf(E, p) = LinesOf(G, p) BY <3>1, LinesSame
    <3>3. G[p] = Flat(LinesOf(E, p)) BY DEF G
    <3> QED BY <3>2, <3>3
  <2> HIDE DEF G
  <2>5. Upto(G, n + 1) BY <2>4
  <2> QED BY <2>3, <2>5
<1> DEFINE m == Cardinality(UserFiles) + 1
<1>3. <<0, {}>> \in Scopes BY FlattenAssumption DEF Scopes
<1>4. m \in Nat /\ \A p \in Scopes : Level(p) < m BY <1>3, Levels
<1> HIDE DEF m
<1>5. m \in Z
  <2> HIDE DEF Z
  <2> QED BY <1>1, <1>2, <1>4, FromZero
<1>6. PICK E \in [Scopes -> Seq(TextLines)] : Upto(E, m) BY <1>5
<1> QED BY <1>4, <1>6

\* ... so that Expansion is one, and gives texts.
LEMMA ExpansionIs ==
  ASSUME Listed, Texted
  PROVE  \A p \in Scopes : /\ Expansion[p] \in Seq(TextLines)
                           /\ Expansion[p] = Flat(LinesOf(Expansion, p))
                           /\ LinesOf(Expansion, p) \in Seq(Seq(TextLines))
<1> DEFINE Is(E) == E = [p \in Scopes |-> Flat(LinesOf(E, p))]
           X == CHOOSE E : Is(E)
<1>1. Expansion = X BY DEF Expansion, Scopes, LinesOf
<1>2. \E E : Is(E)
  <2>1. PICK E \in [Scopes -> Seq(TextLines)] : \A p \in Scopes : E[p] = Flat(LinesOf(E, p))
    BY ExpansionExists
  <2>2. E = [p \in Scopes |-> E[p]] OBVIOUS
  <2> QED BY <2>1, <2>2
<1>3. Is(X)
  <2> HIDE DEF Is
  <2> QED BY <1>2
<1>4. \A p \in Scopes : X[p] = Flat(LinesOf(X, p)) BY <1>3
<1> HIDE DEF X
<1> DEFINE Z == {n \in Nat : \A p \in Scopes : Level(p) < n => X[p] \in Seq(TextLines)}
<1>5. 0 \in Z BY Levels
<1>6. ASSUME NEW n \in Nat, n \in Z PROVE n + 1 \in Z
  <2>1. ASSUME NEW p \in Scopes, Level(p) < n + 1 PROVE X[p] \in Seq(TextLines)
    <3>1. Level(p) <= n BY <2>1, Levels
    <3>2. LinesOf(X, p) \in Seq(Seq(TextLines)) BY <1>6, <3>1, LinesTyped
    <3> QED BY <1>4, <3>2, FlatTyped
  <2> QED BY <2>1
<1> DEFINE m == Cardinality(UserFiles) + 1
<1>7. <<0, {}>> \in Scopes BY FlattenAssumption DEF Scopes
<1>8. m \in Nat /\ \A p \in Scopes : Level(p) < m /\ Level(p) <= m BY <1>7, Levels
<1> HIDE DEF m
<1>9. m \in Z
  <2> HIDE DEF Z
  <2> QED BY <1>5, <1>6, <1>8, FromZero
<1>10. \A p \in Scopes : X[p] \in Seq(TextLines) BY <1>8, <1>9
<1>11. \A p \in Scopes : LinesOf(X, p) \in Seq(Seq(TextLines)) BY <1>8, <1>10, LinesTyped
<1> QED BY <1>1, <1>4, <1>10, <1>11

-----------------------------------------------------------------------------
(* What is true of the calls of flatten_includes.                          *)

\* A call of flatten_includes.
CallSet == [f : UserFiles, contents : Seq(TextLines), todo : SUBSET (Nat \X Int), at : Nat]

\* An #include that is not expanded where the files in A are.
Stays(i, A) == i[2] < 0 \/ i[2] \in A

\* R[n]: what comes in the place of lines n + 1 and up of f.
RestOf(R, f, O) == Rests(LinesOf(Expansion, <<f, O>>), TextLines, R)

\* Call c, made while the files in O are expanded, has replaced what it has to from some line on.
Lined(c, O) ==
  \E R, n :
    /\ RestOf(R, c.f, O) /\ n \in 0 .. Len(Text(c.f))
    /\ c.contents = SubSeq(Text(c.f), 1, n) \o R[n]
    /\ n = Len(Text(c.f)) \/ \A i \in c.todo : i[1] < n
    /\ \A i \in incs[c.f] \ c.todo : i[1] < n => Stays(i, O \cup {c.f})

\* It waits for the text of g, for line `at`.
Pending(c, O, g) ==
  /\ c.at < Len(Text(c.f)) /\ g \in UserFiles \ (O \cup {c.f})
  /\ <<c.at, g>> \in incs[c.f] \ c.todo
  /\ \A i \in c.todo : i[1] < c.at
  /\ \A i \in incs[c.f] \ c.todo : i[1] < c.at => Stays(i, O \cup {c.f})
  /\ \E R : /\ RestOf(R, c.f, O)
            /\ c.contents = SubSeq(Text(c.f), 1, c.at + 1) \o R[c.at + 1]

\* The files of the outermost n calls.
FilesOf(st, n) == {st[m].f : m \in 1 .. n}

\* The #include's of f, but for those in todo, are in its text, and of files in D.
Seen(f, todo, D) ==
  \A i \in incs[f] \ todo : i[2] >= 0 => i[1] < Len(Text(f)) /\ i[2] \in D

\* Files whose expansion has ended, in D, only include each other and those that are active.
Explored(st) ==
  \E D \in SUBSET UserFiles :
    /\ \A f \in D : Seen(f, {}, D \cup FilesOf(st, Len(st)))
    /\ \A n \in DOMAIN st : Seen(st[n].f, st[n].todo, D \cup FilesOf(st, Len(st)))

\* Every call but the last waits for the next one.
Stacked(st) ==
  /\ st \in Seq(CallSet) /\ st # <<>> /\ st[1].f = 0
  /\ \A n \in DOMAIN st : st[n].todo \subseteq incs[st[n].f] /\ st[n].f \in TakePart
  /\ \A n \in 1 .. Len(st) - 1 : Pending(st[n], FilesOf(st, n - 1), st[n + 1].f)
  /\ Lined(st[Len(st)], FilesOf(st, Len(st) - 1))
  /\ Explored(st)

-----------------------------------------------------------------------------
(* Lines that stay, and lines that are expanded.                           *)

\* What comes in the place of the lines of a file, line by line.
LEMMA RestParts ==
  ASSUME Listed, Texted, NEW f \in UserFiles, NEW O \in SUBSET UserFiles, NEW R, RestOf(R, f, O)
  PROVE  LET T == Text(f)
         IN /\ T \in Seq(TextLines) /\ Len(T) \in Nat
            /\ R \in [0 .. Len(T) -> Seq(TextLines)] /\ R[Len(T)] = <<>>
            /\ \A k \in 0 .. Len(T) - 1 :
                 R[k] = InPlace(Expansion, f, O, k + 1) \o R[k + 1]
            /\ R[0] = Expansion[<<f, O>>]
<1> DEFINE p == <<f, O>>
           s == LinesOf(Expansion, p)
<1>1. p \in Scopes /\ p[1] = f /\ p[2] = O BY DEF Scopes
<1>2. Text(f) \in Seq(TextLines) /\ Len(Text(f)) \in Nat BY DEF Texted
<1>3. s \in Seq(Seq(TextLines)) /\ Expansion[p] = Flat(s) BY <1>1, ExpansionIs
<1>4. /\ s = [i \in 1 .. Len(Text(f)) |-> InPlace(Expansion, f, O, i)]
      /\ Len(s) = Len(Text(f))
  <2>1. s = [i \in 1 .. Len(Text(f)) |-> InPlace(Expansion, f, O, i)] BY <1>1 DEF LinesOf
  <2> HIDE DEF s
  <2>2. DOMAIN s = 1 .. Len(s) /\ Len(s) \in Nat BY <1>3
  <2>3. DOMAIN s = 1 .. Len(Text(f)) BY <2>1
  <2>4. Len(s) = Len(Text(f)) BY <1>2, <2>2, <2>3
  <2> QED BY <2>1, <2>4
<1> HIDE DEF s
<1>5. Rests(s, TextLines, R) BY Zenon DEF RestOf, s
<1>6. R[0] = Expansion[p] BY <1>3, <1>5, FlatIs
<1>7. \A k \in 0 .. Len(Text(f)) - 1 : s[k + 1] = InPlace(Expansion, f, O, k + 1)
  BY <1>2, <1>4
<1> QED BY <1>2, <1>4, <1>5, <1>6, <1>7 DEF Rests

\* It is there for every file.
LEMMA RestExists ==
  ASSUME Listed, Texted, NEW f \in UserFiles, NEW O \in SUBSET UserFiles
  PROVE  \E R : RestOf(R, f, O)
<1>1. <<f, O>> \in Scopes BY DEF Scopes
<1>2. LinesOf(Expansion, <<f, O>>) \in Seq(Seq(TextLines)) BY <1>1, ExpansionIs
<1> QED BY <1>2, RestsExist DEF RestOf

\* A line that includes nothing, or nothing that is expanded, comes in its own place.
LEMMA LineStays ==
  ASSUME Listed, NEW f \in UserFiles, NEW O, NEW k \in Nat,
         \A i \in incs[f] : i[1] = k => Stays(i, O \cup {f})
  PROVE  InPlace(Expansion, f, O, k + 1) = <<Text(f)[k + 1]>>
<1>1. Here(f, O, k + 1) = {}
  <2> SUFFICES ASSUME NEW j \in Here(f, O, k + 1) PROVE FALSE OBVIOUS
  <2>1. j \in incs[f] /\ j[1] = k + 1 - 1 /\ j[2] >= 0 /\ j[2] \notin O \cup {f} BY DEF Here
  <2>2. k + 1 - 1 = k OBVIOUS
  <2>3. ~Stays(j, O \cup {f})
    <3>1. j[2] \in Int BY <2>1 DEF Listed
    <3> QED BY <2>1, <3>1 DEF Stays
  <2> QED BY <2>1, <2>2, <2>3
<1> QED BY <1>1 DEF InPlace, Here

\* Lines m + 1 to n of f stay.
Kept(f, O, m, n) == \A i \in incs[f] : m <= i[1] /\ i[1] < n => Stays(i, O \cup {f})

\* The text of f up to line n, and what comes in the place of the other lines.
Whole(f, R, n) == SubSeq(Text(f), 1, n) \o R[n]

\* Lines that stay are as good as what comes in their place.
LEMMA Plain ==
  ASSUME Listed, Texted, NEW f \in UserFiles, NEW O \in SUBSET UserFiles, NEW R, RestOf(R, f, O),
         NEW n \in 0 .. Len(Text(f)), NEW m \in 0 .. n,
         Kept(f, O, m, n)
  PROVE  Whole(f, R, n) = Whole(f, R, m)
<1> DEFINE T == Text(f)
           Z == {d \in Nat : d <= n - m => Whole(f, R, n) = Whole(f, R, n - d)}
<1>1. /\ T \in Seq(TextLines) /\ Len(T) \in Nat
      /\ R \in [0 .. Len(T) -> Seq(TextLines)]
      /\ \A k \in 0 .. Len(T) - 1 : R[k] = InPlace(Expansion, f, O, k + 1) \o R[k + 1]
  BY RestParts
<1> HIDE DEF T
<1>2. n \in Nat /\ m \in Nat /\ m <= n /\ n <= Len(T) /\ n - m \in Nat BY <1>1 DEF T
<1>3. ASSUME NEW k \in Nat, m <= k, k < n PROVE Whole(f, R, k) = Whole(f, R, k + 1)
  <2>1. k \in 0 .. Len(T) - 1 /\ k + 1 \in 0 .. Len(T) /\ k + 1 \in 1 .. Len(T) /\ 1 \in 1 .. Len(T)
    BY <1>1, <1>2, <1>3
  <2>2. \A i \in incs[f] : i[1] = k => Stays(i, O \cup {f}) BY <1>3 DEF Kept
  <2>3. R[k] = <<T[k + 1]>> \o R[k + 1] BY <1>1, <2>1, <2>2, LineStays DEF T
  <2>4. SubSeq(T, 1, k + 1) = SubSeq(T, 1, k) \o <<T[k + 1]>>
    <3>1. k + 1 - 1 = k OBVIOUS
    <3> QED BY <1>1, <2>1, <3>1, SubSeqRecursiveSecond
  <2>5. SubSeq(T, 1, k) \in Seq(TextLines) /\ <<T[k + 1]>> \in Seq(TextLines)
    BY <1>1, <2>1
  <2>6. R[k + 1] \in Seq(TextLines) BY <1>1, <2>1
  <2>7. \A a, b, c \in Seq(TextLines) : (a \o b) \o c = a \o (b \o c) BY ConcatAssociative
  <2>8. (SubSeq(T, 1, k) \o <<T[k + 1]>>) \o R[k + 1]
          = SubSeq(T, 1, k) \o (<<T[k + 1]>> \o R[k + 1])
    BY <2>5, <2>6, <2>7, Zenon
  <2> QED BY <2>3, <2>4, <2>8 DEF Whole, T
<1>4. 0 \in Z
  <2>1. n - 0 = n BY <1>2
  <2> QED BY <2>1
<1>5. ASSUME NEW d \in Nat, d \in Z PROVE d + 1 \in Z
  <2>1. ASSUME d + 1 <= n - m PROVE Whole(f, R, n) = Whole(f, R, n - (d + 1))
    <3>1. /\ n - (d + 1) \in Nat /\ m <= n - (d + 1) /\ n - (d + 1) < n
          /\ n - (d + 1) + 1 = n - d /\ d <= n - m
      BY <1>2, <2>1
    <3>2. Whole(f, R, n - (d + 1)) = Whole(f, R, n - d) BY <1>3, <3>1
    <3> QED BY <1>5, <3>1, <3>2
  <2> QED BY <2>1
<1>6. n - m \in Z
  <2> HIDE DEF Z
  <2> QED BY <1>2, <1>4, <1>5, FromZero
<1>7. n - (n - m) = m BY <1>2
<1>8. Whole(f, R, n) = Whole(f, R, m) BY <1>2, <1>6, <1>7
<1> QED BY <1>8

\* The first lines of a text, and others after them.
LEMMA PrefixParts ==
  ASSUME NEW S, NEW T \in Seq(S), NEW Q \in Seq(S), NEW n \in 0 .. Len(T)
  PROVE  LET P == SubSeq(T, 1, n)
         IN /\ P \in Seq(S) /\ Len(P) = n /\ n \in Nat
            /\ P \o Q \in Seq(S) /\ Len(P \o Q) = n + Len(Q)
            /\ \A m \in 0 .. n : SubSeq(P \o Q, 1, m) = SubSeq(T, 1, m)
            /\ SubSeq(P \o Q, n + 1, Len(P \o Q)) = Q
<1> DEFINE P == SubSeq(T, 1, n)
           W == P \o Q
<1>1. Len(T) \in Nat /\ n \in Nat /\ n <= Len(T) /\ Len(Q) \in Nat OBVIOUS
<1>2. P \in Seq(S) /\ Len(P) = n /\ \A i \in 1 .. n : P[i] = T[i] BY <1>1
<1> HIDE DEF P
<1>3. W \in Seq(S) /\ Len(W) = n + Len(Q)
      /\ \A i \in 1 .. n + Len(Q) : W[i] = IF i <= n THEN P[i] ELSE Q[i - n]
  BY <1>2, ConcatProperties
<1> HIDE DEF W
<1>4. ASSUME NEW m \in 0 .. n PROVE SubSeq(W, 1, m) = SubSeq(T, 1, m)
  <2> DEFINE a == SubSeq(W, 1, m)
             b == SubSeq(T, 1, m)
  <2>1. m \in Nat /\ m <= n BY <1>1
  <2>2. a \in Seq(S) /\ Len(a) = m /\ \A i \in 1 .. m : a[i] = W[i] BY <1>1, <1>3, <2>1
  <2>3. b \in Seq(S) /\ Len(b) = m /\ \A i \in 1 .. m : b[i] = T[i] BY <1>1, <2>1
  <2>4. \A i \in 1 .. m : W[i] = T[i] BY <1>1, <1>2, <1>3, <2>1
  <2> HIDE DEF a, b
  <2>5. a = b BY <2>2, <2>3, <2>4, SeqEqual
  <2> QED BY <2>5 DEF a, b
<1>5. SubSeq(W, n + 1, Len(W)) = Q
  <2> DEFINE a == SubSeq(W, n + 1, Len(W))
  <2>1. a \in Seq(S) /\ Len(a) = Len(Q) /\ \A i \in 1 .. Len(Q) : a[i] = W[n + i]
    BY <1>1, <1>3
  <2>2. \A i \in 1 .. Len(Q) : W[n + i] = Q[i]
    <3>1. ASSUME NEW i \in 1 .. Len(Q)
          PROVE  n + i \in 1 .. n + Len(Q) /\ ~(n + i <= n) /\ n + i - n = i
      BY <1>1
    <3> QED BY <1>3, <3>1
  <2> HIDE DEF a
  <2>3. a = Q BY <2>1, <2>2, SeqEqual
  <2> QED BY <2>3 DEF a
<1> QED BY <1>1, <1>2, <1>3, <1>4, <1>5 DEF P, W

\* Calls, and the files around them.
IsCall(c, O) == /\ c \in CallSet /\ c.todo \subseteq incs[c.f]
                /\ O \in SUBSET UserFiles /\ Listed /\ Texted

\* The place of an #include is in the text as it has become if it was in that of the file.
LEMMA LinedParts ==
  ASSUME NEW c, NEW O, IsCall(c, O), Lined(c, O)
  PROVE  /\ c.contents \in Seq(TextLines) /\ Len(c.contents) \in Nat /\ Len(Text(c.f)) \in Nat
         /\ \A i \in c.todo : /\ i[1] \in Nat
                              /\ i[1] >= Len(c.contents) => i[1] >= Len(Text(c.f))
                              /\ i[1] < Len(c.contents) => i[1] < Len(Text(c.f))
<1> DEFINE T == Text(c.f)
<1>1. c.f \in UserFiles BY DEF IsCall, CallSet
<1>2. PICK R, n :
        /\ RestOf(R, c.f, O) /\ n \in 0 .. Len(T)
        /\ c.contents = SubSeq(T, 1, n) \o R[n]
        /\ n = Len(T) \/ \A i \in c.todo : i[1] < n
  BY DEF Lined
<1>3. /\ T \in Seq(TextLines) /\ Len(T) \in Nat
      /\ R \in [0 .. Len(T) -> Seq(TextLines)] /\ R[Len(T)] = <<>>
  BY <1>1, <1>2, RestParts DEF IsCall
<1> HIDE DEF T
<1>4. R[n] \in Seq(TextLines) /\ n \in Nat /\ n <= Len(T) /\ Len(R[n]) \in Nat BY <1>2, <1>3
<1>5. c.contents \in Seq(TextLines) /\ Len(c.contents) = n + Len(R[n])
  BY <1>2, <1>3, <1>4, PrefixParts
<1>6. n = Len(T) => Len(c.contents) = Len(T)
  BY <1>3, <1>4, <1>5
<1>7. ASSUME NEW i \in c.todo
      PROVE  /\ i[1] \in Nat
             /\ i[1] >= Len(c.contents) => i[1] >= Len(T)
             /\ i[1] < Len(c.contents) => i[1] < Len(T)
  <2>1. i[1] \in Nat BY <1>1 DEF IsCall, Listed
  <2> QED BY <1>2, <1>3, <1>4, <1>5, <1>6, <2>1
<1> QED BY <1>3, <1>5, <1>7 DEF T

\* What a call has made in the end.
LEMMA LinedDone ==
  ASSUME NEW c, NEW O, IsCall(c, O), Lined(c, O), c.todo = {}
  PROVE  c.contents = Expansion[<<c.f, O>>]
<1> DEFINE T == Text(c.f)
<1>1. c.f \in UserFiles /\ O \in SUBSET UserFiles BY DEF IsCall, CallSet
<1>2. PICK R, n :
        /\ RestOf(R, c.f, O) /\ n \in 0 .. Len(Text(c.f))
        /\ c.contents = SubSeq(Text(c.f), 1, n) \o R[n]
        /\ n = Len(Text(c.f)) \/ \A i \in c.todo : i[1] < n
        /\ \A i \in incs[c.f] \ c.todo : i[1] < n => Stays(i, O \cup {c.f})
  BY Zenon DEF Lined
<1>3. /\ T \in Seq(TextLines) /\ Len(T) \in Nat
      /\ R \in [0 .. Len(T) -> Seq(TextLines)] /\ R[0] = Expansion[<<c.f, O>>]
  BY <1>1, <1>2, RestParts DEF IsCall
<1>4. 0 \in 0 .. n /\ 0 \in 0 .. Len(T) BY <1>2, <1>3
<1>5. Whole(c.f, R, n) = Whole(c.f, R, 0)
  <2>1. Kept(c.f, O, 0, n) BY <1>2 DEF Kept
  <2>2. Listed /\ Texted BY DEF IsCall
  <2> QED BY <1>1, <1>2, <1>4, <2>1, <2>2, Plain
<1>6. SubSeq(T, 1, 0) = <<>> BY SubSeqEmpty
<1>7. <<>> \o R[0] = R[0] BY <1>3, <1>4, ConcatEmptySeq
<1> QED BY <1>2, <1>3, <1>5, <1>6, <1>7 DEF Whole

\* What a call starts from.
LEMMA CallLined ==
  ASSUME Listed, Texted, NEW f \in UserFiles, NEW O \in SUBSET UserFiles
  PROVE  /\ Call(f, Text(f)) \in CallSet /\ Call(f, Text(f)).todo = incs[f]
         /\ Call(f, Text(f)).f = f
         /\ Lined(Call(f, Text(f)), O)
<1> DEFINE T == Text(f)
           c == Call(f, T)
<1>1. PICK R : RestOf(R, f, O) BY RestExists
<1>2. T \in Seq(TextLines) /\ Len(T) \in Nat /\ R[Len(T)] = <<>> BY <1>1, RestParts
<1>3. c = [f |-> f, contents |-> T, todo |-> incs[f], at |-> 0] BY DEF Call
<1> HIDE DEF c
<1>4. incs[f] \in SUBSET (Nat \X Int) BY DEF Listed
<1>5. c \in CallSet BY <1>2, <1>3, <1>4 DEF CallSet
<1>6. SubSeq(T, 1, Len(T)) \o R[Len(T)] = T
  <2>1. SubSeq(T, 1, Len(T)) = T BY <1>2, SubSeqFull
  <2>2. T \o <<>> = T BY <1>2, ConcatEmptySeq
  <2> QED BY <1>2, <2>1, <2>2
<1>7. Len(T) \in 0 .. Len(T) BY <1>2
<1>8. c.f = f /\ c.contents = T /\ c.todo = incs[f] BY <1>3
<1>9. \A i \in incs[f] \ c.todo : FALSE BY <1>8
<1>10. Lined(c, O) BY <1>1, <1>6, <1>7, <1>8, <1>9 DEF Lined
<1> QED BY <1>5, <1>8, <1>10 DEF c

\* An #include that stays is taken off the list.
LEMMA LeaveLined ==
  ASSUME NEW c, NEW O, IsCall(c, O), Lined(c, O), NEW i \in c.todo, Stays(i, O \cup {c.f}),
         NEW d \in CallSet, d.f = c.f, d.contents = c.contents, d.todo = c.todo \ {i}
  PROVE  Lined(d, O)
<1>1. PICK R, n :
        /\ RestOf(R, c.f, O) /\ n \in 0 .. Len(Text(c.f))
        /\ c.contents = SubSeq(Text(c.f), 1, n) \o R[n]
        /\ n = Len(Text(c.f)) \/ \A j \in c.todo : j[1] < n
        /\ \A j \in incs[c.f] \ c.todo : j[1] < n => Stays(j, O \cup {c.f})
  BY DEF Lined
<1>2. \A j \in incs[c.f] \ d.todo : j \in incs[c.f] \ c.todo \/ j = i OBVIOUS
<1>3. \A j \in incs[c.f] \ d.todo : j[1] < n => Stays(j, O \cup {c.f})
  BY <1>1, <1>2
<1>4. n = Len(Text(d.f)) \/ \A j \in d.todo : j[1] < n BY <1>1
<1>5. /\ RestOf(R, d.f, O) /\ n \in 0 .. Len(Text(d.f))
      /\ d.contents = SubSeq(Text(d.f), 1, n) \o R[n]
      /\ \A j \in incs[d.f] \ d.todo : j[1] < n => Stays(j, O \cup {d.f})
  BY <1>1, <1>3
<1> QED BY <1>4, <1>5 DEF Lined

\* The last one is taken off the list to be expanded.
LEMMA ExpandPending ==
  ASSUME NEW c, NEW O, IsCall(c, O), Lined(c, O),
         NEW i \in c.todo, \A j \in c.todo : j[1] < i[1] \/ (j[1] = i[1] /\ j[2] <= i[2]),
         i[2] >= 0, i[1] < Len(c.contents), i[2] \notin O \cup {c.f},
         NEW d \in CallSet, d.f = c.f, d.contents = c.contents, d.todo = c.todo \ {i}, d.at = i[1]
  PROVE  Pending(d, O, i[2])
<1> DEFINE T == Text(c.f)
           p == i[1]
<1>1. /\ c.f \in UserFiles /\ O \in SUBSET UserFiles /\ c.todo \subseteq incs[c.f]
      /\ Listed /\ Texted
  BY DEF IsCall, CallSet
<1>2. PICK R, n :
        /\ RestOf(R, c.f, O) /\ n \in 0 .. Len(Text(c.f))
        /\ c.contents = SubSeq(Text(c.f), 1, n) \o R[n]
        /\ n = Len(Text(c.f)) \/ \A j \in c.todo : j[1] < n
        /\ \A j \in incs[c.f] \ c.todo : j[1] < n => Stays(j, O \cup {c.f})
  BY Zenon DEF Lined
<1>3. p < Len(T) /\ p \in Nat /\ Len(T) \in Nat BY LinedParts
<1>4. p < n /\ n \in Nat /\ p + 1 \in 0 .. n /\ n <= Len(T) BY <1>2, <1>3
<1>5. \A j \in incs[c.f] : j[1] \in Nat /\ j[2] \in Int BY <1>1 DEF Listed
<1>6. i \in incs[c.f] /\ i = <<p, i[2]>> /\ i[2] \in UserFiles BY <1>1 DEF Listed
<1>7. ASSUME NEW j \in incs[c.f], p + 1 <= j[1], j[1] < n PROVE Stays(j, O \cup {c.f})
  <2>1. j \notin c.todo BY <1>3, <1>5, <1>7
  <2> QED BY <1>2, <1>7, <2>1
<1>8. Whole(c.f, R, n) = Whole(c.f, R, p + 1)
  <2>1. Kept(c.f, O, p + 1, n) BY <1>7 DEF Kept
  <2>2. p + 1 \in 0 .. n /\ n \in 0 .. Len(T) BY <1>2, <1>4
  <2> HIDE DEF p
  <2> QED BY <1>1, <1>2, <2>1, <2>2, Plain
<1>9. ASSUME NEW j \in d.todo PROVE j[1] < p
  <2>1. j \in c.todo /\ j # i OBVIOUS
  <2>2. j \in incs[c.f] BY <1>1, <2>1
  <2>3. j[1] # i[1] BY <1>1, <1>6, <2>1, <2>2 DEF Listed
  <2> QED BY <2>1, <2>3
<1>10. ASSUME NEW j \in incs[c.f] \ d.todo, j[1] < p PROVE Stays(j, O \cup {c.f})
  <2>1. j # i BY <1>3, <1>10
  <2>2. j \in incs[c.f] \ c.todo /\ j[1] < n BY <1>3, <1>4, <1>5, <1>10, <2>1
  <2> QED BY <1>2, <2>2
<1>11. <<p, i[2]>> \in incs[c.f] \ d.todo BY <1>6
<1> HIDE DEF p
<1>12. d.at = p BY DEF p
<1> QED BY <1>2, <1>3, <1>6, <1>8, <1>9, <1>10, <1>11, <1>12 DEF Pending, Whole

\* The text of the file it includes comes in the place of the #include.
LEMMA ReturnLined ==
  ASSUME NEW c, NEW O, IsCall(c, O), c.at \in Nat, NEW g, Pending(c, O, g),
         NEW d, d.f = c.f, d.todo = c.todo,
         d.contents = Replaced(c.contents, c.at, Expansion[<<g, O \cup {c.f}>>])
  PROVE  Lined(d, O) /\ d.contents \in Seq(TextLines)
<1> DEFINE T == Text(c.f)
           p == c.at
           A == O \cup {c.f}
           x == Expansion[<<g, A>>]
<1>1. /\ c.f \in UserFiles /\ O \in SUBSET UserFiles /\ c.todo \subseteq incs[c.f]
      /\ Listed /\ Texted
  BY DEF IsCall, CallSet
<1>2. /\ p < Len(T) /\ g \in UserFiles \ A /\ <<p, g>> \in incs[c.f] \ c.todo
      /\ \A i \in c.todo : i[1] < p
      /\ \A i \in incs[c.f] \ c.todo : i[1] < p => Stays(i, A)
  BY DEF Pending
<1>3. PICK R : RestOf(R, c.f, O) /\ c.contents = SubSeq(T, 1, p + 1) \o R[p + 1]
  BY DEF Pending
<1>4. /\ T \in Seq(TextLines) /\ Len(T) \in Nat
      /\ R \in [0 .. Len(T) -> Seq(TextLines)]
      /\ \A k \in 0 .. Len(T) - 1 : R[k] = InPlace(Expansion, c.f, O, k + 1) \o R[k + 1]
  BY <1>1, <1>3, RestParts
<1>5. /\ p \in 0 .. Len(T) - 1 /\ p + 1 \in 0 .. Len(T) /\ p \in 0 .. p + 1 /\ p \in 0 .. Len(T)
  BY <1>2, <1>4
<1>6. InPlace(Expansion, c.f, O, p + 1) = x
  <2>0. UserFiles \subseteq Nat BY FlattenAssumption
  <2>1. g >= 0 /\ g \in Int /\ g \notin A BY <1>2, <2>0
  <2>2. p + 1 - 1 = p OBVIOUS
  <2>3. <<p, g>> \in Here(c.f, O, p + 1) BY <1>2, <2>1, <2>2 DEF Here
  <2>4. ASSUME NEW j \in Here(c.f, O, p + 1) PROVE j = <<p, g>>
    <3>1. j \in incs[c.f] /\ j[1] = p BY <2>2 DEF Here
    <3> QED BY <1>1, <1>2, <3>1 DEF Listed
  <2> DEFINE j == CHOOSE k \in Here(c.f, O, p + 1) : TRUE
  <2>5. j \in Here(c.f, O, p + 1) BY <2>3
  <2>6. j = <<p, g>> BY <2>4, <2>5
  <2>7. InPlace(Expansion, c.f, O, p + 1) = Expansion[<<j[2], O \cup {c.f}>>]
    BY <2>3 DEF InPlace, Here
  <2> HIDE DEF j
  <2> QED BY <2>6, <2>7
<1>7. x \in Seq(TextLines)
  <2>1. <<g, A>> \in Scopes BY <1>1, <1>2 DEF Scopes
  <2> QED BY <1>1, <2>1, ExpansionIs
<1>8. R[p] = x \o R[p + 1] BY <1>4, <1>5, <1>6
<1> HIDE DEF x, T, p, A
<1>9. R[p + 1] \in Seq(TextLines) BY <1>4, <1>5
<1>10. /\ SubSeq(c.contents, 1, p) = SubSeq(T, 1, p)
       /\ SubSeq(c.contents, p + 1 + 1, Len(c.contents)) = R[p + 1]
  BY <1>3, <1>4, <1>5, <1>9, PrefixParts
<1>11. p + 2 = p + 1 + 1 BY <1>5
<1>12. d.contents = SubSeq(T, 1, p) \o x \o R[p + 1]
  BY <1>10, <1>11 DEF Replaced, x, p, A
<1>13. SubSeq(T, 1, p) \in Seq(TextLines) BY <1>4, <1>5, <1>9, PrefixParts
<1>14. \A a, b, e \in Seq(TextLines) : (a \o b) \o e = a \o (b \o e) BY ConcatAssociative
<1>15. (SubSeq(T, 1, p) \o x) \o R[p + 1] = SubSeq(T, 1, p) \o (x \o R[p + 1])
  BY <1>7, <1>9, <1>13, <1>14, Zenon
<1>16. d.contents = SubSeq(T, 1, p) \o R[p] BY <1>8, <1>12, <1>15
<1>17. R[p] \in Seq(TextLines) BY <1>4, <1>5
<1>18. d.contents \in Seq(TextLines) BY <1>13, <1>16, <1>17
<1> QED BY <1>2, <1>3, <1>5, <1>16, <1>18 DEF Lined, T, p, A

-----------------------------------------------------------------------------
(* The steps.                                                              *)

\* The files that take part are the least set that has the code's and what they include.
LEMMA TakeParts ==
  /\ TakePart \subseteq UserFiles
  /\ 0 \in TakePart
  /\ \A f \in TakePart : \A i \in incs[f] : i[2] \in UserFiles => i[2] \in TakePart
  /\ \A S \in SUBSET UserFiles :
       0 \in S /\ (\A g \in S : \A i \in incs[g] : i[2] \in UserFiles => i[2] \in S)
         => TakePart \subseteq S
BY FlattenAssumption DEF TakePart

\* They are user files.
LEMMA FilesParts ==
  ASSUME NEW st, Stacked(st), NEW n \in 0 .. Len(st)
  PROVE  FilesOf(st, n) \in SUBSET UserFiles
<1>1. st \in Seq(CallSet) BY DEF Stacked
<1>2. \A m \in 1 .. n : m \in 1 .. Len(st) BY <1>1
<1>3. \A m \in 1 .. Len(st) : st[m] \in CallSet BY <1>1
<1>4. \A m \in 1 .. n : st[m].f \in UserFiles BY <1>2, <1>3 DEF CallSet
<1> QED BY <1>4 DEF FilesOf

\* The innermost call.
LEMMA TopParts ==
  ASSUME Listed, Texted, Stacked(stack)
  PROVE  /\ Len(stack) \in Nat \ {0} /\ DOMAIN stack = 1 .. Len(stack)
         /\ Top \in CallSet /\ Top = stack[Len(stack)]
         /\ IsCall(Top, FilesOf(stack, Len(stack) - 1))
         /\ Lined(Top, FilesOf(stack, Len(stack) - 1))
         /\ Top.f \in TakePart
         /\ Active = FilesOf(stack, Len(stack))
         /\ Active = FilesOf(stack, Len(stack) - 1) \cup {Top.f}
         /\ Active \in SUBSET UserFiles
<1>1. stack \in Seq(CallSet) /\ stack # <<>> BY DEF Stacked
<1>2. Len(stack) \in Nat \ {0} /\ DOMAIN stack = 1 .. Len(stack) BY <1>1
<1>3. /\ Len(stack) \in 1 .. Len(stack) /\ Len(stack) - 1 \in 0 .. Len(stack)
      /\ Len(stack) \in 0 .. Len(stack)
  BY <1>2
<1>4. Top \in CallSet /\ Top = stack[Len(stack)] BY <1>1, <1>3 DEF Top
<1>5. Top.todo \subseteq incs[Top.f] /\ Top.f \in TakePart BY <1>2, <1>3, <1>4 DEF Stacked
<1>6. /\ FilesOf(stack, Len(stack) - 1) \in SUBSET UserFiles
      /\ FilesOf(stack, Len(stack)) \in SUBSET UserFiles
  BY <1>3, FilesParts
<1>7. Lined(Top, FilesOf(stack, Len(stack) - 1)) BY <1>4 DEF Stacked
<1>8. Active = FilesOf(stack, Len(stack)) BY <1>2 DEF Active, FilesOf
<1>9. FilesOf(stack, Len(stack)) = FilesOf(stack, Len(stack) - 1) \cup {Top.f}
  <2>1. \A m : m \in 1 .. Len(stack) <=> m \in 1 .. Len(stack) - 1 \/ m = Len(stack) BY <1>2
  <2> QED BY <1>4, <2>1 DEF FilesOf
<1>10. IsCall(Top, FilesOf(stack, Len(stack) - 1)) BY <1>4, <1>5, <1>6 DEF IsCall
<1> QED BY <1>2, <1>4, <1>5, <1>6, <1>7, <1>8, <1>9, <1>10

\* The calls on the stack, by number.
LEMMA Numbers ==
  ASSUME NEW l \in Nat \ {0}
  PROVE  /\ l \in Nat \ {0} /\ l \in 1 .. l /\ l \in 0 .. l /\ l - 1 \in 0 .. l /\ 1 \in 1 .. l
         /\ l \notin 1 .. l - 1
         /\ \A n \in 1 .. l : n \in 1 .. l - 1 \/ n = l
         /\ \A n \in 1 .. l - 1 : n \in 1 .. l /\ n - 1 \in 0 .. l /\ n + 1 \in 1 .. l /\ n # l
         /\ \A n \in 0 .. l : \A m \in 1 .. n : m \in 1 .. l
<1>1. l \in Nat \ {0} /\ l \in 1 .. l /\ l \in 0 .. l /\ l - 1 \in 0 .. l /\ 1 \in 1 .. l
  OBVIOUS
<1>2. \A n \in 1 .. l : n \in 1 .. l - 1 \/ n = l OBVIOUS
<1>3. \A n \in 1 .. l - 1 : n \in 1 .. l /\ n - 1 \in 0 .. l /\ n + 1 \in 1 .. l /\ n # l OBVIOUS
<1>4. \A n \in 0 .. l : \A m \in 1 .. n : m \in 1 .. l OBVIOUS
<1>5. l \notin 1 .. l - 1 OBVIOUS
<1> QED BY <1>1, <1>2, <1>3, <1>4, <1>5

\* An #include that stays.
LEMMA LeaveStep ==
  ASSUME Listed, Texted, Stacked(stack), NEW i, Leave(i)
  PROVE  Stacked(stack')
<1> DEFINE l == Len(stack)
           O == FilesOf(stack, l - 1)
           c == Top
           d == [c EXCEPT !.todo = c.todo \ {i}]
           st == stack'
<1>1. /\ stack \in Seq(CallSet) /\ l \in Nat \ {0} /\ DOMAIN stack = 1 .. l
      /\ c \in CallSet /\ c = stack[l] /\ IsCall(c, O) /\ Lined(c, O) /\ c.f \in TakePart
      /\ Active = FilesOf(stack, l) /\ Active = O \cup {c.f} /\ Active \in SUBSET UserFiles
  BY TopParts DEF Stacked
<1>2. i \in c.todo /\ (i[2] < 0 \/ (i[1] < Len(c.contents) /\ i[2] \in Active))
  BY DEF Leave, Last
<1>3. d \in CallSet /\ d.f = c.f /\ d.contents = c.contents /\ d.todo = c.todo \ {i}
  <2>1. c.todo \ {i} \in SUBSET (Nat \X Int) BY <1>1 DEF CallSet
  <2> QED BY <1>1, <2>1 DEF CallSet
<1> HIDE DEF c, d, O
<1>4. l \in Nat \ {0} BY <1>1
<1>5. /\ DOMAIN stack = 1 .. l /\ c = stack[l] /\ Active = FilesOf(stack, l)
       /\ stack \in Seq(CallSet) /\ Len(stack) = l
  BY <1>1
<1> HIDE DEF l
<1>6. /\ st \in Seq(CallSet) /\ Len(st) = l /\ st # <<>> /\ st[l] = d
      /\ \A n \in 1 .. l - 1 : st[n] = stack[n]
  <2>1. st = [stack EXCEPT ![l] = d]
    BY <1>5 DEF Leave, Drop, d, c, l
  <2>2. l \in 1 .. Len(stack) /\ 1 .. l - 1 \subseteq 1 .. l /\ l \notin 1 .. l - 1
    BY <1>4, Numbers, <1>5
  <2>3. /\ st \in Seq(CallSet) /\ Len(st) = l
        /\ \A n \in 1 .. l : st[n] = IF n = l THEN d ELSE stack[n]
    BY <1>3, <1>5, <2>1, <2>2, ExceptSeq
  <2> QED BY <1>4, Numbers, <2>2, <2>3
<1> HIDE DEF st
<1>7. \A n \in 1 .. l : st[n].f = stack[n].f
  BY <1>3, <1>6, <1>4, Numbers, <1>5
<1>8. \A n \in 0 .. l : FilesOf(st, n) = FilesOf(stack, n)
  BY <1>7, <1>4, Numbers DEF FilesOf
<1>9. Lined(d, O)
  <2>1. Stays(i, O \cup {c.f}) BY <1>1, <1>2 DEF Stays
  <2> QED BY <1>1, <1>2, <1>3, <2>1, LeaveLined
<1>10. Explored(st)
  <2>1. PICK D \in SUBSET UserFiles :
          /\ \A f \in D : Seen(f, {}, D \cup Active)
          /\ \A n \in DOMAIN stack : Seen(stack[n].f, stack[n].todo, D \cup Active)
    BY <1>5 DEF Stacked, Explored
  <2>2. Active = FilesOf(st, l) BY <1>8, <1>4, Numbers, <1>5
  <2>3. Seen(d.f, d.todo, D \cup Active)
    <3>1. ASSUME NEW j \in incs[d.f] \ d.todo, j[2] >= 0
          PROVE  j[1] < Len(Text(d.f)) /\ j[2] \in D \cup Active
      <4>1. CASE j = i
        <5>1. j[2] \in Int
          <6>1. c.f \in UserFiles BY <1>1 DEF CallSet
          <6> QED BY <1>3, <3>1, <6>1 DEF Listed
        <5>2. i[1] < Len(c.contents) /\ i[2] \in Active BY <1>2, <3>1, <4>1, <5>1
        <5> QED BY <1>1, <1>2, <1>3, <4>1, <5>2, LinedParts
      <4>2. CASE j # i
        <5>1. j \in incs[c.f] \ c.todo BY <1>3, <3>1, <4>2
        <5>2. l \in DOMAIN stack /\ Seen(c.f, c.todo, D \cup Active) BY <1>4, Numbers, <1>5, <2>1
        <5> QED BY <1>3, <3>1, <5>1, <5>2 DEF Seen
      <4> QED BY <4>1, <4>2
    <3> QED BY <3>1 DEF Seen
  <2>4. ASSUME NEW n \in DOMAIN st PROVE Seen(st[n].f, st[n].todo, D \cup Active)
    <3>1. n \in 1 .. l - 1 \/ n = l BY <1>6, <1>4, Numbers, <2>4
    <3>2. CASE n \in 1 .. l - 1
      <4>1. n \in DOMAIN stack BY <1>4, Numbers, <1>5, <3>2
      <4> QED BY <1>6, <2>1, <3>2, <4>1
    <3> QED BY <1>6, <2>3, <3>1, <3>2
  <2> QED BY <1>6, <2>1, <2>2, <2>4 DEF Explored
<1>11. ASSUME NEW n \in DOMAIN st PROVE st[n].todo \subseteq incs[st[n].f] /\ st[n].f \in TakePart
  <2>1. n \in 1 .. l - 1 \/ n = l BY <1>6, <1>11, <1>4, Numbers
  <2>2. CASE n \in 1 .. l - 1
    <3>1. n \in DOMAIN stack BY <1>4, Numbers, <1>5, <2>2
    <3> QED BY <1>6, <2>2, <3>1 DEF Stacked
  <2>3. CASE n = l BY <1>1, <1>3, <1>6, <2>3 DEF IsCall
  <2> QED BY <2>1, <2>2, <2>3
<1>12. ASSUME NEW n \in 1 .. l - 1 PROVE Pending(st[n], FilesOf(st, n - 1), st[n + 1].f)
  <2>1. n - 1 \in 0 .. l /\ n + 1 \in 1 .. l BY <1>4, Numbers, <1>12
  <2>2. Pending(stack[n], FilesOf(stack, n - 1), stack[n + 1].f) BY <1>12, <1>5 DEF Stacked
  <2> QED BY <1>6, <1>7, <1>8, <2>1, <2>2
<1>13. st[1].f = 0
  <2>1. 1 \in 1 .. l BY <1>4, Numbers
  <2> QED BY <1>7, <2>1 DEF Stacked
<1>14. Lined(st[l], FilesOf(st, l - 1))
  BY <1>6, <1>8, <1>9, <1>4, Numbers DEF O
<1>15. Stacked(st) BY <1>6, <1>10, <1>11, <1>12, <1>13, <1>14 DEF Stacked
<1> QED BY <1>15 DEF st

\* More files may be included than are.
LEMMA SeenMore ==
  ASSUME NEW f, NEW todo, NEW D, Seen(f, todo, D), NEW E, D \subseteq E
  PROVE  Seen(f, todo, E)
BY DEF Seen

\* An #include that is expanded: a call more.
LEMMA ExpandStep ==
  ASSUME Listed, Texted, Stacked(stack), NEW i, Expand(i)
  PROVE  Stacked(stack')
<1> DEFINE l == Len(stack)
           O == FilesOf(stack, l - 1)
           c == Top
           d == [[c EXCEPT !.todo = c.todo \ {i}] EXCEPT !.at = i[1]]
           g == i[2]
           e == Call(g, Text(g))
           st == stack'
<1>1. /\ stack \in Seq(CallSet) /\ l \in Nat \ {0} /\ DOMAIN stack = 1 .. l
      /\ c \in CallSet /\ c = stack[l] /\ IsCall(c, O) /\ Lined(c, O) /\ c.f \in TakePart
      /\ Active = FilesOf(stack, l) /\ Active = O \cup {c.f} /\ Active \in SUBSET UserFiles
  BY TopParts DEF Stacked
<1>2. /\ i \in c.todo /\ \A j \in c.todo : j[1] < i[1] \/ (j[1] = i[1] /\ j[2] <= i[2])
      /\ g >= 0 /\ i[1] < Len(c.contents) /\ g \notin Active
  BY DEF Expand, Last
<1>3. i \in incs[c.f] /\ i[1] \in Nat /\ g \in UserFiles
  <2>1. c.f \in UserFiles /\ c.todo \subseteq incs[c.f] BY <1>1 DEF CallSet, IsCall
  <2> QED BY <1>2, <2>1 DEF Listed
<1>4. /\ d \in CallSet /\ d.f = c.f /\ d.contents = c.contents /\ d.todo = c.todo \ {i}
      /\ d.at = i[1]
  <2>1. c.todo \ {i} \in SUBSET (Nat \X Int) BY <1>1 DEF CallSet
  <2> QED BY <1>1, <1>3, <2>1 DEF CallSet
<1>5. e \in CallSet /\ e.f = g /\ e.todo = incs[g] /\ Lined(e, Active)
  BY <1>1, <1>3, CallLined
<1>6. g \in TakePart BY <1>1, <1>3, TakeParts
<1> HIDE DEF c, d, e, g, O
<1>7. l \in Nat \ {0} BY <1>1
<1>8. /\ DOMAIN stack = 1 .. l /\ c = stack[l] /\ Active = FilesOf(stack, l)
      /\ stack \in Seq(CallSet) /\ Len(stack) = l
  BY <1>1
<1>9. /\ stack' = Append([stack EXCEPT ![l] = d], e)
  BY <1>8 DEF Expand, Drop, d, c, e, g, l
<1> HIDE DEF l
<1>10. /\ st \in Seq(CallSet) /\ Len(st) = l + 1 /\ st # <<>> /\ st[l] = d /\ st[l + 1] = e
       /\ \A n \in 1 .. l - 1 : st[n] = stack[n]
  <2> DEFINE s == [stack EXCEPT ![l] = d]
  <2>1. l \in 1 .. Len(stack) BY <1>7, <1>8, Numbers
  <2>2. s \in Seq(CallSet) /\ Len(s) = l /\ \A n \in 1 .. l : s[n] = IF n = l THEN d ELSE stack[n]
    BY <1>4, <1>8, <2>1, ExceptSeq
  <2> HIDE DEF s
  <2>3. st = Append(s, e) BY <1>9 DEF s
  <2>4. /\ st \in Seq(CallSet) /\ Len(st) = l + 1 /\ st[l + 1] = e
        /\ \A n \in 1 .. l : st[n] = s[n]
    BY <1>5, <2>2, <2>3, AppendProperties
  <2>5. st # <<>> BY <1>7, <2>4
  <2> QED BY <1>7, Numbers, <2>2, <2>4, <2>5
<1> HIDE DEF st
<1>11. \A n \in 1 .. l : st[n].f = stack[n].f
  BY <1>4, <1>7, Numbers, <1>8, <1>10
<1>12. \A n \in 0 .. l : FilesOf(st, n) = FilesOf(stack, n)
  BY <1>7, Numbers, <1>11 DEF FilesOf
<1>13. /\ l + 1 \in Nat \ {0} /\ l + 1 - 1 = l BY <1>7
<1>14. FilesOf(st, l) = Active /\ FilesOf(st, l + 1) = Active \cup {g}
  <2>1. FilesOf(st, l) = Active BY <1>7, Numbers, <1>8, <1>12
  <2>2. \A m : m \in 1 .. l + 1 <=> m \in 1 .. l \/ m = l + 1 BY <1>7
  <2>3. FilesOf(st, l + 1) = FilesOf(st, l) \cup {st[l + 1].f} BY <2>2 DEF FilesOf
  <2> QED BY <1>5, <1>10, <2>1, <2>3
<1>15. \A n \in 1 .. l + 1 : n \in 1 .. l - 1 \/ n = l \/ n = l + 1 BY <1>7
<1>16. Explored(st)
  <2>1. PICK D \in SUBSET UserFiles :
          /\ \A f \in D : Seen(f, {}, D \cup Active)
          /\ \A n \in DOMAIN stack : Seen(stack[n].f, stack[n].todo, D \cup Active)
    BY <1>8 DEF Stacked, Explored
  <2> DEFINE E == D \cup (Active \cup {g})
  <2>2. D \cup Active \subseteq E OBVIOUS
  <2>3. \A f \in D : Seen(f, {}, E) BY <2>1, <2>2, SeenMore
  <2>4. \A n \in DOMAIN stack : Seen(stack[n].f, stack[n].todo, E) BY <2>1, <2>2, SeenMore
  <2>5. Seen(d.f, d.todo, E)
    <3>1. ASSUME NEW j \in incs[d.f] \ d.todo, j[2] >= 0
          PROVE  j[1] < Len(Text(d.f)) /\ j[2] \in E
      <4>1. CASE j = i
        <5>1. i[1] < Len(Text(c.f)) BY <1>1, <1>2, LinedParts
        <5> QED BY <1>4, <4>1, <5>1 DEF g
      <4>2. CASE j # i
        <5>1. j \in incs[c.f] \ c.todo BY <1>4, <3>1, <4>2
        <5>2. l \in DOMAIN stack /\ Seen(c.f, c.todo, E) BY <1>7, Numbers, <1>8, <2>4
        <5> QED BY <1>4, <3>1, <5>1, <5>2 DEF Seen
      <4> QED BY <4>1, <4>2
    <3> QED BY <3>1 DEF Seen
  <2>6. Seen(e.f, e.todo, E) BY <1>5 DEF Seen
  <2> HIDE DEF E
  <2>7. ASSUME NEW n \in DOMAIN st PROVE Seen(st[n].f, st[n].todo, E)
    <3>1. n \in 1 .. l - 1 \/ n = l \/ n = l + 1 BY <1>10, <1>15, <2>7
    <3>2. CASE n \in 1 .. l - 1
      <4>1. n \in DOMAIN stack BY <1>7, Numbers, <1>8, <3>2
      <4> QED BY <1>10, <2>4, <3>2, <4>1
    <3> QED BY <1>10, <2>5, <2>6, <3>1, <3>2
  <2>8. E = D \cup FilesOf(st, Len(st)) BY <1>10, <1>14 DEF E
  <2> QED BY <2>3, <2>7, <2>8 DEF Explored
<1>17. ASSUME NEW n \in DOMAIN st PROVE st[n].todo \subseteq incs[st[n].f] /\ st[n].f \in TakePart
  <2>1. n \in 1 .. l - 1 \/ n = l \/ n = l + 1 BY <1>10, <1>15, <1>17
  <2>2. CASE n \in 1 .. l - 1
    <3>1. n \in DOMAIN stack BY <1>7, Numbers, <1>8, <2>2
    <3> QED BY <1>10, <2>2, <3>1 DEF Stacked
  <2>3. CASE n = l BY <1>1, <1>4, <1>10, <2>3 DEF IsCall
  <2>4. CASE n = l + 1 BY <1>5, <1>6, <1>10, <2>4
  <2> QED BY <2>1, <2>2, <2>3, <2>4
<1>18. Pending(d, O, g) BY <1>1, <1>2, <1>4, ExpandPending DEF g
<1>19. ASSUME NEW n \in 1 .. l PROVE Pending(st[n], FilesOf(st, n - 1), st[n + 1].f)
  <2>1. CASE n \in 1 .. l - 1
    <3>1. n - 1 \in 0 .. l /\ n + 1 \in 1 .. l BY <1>7, Numbers, <2>1
    <3>2. Pending(stack[n], FilesOf(stack, n - 1), stack[n + 1].f) BY <1>8, <2>1 DEF Stacked
    <3> QED BY <1>10, <1>11, <1>12, <2>1, <3>1, <3>2
  <2>2. CASE n = l
    <3>1. FilesOf(st, l - 1) = O BY <1>7, Numbers, <1>12 DEF O
    <3> QED BY <1>5, <1>10, <1>18, <2>2, <3>1
  <2> QED BY <1>7, Numbers, <2>1, <2>2
<1>20. st[1].f = 0
  <2>1. 1 \in 1 .. l BY <1>7, Numbers
  <2> QED BY <1>11, <2>1 DEF Stacked
<1>21. Stacked(st)
  <2>1. Len(st) - 1 = l BY <1>7, <1>10
  <2>2. Lined(st[Len(st)], FilesOf(st, Len(st) - 1)) BY <1>5, <1>10, <1>14, <2>1
  <2>3. \A n \in 1 .. Len(st) - 1 : Pending(st[n], FilesOf(st, n - 1), st[n + 1].f)
    BY <1>19, <2>1
  <2> QED BY <1>10, <1>16, <1>17, <1>20, <2>2, <2>3 DEF Stacked
<1> QED BY <1>21 DEF st

\* A call ends, and the one around it goes on.
LEMMA ReturnStep ==
  ASSUME Listed, Texted, Stacked(stack), Return
  PROVE  Stacked(stack')
<1> DEFINE l == Len(stack) - 1
           O == FilesOf(stack, l - 1)
           A == FilesOf(stack, l)
           x == Top
           c == stack[l]
           d == [c EXCEPT !.contents = Replaced(c.contents, c.at, x.contents)]
           st == stack'
<1>1. /\ stack \in Seq(CallSet) /\ Len(stack) \in Nat /\ DOMAIN stack = 1 .. l + 1
      /\ x \in CallSet /\ x = stack[l + 1] /\ IsCall(x, A) /\ Lined(x, A)
      /\ FilesOf(stack, l + 1) = A \cup {x.f}
  <2>1. Len(stack) = l + 1 /\ Len(stack) \in Nat BY TopParts
  <2> QED BY <2>1, TopParts DEF Stacked
<1>2. x.todo = {} /\ l \in Nat \ {0} /\ Len(stack) = l + 1 BY <1>1 DEF Return
<1>3. /\ c \in CallSet /\ c.todo \subseteq incs[c.f] /\ c.f \in TakePart /\ c.at \in Nat
      /\ Pending(c, O, x.f)
  <2>1. l \in DOMAIN stack /\ l \in 1 .. Len(stack) - 1 BY <1>1, <1>2
  <2>2. c \in CallSet BY <1>1, <2>1
  <2>3. Pending(c, O, stack[l + 1].f) BY <2>1 DEF Stacked
  <2> QED BY <1>1, <2>1, <2>2, <2>3 DEF Stacked, CallSet
<1>4. O \in SUBSET UserFiles /\ A = O \cup {c.f}
  <2>1. l - 1 \in 0 .. Len(stack) BY <1>2
  <2>2. \A m : m \in 1 .. l <=> m \in 1 .. l - 1 \/ m = l BY <1>2
  <2> QED BY <2>1, <2>2, FilesParts DEF FilesOf
<1>5. IsCall(c, O) BY <1>3, <1>4 DEF IsCall
<1>6. x.contents = Expansion[<<x.f, O \cup {c.f}>>] BY <1>1, <1>2, <1>4, LinedDone
<1>7. /\ d.f = c.f /\ d.todo = c.todo /\ d.at = c.at
      /\ d.contents = Replaced(c.contents, c.at, x.contents)
  BY <1>3 DEF CallSet
<1> HIDE DEF x, d, O, A
<1>8. Lined(d, O) /\ d.contents \in Seq(TextLines)
  BY <1>3, <1>5, <1>6, <1>7, ReturnLined
<1>9. d \in CallSet BY <1>3, <1>8 DEF CallSet, d
<1>10. stack' = [SubSeq(stack, 1, l) EXCEPT ![l] = d]
  <2>1. l \in 1 .. Len(stack) BY <1>2
  <2>2. SubSeq(stack, 1, l)[l] = c BY <1>1, <1>2, <2>1
  <2>3. stack' = [SubSeq(stack, 1, l) EXCEPT
                    ![l].contents = Replaced(@, stack[l].at, Top.contents)]
    BY DEF Return
  <2> QED BY <2>2, <2>3 DEF d, x
<1>11. /\ \A n \in 1 .. l : n \in 1 .. l + 1 /\ n + 1 \in 1 .. l + 1
       /\ \A n \in 1 .. l - 1 : n \in 1 .. Len(stack) - 1
  BY <1>2
<1>12. /\ st \in Seq(CallSet) /\ Len(st) = l /\ st # <<>> /\ st[l] = d
       /\ \A n \in 1 .. l - 1 : st[n] = stack[n]
  <2> DEFINE s == SubSeq(stack, 1, l)
  <2>1. s \in Seq(CallSet) /\ Len(s) = l /\ \A n \in 1 .. l : s[n] = stack[n]
    BY <1>1, <1>2
  <2> HIDE DEF s
  <2>2. st = [s EXCEPT ![l] = d] /\ l \in 1 .. Len(s) BY <1>2, <1>10, <2>1 DEF s
  <2>3. st \in Seq(CallSet) /\ Len(st) = l /\ \A n \in 1 .. l : st[n] = IF n = l THEN d ELSE s[n]
    BY <1>9, <2>1, <2>2, ExceptSeq
  <2>4. st # <<>> BY <1>2, <2>3
  <2>5. l \in 1 .. l /\ \A n \in 1 .. l - 1 : n \in 1 .. l /\ n # l BY <1>2, Numbers
  <2> QED BY <2>1, <2>3, <2>4, <2>5
<1>13. c = stack[l] OBVIOUS
<1> HIDE DEF st, l, c
<1>14. \A n \in 1 .. l : st[n].f = stack[n].f
  BY <1>2, Numbers, <1>7, <1>12, <1>13
<1>15. \A n \in 0 .. l : FilesOf(st, n) = FilesOf(stack, n)
  BY <1>2, Numbers, <1>14 DEF FilesOf
<1>16. FilesOf(st, l) = A /\ FilesOf(st, l - 1) = O
  BY <1>2, Numbers, <1>15 DEF A, O
<1>17. \A n \in 1 .. l : st[n].todo = stack[n].todo
  BY <1>2, Numbers, <1>7, <1>12, <1>13
<1>18. Explored(st)
  <2>1. PICK D \in SUBSET UserFiles :
          /\ \A f \in D : Seen(f, {}, D \cup (A \cup {x.f}))
          /\ \A n \in DOMAIN stack : Seen(stack[n].f, stack[n].todo, D \cup (A \cup {x.f}))
    BY <1>1, <1>2 DEF Stacked, Explored
  <2> DEFINE E == D \cup {x.f}
  <2>2. D \cup (A \cup {x.f}) = E \cup FilesOf(st, Len(st)) BY <1>12, <1>16
  <2>3. E \in SUBSET UserFiles BY <1>1 DEF CallSet
  <2>4. Seen(x.f, {}, E \cup FilesOf(st, Len(st)))
    <3>1. l + 1 \in DOMAIN stack BY <1>1, <1>2
    <3> QED BY <1>1, <1>2, <2>1, <2>2, <3>1
  <2>5. \A f \in E : Seen(f, {}, E \cup FilesOf(st, Len(st))) BY <2>1, <2>2, <2>4
  <2>6. \A n \in DOMAIN st : n \in 1 .. l /\ n \in DOMAIN stack BY <1>1, <1>11, <1>12
  <2>7. \A n \in DOMAIN st : Seen(st[n].f, st[n].todo, E \cup FilesOf(st, Len(st)))
    BY <1>14, <1>17, <2>1, <2>2, <2>6
  <2> HIDE DEF E
  <2> QED BY <2>3, <2>5, <2>7 DEF Explored
<1>19. \A n \in DOMAIN st : st[n].todo \subseteq incs[st[n].f] /\ st[n].f \in TakePart
  <2>1. \A n \in DOMAIN st : n \in 1 .. l /\ n \in DOMAIN stack BY <1>1, <1>11, <1>12
  <2> QED BY <1>14, <1>17, <2>1 DEF Stacked
<1>20. ASSUME NEW n \in 1 .. l - 1 PROVE Pending(st[n], FilesOf(st, n - 1), st[n + 1].f)
  <2>1. n - 1 \in 0 .. l /\ n + 1 \in 1 .. l BY <1>2, Numbers
  <2>2. Pending(stack[n], FilesOf(stack, n - 1), stack[n + 1].f) BY <1>11 DEF Stacked
  <2> QED BY <1>12, <1>14, <1>15, <2>1, <2>2
<1>21. st[1].f = 0
  <2>1. 1 \in 1 .. l BY <1>2, Numbers
  <2> QED BY <1>14, <2>1 DEF Stacked
<1>22. Stacked(st) BY <1>8, <1>12, <1>16, <1>18, <1>19, <1>20, <1>21 DEF Stacked
<1> QED BY <1>22 DEF st

-----------------------------------------------------------------------------
(* The invariant.                                                          *)

\* What the inputs are.
Given == Recorded /\ Listed /\ excluded \in SUBSET UserFiles

\* A conversion gives a number.
LEMMA ToIntIsInt ==
  ASSUME NEW x \in Int
  PROVE  ToInt(x) \in Int
BY OffsetsAssumption DEF ToInt, Span

\* The offsets of a piece of code are numbers, in order.
LEMMA PieceParts ==
  ASSUME Recorded
  PROVE  /\ code.now \in Seq(TextLines)
         /\ piece.beg \in Int /\ piece.end \in Int /\ piece.beg < piece.end
<1> DEFINE N == Len(code.was)
           r == RangeIn(code.k, N, code.beg, code.end)
<1>1. /\ code.was \in Seq(TextLines) /\ code.now \in Seq(TextLines)
      /\ code.k \in Nat /\ code.beg \in Nat /\ code.end \in Nat
  BY DEF Recorded, IsCode, TextLines
<1>2. N \in Nat /\ code.k * N \in Int BY <1>1
<1>3. r.beg \in Int /\ r.end \in Int
  <2>1. code.beg + code.k * N \in Int /\ code.end + code.k * N \in Int BY <1>1, <1>2
  <2>2. ToInt(code.beg + code.k * N) \in Int /\ ToInt(code.end + code.k * N) \in Int
    BY <2>1, ToIntIsInt
  <2> QED BY <2>2 DEF RangeIn
<1>4. piece \in Bands(r, N) BY DEF Recorded
<1> HIDE DEF r, N
<1>5. PICK j \in 0 .. IntMax : piece = Lower(r, j, N) /\ Valid(piece) BY <1>4 DEF Bands
<1>6. j \in Int /\ j * N \in Int BY <1>2, <1>5, OffsetsAssumption
<1>7. piece.beg \in Int /\ piece.end \in Int BY <1>3, <1>5, <1>6 DEF Lower
<1> QED BY <1>1, <1>5, <1>7 DEF Valid

\* What was read is a text.
LEMMA ReadIsText ==
  ASSUME Given, Readable(piece, code.now)
  PROVE  Texted
<1> DEFINE now == code.now
           at == Seek(piece, Len(now))
           last == at + piece.end - piece.beg
<1>1. /\ now \in Seq(TextLines) /\ Len(now) \in Nat
      /\ piece.beg \in Int /\ piece.end \in Int /\ piece.beg < piece.end
  BY PieceParts DEF Given
<1>2. Len(now) > 0 /\ last <= Len(now) BY DEF Readable
<1>3. at \in Nat
  <2>1. Span \in Nat \ {0} BY OffsetsAssumption DEF Span
  <2>2. Unsigned(piece.beg) \in Nat BY <1>1, <2>1 DEF Unsigned
  <2> QED BY <1>1, <1>2, <2>2 DEF Seek
<1>4. SourceText(piece, now) \in Seq(TextLines)
  <2>1. SourceText(piece, now) = SubSeq(now, at + 1, last) BY DEF SourceText
  <2> HIDE DEF at, last
  <2>2. last \in Int BY <1>1, <1>3 DEF last
  <2>3. \A i \in at + 1 .. last : now[i] \in TextLines
    <3>1. \A i \in at + 1 .. last : i \in 1 .. Len(now) BY <1>1, <1>2, <1>3, <2>2
    <3> QED BY <1>1, <3>1, ElementOfSeq
  <2>4. SubSeq(now, at + 1, last) \in Seq(TextLines) BY <1>3, <2>2, <2>3, SubSeqProperties
  <2> QED BY <2>1, <2>4
<1>5. ASSUME NEW f \in UserFiles PROVE Text(f) \in Seq(TextLines)
  <2>1. CASE f \in excluded BY <2>1 DEF Text
  <2>2. CASE f \notin excluded /\ f = 0 BY <1>4, <2>2 DEF Text
  <2>3. CASE f \notin excluded /\ f # 0
    <3>1. Lines[f] \in Nat BY FlattenAssumption
    <3>2. \A i \in 1 .. Lines[f] : <<f, i>> \in TextLines BY <3>1 DEF TextLines
    <3>3. [i \in 1 .. Lines[f] |-> <<f, i>>] \in Seq(TextLines) BY <3>1, <3>2
    <3> QED BY <2>3, <3>3 DEF Text
  <2> QED BY <2>1, <2>2, <2>3
<1> QED BY <1>5 DEF Texted

\* The inputs do not change, and neither does what is said of a stack.
LEMMA SameInputs ==
  ASSUME UNCHANGED inputs
  PROVE  /\ Given' <=> Given
         /\ Texted' <=> Texted
         /\ TakePart' = TakePart /\ incs' = incs /\ \A f : Text(f)' = Text(f)
         /\ Stacked(stack)' <=> Stacked(stack')
<1>1. code' = code /\ piece' = piece /\ incs' = incs /\ excluded' = excluded BY DEF inputs
<1>2. \A f : Text(f)' = Text(f) BY <1>1 DEF Text
<1>3. Given' <=> Given BY <1>1 DEF Given, Recorded, Listed
<1>4. Texted' <=> Texted BY <1>2 DEF Texted
<1>5. TakePart' = TakePart BY <1>1 DEF TakePart
<1>6. Expansion' = Expansion BY <1>1 DEF Expansion, InPlace, Text
<1>7. \A E, p : LinesOf(E, p)' = LinesOf(E, p) BY <1>1, <1>2 DEF LinesOf, InPlace
<1>8. \A R, f, O : RestOf(R, f, O)' <=> RestOf(R, f, O) BY <1>6, <1>7 DEF RestOf
<1>9. ASSUME NEW CONSTANT c, NEW CONSTANT O PROVE Lined(c, O)' <=> Lined(c, O)
  <2>1. Text(c.f)' = Text(c.f) /\ incs' = incs BY <1>1, <1>2
  <2>2. \A R : RestOf(R, c.f, O)' <=> RestOf(R, c.f, O) BY <1>8
  <2> QED BY <2>1, <2>2 DEF Lined
<1>10. ASSUME NEW CONSTANT c, NEW CONSTANT O, NEW CONSTANT g
       PROVE  Pending(c, O, g)' <=> Pending(c, O, g)
  <2>1. Text(c.f)' = Text(c.f) /\ incs' = incs BY <1>1, <1>2
  <2>2. \A R : RestOf(R, c.f, O)' <=> RestOf(R, c.f, O) BY <1>8
  <2> QED BY <2>1, <2>2 DEF Pending
<1>11. \A f, todo, D : Seen(f, todo, D)' <=> Seen(f, todo, D) BY <1>1, <1>2 DEF Seen
<1>12. \A st : Explored(st)' <=> Explored(st) BY <1>11 DEF Explored
<1>13. \A st : Stacked(st)' <=> Stacked(st) BY <1>1, <1>5, <1>9, <1>10, <1>12 DEF Stacked
<1>14. Stacked(stack)' <=> Stacked(stack') BY <1>13
<1> QED BY <1>1, <1>2, <1>3, <1>4, <1>5, <1>14

-----------------------------------------------------------------------------
\* The code has been read.
Started == {"running", "aborted", "flattened"}

\* An #include of a user file beyond the end of the text of f.
Beyond(f) == \E i \in incs[f] : i[2] >= 0 /\ i[1] >= Len(Text(f))

\* The inductive invariant.
FlattenInv ==
  /\ Given /\ status \in Started \cup {"reading", "skipped", "died"}
  /\ status \in Started => Texted /\ Stacked(stack)
  /\ status \notin Started => stack = <<>>
  /\ status = "aborted" => \E f \in TakePart : Beyond(f)
  /\ status = "flattened" => Len(stack) = 1 /\ Top.todo = {}

\* It is true at first,
LEMMA FlattenInit == Init => FlattenInv
<1> SUFFICES ASSUME Init PROVE FlattenInv OBVIOUS
<1>1. PICK in \in Inputs : code = in.code /\ incs = in.incs BY DEF Init
<1>2. /\ IsCode(in.code)
      /\ \A f \in UserFiles :
           /\ in.incs[f] \subseteq Nat \X Int
           /\ \A i \in in.incs[f] : i[2] >= 0 => i[2] \in UserFiles
           /\ \A i, j \in in.incs[f] : i[1] = j[1] => i = j
  BY FlattenAssumption
<1>3. Listed BY <1>1, <1>2 DEF Listed
<1>4. IsCode(code) BY <1>1, <1>2
<1>5. excluded \in SUBSET UserFiles BY FlattenAssumption DEF Init
<1>6. Given BY <1>3, <1>4, <1>5 DEF Init, Given, Recorded
<1> QED BY <1>6 DEF Init, FlattenInv, Started

\* (the code is read: the first call)
LEMMA ReadStep ==
  ASSUME Given, Readable(piece, code.now), NEW st, st = <<Call(0, Text(0))>>
  PROVE  Texted /\ Stacked(st)
<1> DEFINE c == Call(0, Text(0))
<1>1. Texted /\ Listed BY ReadIsText DEF Given
<1>2. 0 \in UserFiles /\ {} \in SUBSET UserFiles BY FlattenAssumption
<1>3. c \in CallSet /\ c.todo = incs[0] /\ c.f = 0 /\ Lined(c, {}) BY <1>1, <1>2, CallLined
<1> HIDE DEF c
<1>4. /\ st = <<c>> /\ st \in Seq(CallSet) /\ st # <<>> /\ Len(st) = 1 /\ DOMAIN st = {1}
      /\ st[1] = c
  <2>1. st = <<c>> BY DEF c
  <2> QED BY <1>3, <2>1
<1>5. FilesOf(st, Len(st) - 1) = {} BY <1>4 DEF FilesOf
<1>6. Lined(st[Len(st)], FilesOf(st, Len(st) - 1)) BY <1>3, <1>4, <1>5
<1>7. \A n \in 1 .. Len(st) - 1 : FALSE BY <1>4
<1>8. Explored(st)
  <2>1. \A D : Seen(c.f, c.todo, D) BY <1>3 DEF Seen
  <2>2. \A n \in DOMAIN st : Seen(st[n].f, st[n].todo, {} \cup FilesOf(st, Len(st)))
    BY <1>4, <2>1
  <2> QED BY <2>2 DEF Explored
<1>9. \A n \in DOMAIN st : st[n].todo \subseteq incs[st[n].f] /\ st[n].f \in TakePart
  BY <1>3, <1>4, TakeParts
<1>10. Stacked(st) BY <1>3, <1>4, <1>6, <1>7, <1>8, <1>9 DEF Stacked
<1> QED BY <1>1, <1>10

\* and stays true,
LEMMA FlattenStep ==
  ASSUME FlattenInv, [Next]_vars
  PROVE  FlattenInv'
<1>1. UNCHANGED inputs
  BY DEF Next, vars, ReadCode, Leave, GiveUp, Expand, Return, Flattened
<1>2. /\ Given' /\ (Texted' <=> Texted) /\ (Stacked(stack)' <=> Stacked(stack'))
      /\ TakePart' = TakePart /\ incs' = incs /\ \A f : Text(f)' = Text(f)
  BY <1>1, SameInputs DEF FlattenInv
<1>3. (\E f \in TakePart : Beyond(f)) => (\E f \in TakePart : Beyond(f))'
  BY <1>2 DEF Beyond
<1>4. ASSUME status' \in Started, Texted, Stacked(stack'), status' \notin {"aborted", "flattened"}
      PROVE  FlattenInv'
  BY <1>2, <1>4 DEF FlattenInv, Started
<1>5. CASE ReadCode
  <2>1. CASE status' \in {"skipped", "died"} /\ UNCHANGED stack
    BY <1>2, <1>5, <2>1 DEF ReadCode, FlattenInv, Started
  <2>2. CASE Readable(piece, code.now) /\ status' = "running" /\ stack' = <<Call(0, Text(0))>>
    <3>1. Texted /\ Stacked(stack') BY <2>2, ReadStep DEF FlattenInv
    <3> QED BY <1>4, <2>2, <3>1 DEF Started
  <2> QED BY <1>5, <2>1, <2>2 DEF ReadCode
<1>6. ASSUME Running PROVE Texted /\ Listed /\ Stacked(stack)
  BY <1>6 DEF Running, FlattenInv, Started, Given
<1>7. CASE Running /\ \E i \in Top.todo : Leave(i) \/ GiveUp(i) \/ Expand(i)
  <2>1. PICK i \in Top.todo : Leave(i) \/ GiveUp(i) \/ Expand(i) BY <1>7
  <2>2. CASE Leave(i)
    <3>1. Stacked(stack') BY <1>6, <1>7, <2>2, LeaveStep
    <3>2. status' = "running" BY <1>7, <2>2 DEF Leave, Running
    <3> QED BY <1>4, <1>6, <1>7, <3>1, <3>2 DEF Started
  <2>3. CASE Expand(i)
    <3>1. Stacked(stack') BY <1>6, <1>7, <2>3, ExpandStep
    <3>2. status' = "running" BY <1>7, <2>3 DEF Expand, Running
    <3> QED BY <1>4, <1>6, <1>7, <3>1, <3>2 DEF Started
  <2>4. CASE GiveUp(i)
    <3>1. /\ IsCall(Top, FilesOf(stack, Len(stack) - 1)) /\ Top.f \in TakePart
          /\ Lined(Top, FilesOf(stack, Len(stack) - 1))
      BY <1>6, <1>7, TopParts
    <3>2. i \in incs[Top.f] BY <3>1 DEF IsCall
    <3>3. i[2] >= 0 /\ i[1] >= Len(Top.contents) BY <2>4 DEF GiveUp
    <3>4. i[1] >= Len(Text(Top.f)) BY <3>1, <3>3, LinedParts
    <3>5. \E f \in TakePart : Beyond(f) BY <3>1, <3>2, <3>3, <3>4 DEF Beyond
    <3>6. status' = "aborted" /\ stack' = stack BY <2>4 DEF GiveUp
    <3> QED BY <1>2, <1>3, <1>6, <1>7, <3>5, <3>6 DEF FlattenInv, Started
  <2> QED BY <2>1, <2>2, <2>3, <2>4
<1>8. CASE Return
  <2>1. Running BY <1>8 DEF Return
  <2>2. Stacked(stack') BY <1>6, <1>8, <2>1, ReturnStep
  <2>3. status' = "running" BY <1>8, <2>1 DEF Return, Running
  <2> QED BY <1>4, <1>6, <2>1, <2>2, <2>3 DEF Started
<1>9. CASE Flattened
  <2>1. Running /\ status' = "flattened" /\ stack' = stack /\ Len(stack) = 1 /\ Top.todo = {}
    BY <1>9 DEF Flattened
  <2>2. Top' = Top BY <2>1 DEF Top
  <2> QED BY <1>2, <1>6, <2>1, <2>2 DEF FlattenInv, Started
<1>10. CASE UNCHANGED vars
  <2>1. status' = status /\ stack' = stack /\ Top' = Top BY <1>10 DEF vars, Top
  <2> QED BY <1>2, <1>3, <2>1 DEF FlattenInv
<1> QED BY <1>5, <1>7, <1>8, <1>9, <1>10 DEF Next

\* so that it is always true.
LEMMA FlattenInvariance == Spec => []FlattenInv
<1>1. FlattenInv /\ [Next]_vars => FlattenInv' BY FlattenStep
<1> QED BY <1>1, FlattenInit, PTL DEF Spec

\* Replacing #include's from the back, in a text that grows, one call inside the other
\* (flatten_includes) gives what expanding every line from the front does: for all files,
\* however they include each other.
THEOREM FlattenedIsExpanded == Spec => []FlattenIsExpansion
<1>1. FlattenInv => FlattenIsExpansion
  <2> SUFFICES ASSUME FlattenInv, status \in Started PROVE FlattenIsExpansion
    <3>1. status \notin Started /\ stack = <<>> => FlattenIsExpansion
      BY DEF FlattenIsExpansion, Started
    <3> QED BY <3>1 DEF FlattenInv
  <2>1. Listed /\ Texted /\ Stacked(stack) BY DEF FlattenInv, Given
  <2>2. /\ Len(stack) \in Nat \ {0} /\ Top = stack[Len(stack)]
        /\ IsCall(Top, FilesOf(stack, Len(stack) - 1)) /\ Lined(Top, FilesOf(stack, Len(stack) - 1))
    BY <2>1, TopParts
  <2>3. Top.todo = {} => Top.contents = Expansion[<<Top.f, FilesOf(stack, Len(stack) - 1)>>]
    BY <2>2, LinedDone
  <2>4. ASSUME status = "flattened" PROVE stack[1].contents = Expansion[<<0, {}>>]
    <3>1. Len(stack) = 1 /\ Top.todo = {} BY <2>4 DEF FlattenInv
    <3>2. FilesOf(stack, Len(stack) - 1) = {} BY <3>1 DEF FilesOf
    <3>3. Top = stack[1] /\ Top.f = 0 BY <2>1, <2>2, <3>1 DEF Stacked
    <3> QED BY <2>3, <3>1, <3>2, <3>3
  <2>5. ASSUME NEW n \in 2 .. Len(stack), stack[n].todo = {}, n = Len(stack)
        PROVE  stack[n].contents = Expansion[<<stack[n].f, {stack[m].f : m \in 1 .. n - 1}>>]
    BY <2>2, <2>3, <2>5 DEF FilesOf
  <2> QED BY <2>4, <2>5 DEF FlattenIsExpansion
<1> QED BY <1>1, FlattenInvariance, PTL

\* carbon-extract gives up on code exactly when a file that takes part in it includes a user
\* header beyond the end of its text, whatever the order and the nesting.
THEOREM GivesUpExactly == Spec => []GivesUpBeyondTheText
<1>1. FlattenInv => GivesUpBeyondTheText
  <2> SUFFICES ASSUME FlattenInv, status = "flattened"
               PROVE  \A f \in TakePart : ~Beyond(f)
    BY DEF FlattenInv, GivesUpBeyondTheText, Beyond
  <2>1. Listed /\ Texted /\ Stacked(stack) /\ Len(stack) = 1 /\ Top.todo = {}
    BY DEF FlattenInv, Given, Started
  <2>2. Top = stack[1] /\ Top.f = 0 /\ DOMAIN stack = {1} /\ FilesOf(stack, Len(stack)) = {0}
    <3>1. stack \in Seq(CallSet) /\ stack[1].f = 0 BY <2>1 DEF Stacked
    <3>2. Top = stack[1] BY <2>1 DEF Top
    <3>3. DOMAIN stack = 1 .. 1 BY <2>1, <3>1
    <3> QED BY <2>1, <3>1, <3>2, <3>3 DEF FilesOf
  <2>3. PICK D \in SUBSET UserFiles :
          /\ \A f \in D : Seen(f, {}, D \cup {0})
          /\ \A n \in DOMAIN stack : Seen(stack[n].f, stack[n].todo, D \cup {0})
    BY <2>1, <2>2 DEF Stacked, Explored
  <2> DEFINE S == D \cup {0}
  <2>4. \A f \in S : Seen(f, {}, S) BY <2>1, <2>2, <2>3
  <2>5. S \in SUBSET UserFiles /\ 0 \in S BY FlattenAssumption
  <2> HIDE DEF S
  <2>7. ASSUME NEW f \in S, NEW i \in incs[f], i[2] >= 0
        PROVE  i[1] < Len(Text(f)) /\ i[2] \in S
    BY <2>4, <2>7 DEF Seen
  <2>8. \A f \in S : \A i \in incs[f] : i[2] \in UserFiles => i[2] \in S
    <3> SUFFICES ASSUME NEW f \in S, NEW i \in incs[f], i[2] \in UserFiles PROVE i[2] \in S
      OBVIOUS
    <3>1. i[2] \in Nat BY FlattenAssumption
    <3>2. i[2] >= 0 BY <3>1
    <3> QED BY <2>7, <3>2
  <2>9. TakePart \subseteq S BY <2>5, <2>8, TakeParts
  <2>10. ASSUME NEW f \in TakePart, NEW i \in incs[f], i[2] >= 0, i[1] >= Len(Text(f)) PROVE FALSE
    <3>1. f \in S /\ f \in UserFiles BY <2>5, <2>9
    <3>2. i[1] < Len(Text(f)) BY <2>7, <2>10, <3>1
    <3>3. i[1] \in Nat /\ Len(Text(f)) \in Nat BY <2>1, <3>1 DEF Listed, Texted
    <3> QED BY <2>10, <3>2, <3>3
  <2> QED BY <2>10 DEF Beyond
<1> QED BY <1>1, FlattenInvariance, PTL

=============================================================================
