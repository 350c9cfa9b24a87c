---------------------------- MODULE PluginProofs ----------------------------
(***************************************************************************)
(* What the plugin hands to the collector, for every translation unit:     *)
(* pieces of text that were lexed, each inclusion with a band of its own,  *)
(* guards of headers kept apart, and uses that point back in the text; that *)
(* conditionals that code reaches into end up in one piece with it; and     *)
(* that a macro's definition stays behind the users of the one before.     *)
(***************************************************************************)
EXTENDS Plugin, CollectorProofs, FiniteSetTheorems, SequenceTheorems

LEMMA SeqParts ==
  ASSUME NEW S, NEW s \in Seq(S)
  PROVE  Len(s) \in Nat /\ DOMAIN s = 1 .. Len(s) /\ \A i \in DOMAIN s : s[i] \in S
OBVIOUS

LEMMA ReplacedLast ==
  ASSUME NEW S, NEW s \in Seq(S), s # <<>>, NEW x \in S
  PROVE  LET u == [s EXCEPT ![Len(s)] = x]
         IN u \in Seq(S) /\ Len(u) = Len(s)
OBVIOUS

LEMMA WithoutLast ==
  ASSUME NEW S, NEW s \in Seq(S), s # <<>>
  PROVE  LET u == SubSeq(s, 1, Len(s) - 1)
         IN /\ u \in Seq(S) /\ Len(u) = Len(s) - 1 /\ DOMAIN u = 1 .. Len(s) - 1
            /\ \A i \in 1 .. Len(s) - 1 : u[i] = s[i]
<1>1. Len(s) \in Nat /\ Len(s) > 0 /\ DOMAIN s = 1 .. Len(s)
  OBVIOUS
<1> DEFINE l == Len(s)
<1>2. l - 1 \in Nat /\ 1 .. l - 1 \subseteq DOMAIN s
  BY <1>1
<1>3. SubSeq(s, 1, l - 1) \in Seq(S) /\ Len(SubSeq(s, 1, l - 1)) = l - 1
  BY <1>1, <1>2, SubSeqProperties
<1>4. \A i \in 1 .. l - 1 : SubSeq(s, 1, l - 1)[i] = s[i]
  BY <1>1, <1>2, SubSeqProperties
<1> QED BY <1>3, <1>4, SeqParts

-----------------------------------------------------------------------------
(* Texts                                                                   *)

LEMMA TextParts ==
  ASSUME NEW t \in Texts, NEW f \in Files
  PROVE  /\ Len(t[f]) \in Nat /\ DOMAIN t[f] = 1 .. Len(t[f]) /\ Len(t[f]) <= Size[f]
         /\ \A p \in 0 .. Len(t[f]) - 1 : ItemOK(t[f][p + 1])
         /\ Balanced(t[f])
<1>1. t[f] \in Seq({t[f][i] : i \in DOMAIN t[f]})
  BY PluginAssumption
<1>2. /\ Len(t[f]) <= Size[f] /\ Balanced(t[f])
      /\ \A i \in DOMAIN t[f] : ItemOK(t[f][i])
  BY PluginAssumption
<1>3. Len(t[f]) \in Nat /\ DOMAIN t[f] = 1 .. Len(t[f])
  BY <1>1
<1>4. \A p \in 0 .. Len(t[f]) - 1 : p + 1 \in DOMAIN t[f]
  BY <1>3
<1> QED BY <1>2, <1>3, <1>4, Zenon

IsIf(t, p) == p \in 0 .. Len(t) - 1 /\ t[p + 1].op \in Ifs

Among(S, a, b) == {i \in a .. b : i \in S}

LEMMA CountsAdd ==
  ASSUME NEW S, NEW p \in Nat, NEW q \in Nat, NEW r \in Nat, p <= q, q <= r
  PROVE  /\ Cardinality(Among(S, p, q)) \in Nat /\ Cardinality(Among(S, q + 1, r)) \in Nat
         /\ Cardinality(Among(S, p, r))
              = Cardinality(Among(S, p, q)) + Cardinality(Among(S, q + 1, r))
<1>1. \A a, b \in Nat : IsFiniteSet(Among(S, a, b))
  <2> SUFFICES ASSUME NEW a \in Nat, NEW b \in Nat PROVE IsFiniteSet(Among(S, a, b))
    OBVIOUS
  <2>1. IsFiniteSet(a .. b)
    BY FS_Interval
  <2> QED BY <2>1, FS_Subset DEF Among
<1> DEFINE x == Among(S, p, q)
           y == Among(S, q + 1, r)
<1>2. Among(S, p, r) = x \cup y /\ x \cap y = {}
  BY DEF Among
<1>3. IsFiniteSet(x) /\ IsFiniteSet(y)
  BY <1>1
<1> HIDE DEF x, y
<1>4. Cardinality(x) \in Nat /\ Cardinality(y) \in Nat
  BY <1>3, FS_CardinalityType
<1>5. Cardinality(x \cup y) = Cardinality(x) + Cardinality(y) - Cardinality(x \cap y)
  BY <1>3, FS_Union
<1>6. Cardinality({}) = 0
  BY FS_EmptySet
<1>7. Cardinality(Among(S, p, r)) = Cardinality(x \cup y) /\ Cardinality(x \cap y) = 0
  BY <1>2, <1>6, Zenon
<1>8. Cardinality(Among(S, p, r)) = Cardinality(x) + Cardinality(y)
  BY <1>4, <1>5, <1>7
<1> QED BY <1>4, <1>8 DEF x, y

\* What is open after r was open after q or was begun since.
LEMMA DepthsAdd ==
  ASSUME NEW t, NEW p \in Nat, NEW q \in Nat, NEW r \in Nat, p <= q, q <= r
  PROVE  /\ Depth(t, p, q) \in Int /\ Depth(t, q + 1, r) \in Int
         /\ Depth(t, p, r) = Depth(t, p, q) + Depth(t, q + 1, r)
<1> DEFINE I == {i \in Nat : t[i + 1].op \in Ifs}
           E == {i \in Nat : t[i + 1].op = "endif"}
<1>1. \A a, b \in Nat :
        Depth(t, a, b) = Cardinality(Among(I, a, b)) - Cardinality(Among(E, a, b))
  <2> SUFFICES ASSUME NEW a \in Nat, NEW b \in Nat
               PROVE  Depth(t, a, b) = Cardinality(Among(I, a, b)) - Cardinality(Among(E, a, b))
    OBVIOUS
  <2>1. \A i \in a .. b : i \in Nat
    OBVIOUS
  <2>2. /\ {i \in a .. b : t[i + 1].op \in Ifs} = Among(I, a, b)
        /\ {i \in a .. b : t[i + 1].op = "endif"} = Among(E, a, b)
    BY <2>1 DEF Among
  <2> QED BY <2>2 DEF Depth
<1>2. q + 1 \in Nat
  OBVIOUS
<1> HIDE DEF I, E
<1>3. \A S : /\ Cardinality(Among(S, p, q)) \in Nat /\ Cardinality(Among(S, q + 1, r)) \in Nat
             /\ Cardinality(Among(S, p, r))
                  = Cardinality(Among(S, p, q)) + Cardinality(Among(S, q + 1, r))
  BY CountsAdd
<1> QED BY <1>1, <1>2, <1>3

\* One position opens a conditional only if it has an #if, and closes one only if it has an
\* #endif.
LEMMA DepthOfOne ==
  ASSUME NEW t, NEW p \in Nat
  PROVE  /\ t[p + 1].op # "endif" => Depth(t, p, p) >= 0
         /\ t[p + 1].op \in Ifs => Depth(t, p, p) = 1
<1> DEFINE I == {i \in p .. p : t[i + 1].op \in Ifs}
           E == {i \in p .. p : t[i + 1].op = "endif"}
<1>1. p .. p = {p}
  OBVIOUS
<1>2. /\ t[p + 1].op \in Ifs => I = {p}
      /\ t[p + 1].op \notin Ifs => I = {}
      /\ t[p + 1].op # "endif" => E = {}
  BY <1>1
<1>3. Cardinality({}) = 0 /\ Cardinality({p}) = 1
  BY FS_EmptySet, FS_Singleton
<1>4. Depth(t, p, p) = Cardinality(I) - Cardinality(E)
  BY DEF Depth
<1>5. t[p + 1].op \in Ifs => t[p + 1].op # "endif"
  BY DEF Ifs
<1> HIDE DEF I, E
<1> QED BY <1>2, <1>3, <1>4, <1>5

\* An #if and its #endif.
LEMMA MatchCloses ==
  ASSUME NEW t, Len(t) \in Nat, Balanced(t), NEW p, IsIf(t, p)
  PROVE  /\ Match(t, p) \in p + 1 .. Len(t) - 1 /\ Closes(t, p, Match(t, p))
         /\ p \in Nat /\ Match(t, p) \in Nat
         /\ t[Match(t, p) + 1].op = "endif"
<1>1. p \in 0 .. Len(t) - 1 /\ t[p + 1].op \in Ifs /\ p \in Nat
  BY DEF IsIf
<1>2. \E q \in p + 1 .. Len(t) - 1 : Closes(t, p, q)
  BY <1>1 DEF Balanced
<1>3. \E q \in p .. Len(t) - 1 : Closes(t, p, q)
  BY <1>1, <1>2
<1> DEFINE m == Match(t, p)
<1>4. m \in p .. Len(t) - 1 /\ Closes(t, p, m)
  BY <1>3 DEF Match
<1> HIDE DEF m
<1>5. Depth(t, p, p) = 1
  BY <1>1, DepthOfOne
<1>6. m # p
  BY <1>4, <1>5 DEF Closes
<1>7. m \in p + 1 .. Len(t) - 1 /\ m \in Nat /\ m - 1 \in Nat /\ p <= m - 1
      /\ m - 1 \in p .. m - 1 /\ (m - 1) + 1 = m /\ m - 1 <= m
  BY <1>1, <1>4, <1>6
<1>8. t[m + 1].op = "endif"
  <2>1. Depth(t, p, m) = 0 /\ Depth(t, p, m - 1) > 0
    BY <1>4, <1>7 DEF Closes
  <2>2. /\ Depth(t, p, m - 1) \in Int /\ Depth(t, (m - 1) + 1, m) \in Int
        /\ Depth(t, p, m) = Depth(t, p, m - 1) + Depth(t, (m - 1) + 1, m)
    BY <1>1, <1>7, DepthsAdd
  <2>3. t[m + 1].op # "endif" => Depth(t, m, m) >= 0
    BY <1>7, DepthOfOne
  <2> HIDE DEF Depth
  <2> QED BY <1>7, <2>1, <2>2, <2>3
<1> QED BY <1>1, <1>4, <1>7, <1>8 DEF m

\* A conditional that begins inside another one ends inside it.
LEMMA Nested ==
  ASSUME NEW t, Len(t) \in Nat, Balanced(t), NEW p, IsIf(t, p), NEW q, IsIf(t, q),
         p < q, q <= Match(t, p)
  PROVE  Match(t, q) < Match(t, p)
<1> DEFINE m == Match(t, p)
           k == Match(t, q)
<1>1. /\ m \in p + 1 .. Len(t) - 1 /\ Closes(t, p, m) /\ p \in Nat /\ m \in Nat
      /\ t[m + 1].op = "endif"
  BY MatchCloses
<1>2. k \in q + 1 .. Len(t) - 1 /\ Closes(t, q, k) /\ q \in Nat /\ k \in Nat
  BY MatchCloses
<1>3. t[q + 1].op \in Ifs
  BY DEF IsIf
<1>4. p < q /\ q <= m
  OBVIOUS
<1> HIDE DEF m, k
<1>5. q # m
  BY <1>1, <1>3 DEF Ifs
<1>6. /\ q - 1 \in Nat /\ p <= q - 1 /\ q - 1 <= m /\ (q - 1) + 1 = q /\ q - 1 \in p .. m - 1
  BY <1>1, <1>2, <1>4, <1>5
<1>7. /\ Depth(t, p, q - 1) \in Int /\ Depth(t, q, m) \in Int
      /\ Depth(t, p, m) = Depth(t, p, q - 1) + Depth(t, q, m)
  BY <1>1, <1>6, DepthsAdd
<1>8. Depth(t, p, m) = 0 /\ Depth(t, p, q - 1) > 0
  BY <1>1, <1>6 DEF Closes
<1>9. Depth(t, q, m) < 0
  BY <1>7, <1>8
<1>10. ~(m < k)
  <2> SUFFICES ASSUME m < k PROVE FALSE
    OBVIOUS
  <2>1. m \in q .. k - 1
    BY <1>1, <1>2, <1>4
  <2>2. Depth(t, q, m) > 0
    BY <1>2, <2>1 DEF Closes
  <2> QED BY <1>7, <1>9, <2>2
<1>11. m # k
  BY <1>2, <1>9 DEF Closes
<1>12. k < m
  BY <1>1, <1>2, <1>10, <1>11
<1> QED BY <1>12 DEF m, k

LEMMA EndifAfterIf ==
  ASSUME NEW t, Len(t) \in Nat, Balanced(t), NEW p \in 0 .. Len(t) - 1, t[p + 1].op \in Ifs
  PROVE  Match(t, p) \in p + 1 .. Len(t) - 1
BY MatchCloses DEF IsIf

\* No two conditionals have one #endif.
LEMMA IfBeforeEndif ==
  ASSUME NEW t, Len(t) \in Nat, Balanced(t), NEW p \in 0 .. Len(t) - 1, t[p + 1].op = "endif"
  PROVE  /\ IfOf(t, p) \in 0 .. p - 1 /\ IsIf(t, IfOf(t, p)) /\ Match(t, IfOf(t, p)) = p
         /\ \A q : IsIf(t, q) /\ Match(t, q) = p => q = IfOf(t, p)
<1> DEFINE o == IfOf(t, p)
<1>1. o \in 0 .. p - 1 /\ t[o + 1].op \in Ifs /\ Match(t, o) = p
  BY DEF Balanced, IfOf
<1> HIDE DEF o
<1>2. IsIf(t, o)
  BY <1>1 DEF IsIf
<1>3. ASSUME NEW q, IsIf(t, q), Match(t, q) = p PROVE q = o
  <2>1. q \in Nat /\ p \in q + 1 .. Len(t) - 1
    BY <1>3, MatchCloses
  <2>2. ~(q < o)
    BY <1>1, <1>2, <1>3, <2>1, Nested
  <2>3. ~(o < q)
    BY <1>1, <1>2, <1>3, <2>1, Nested
  <2> QED BY <1>1, <2>1, <2>2, <2>3
<1> QED BY <1>1, <1>2, <1>3 DEF o

\* Of the conditionals around an #else one begins last, so that IfOfElse is one of them.
LEMMA IfAroundElse ==
  ASSUME NEW t, Len(t) \in Nat, Balanced(t), NEW p \in 0 .. Len(t) - 1, t[p + 1].op = "else"
  PROVE  /\ IfOfElse(t, p) \in 0 .. p - 1 /\ t[IfOfElse(t, p) + 1].op \in Ifs
         /\ Match(t, IfOfElse(t, p)) \in p + 1 .. Len(t) - 1
         /\ \A q \in 0 .. p - 1 : t[q + 1].op \in Ifs /\ Match(t, q) > p => q <= IfOfElse(t, p)
<1> DEFINE around == {q \in 0 .. p - 1 : t[q + 1].op \in Ifs /\ Match(t, q) > p}
           M == {p - q : q \in around}
<1>1. around # {}
  BY DEF Balanced
<1>2. \A q \in around : q \in 0 .. p - 1 /\ p - q \in Nat
  OBVIOUS
<1> HIDE DEF around
<1>3. M \subseteq Nat /\ M # {}
  BY <1>1, <1>2
<1> HIDE DEF M
<1>4. PICK m \in M : \A k \in M : m <= k
  BY <1>3, Least
<1>5. PICK q \in around : m = p - q
  BY DEF M
<1>6. \A o \in around : m <= p - o
  BY <1>4 DEF M
<1>7. \A o \in around : o <= q
  BY <1>2, <1>5, <1>6
<1>8. IfOfElse(t, p) \in around /\ \A o \in around : o <= IfOfElse(t, p)
  BY <1>7 DEF IfOfElse, around
<1>9. IfOfElse(t, p) \in 0 .. p - 1 /\ t[IfOfElse(t, p) + 1].op \in Ifs
      /\ Match(t, IfOfElse(t, p)) > p
  BY <1>8 DEF around
<1>10. Match(t, IfOfElse(t, p)) \in IfOfElse(t, p) + 1 .. Len(t) - 1
  BY <1>9, EndifAfterIf
<1> QED BY <1>8, <1>9, <1>10 DEF around

\* An #else comes after its #if and before its #endif.
LEMMA ElseAfterIf ==
  ASSUME NEW t, Len(t) \in Nat, DOMAIN t = 1 .. Len(t), Balanced(t),
         NEW p \in Nat, NEW q \in Elses(t, p)
  PROVE  q \in p + 1 .. Len(t) /\ q <= Match(t, p)
<1>1. q \in 1 .. Len(t) /\ t[q].op = "else" /\ IfOfElse(t, q - 1) = p
  BY DEF Elses
<1>2. q - 1 \in 0 .. Len(t) - 1 /\ (q - 1) + 1 = q
  BY <1>1
<1>3. /\ IfOfElse(t, q - 1) \in 0 .. (q - 1) - 1
      /\ Match(t, IfOfElse(t, q - 1)) \in (q - 1) + 1 .. Len(t) - 1
  BY <1>1, <1>2, IfAroundElse
<1> QED BY <1>1, <1>3

\* The conditionals around an #else are around the one that it belongs to, and nothing that
\* is skipped from there goes further than they do.
LEMMA AroundElse ==
  ASSUME NEW t, Len(t) \in Nat, Balanced(t), NEW p \in 0 .. Len(t) - 1, t[p + 1].op = "else",
         NEW q, IsIf(t, q), q < p, p <= Match(t, q)
  PROVE  Match(t, IfOfElse(t, p)) <= Match(t, q)
<1> DEFINE o == IfOfElse(t, p)
<1>1. /\ q \in Nat /\ Match(t, q) \in Nat /\ t[Match(t, q) + 1].op = "endif" /\ t[q + 1].op \in Ifs
  BY MatchCloses DEF IsIf
<1>2. p # Match(t, q) /\ q \in 0 .. p - 1
  BY <1>1
<1>3. /\ o \in 0 .. p - 1 /\ t[o + 1].op \in Ifs /\ q <= o
      /\ Match(t, o) \in p + 1 .. Len(t) - 1
  BY <1>1, <1>2, IfAroundElse
<1> HIDE DEF o
<1>4. IsIf(t, o)
  BY <1>3 DEF IsIf
<1>5. q # o => Match(t, o) < Match(t, q)
  BY <1>1, <1>2, <1>3, <1>4, Nested
<1> QED BY <1>1, <1>3, <1>5 DEF o

-----------------------------------------------------------------------------
(* Where clang is                                                          *)

Reading ==
  /\ text \in Texts
  /\ file \in Seq(Files) /\ Len(file) >= 1 /\ file[1] = Main /\ Len(file) <= MaxFids
  /\ stack \in Seq([n : Nat, p : Nat])
  /\ \A i \in DOMAIN stack : /\ stack[i].n \in DOMAIN file
                             /\ stack[i].p <= Len(text[file[stack[i].n]])
  /\ \A i, j \in DOMAIN stack : i < j => stack[i].n < stack[j].n
  /\ stack # <<>> => stack[1].n = 1
  /\ handled \in BOOLEAN
  /\ handled => stack = <<>>

\* From these inclusions and this stack to those: no inclusion is forgotten, and in
\* none clang goes back.
Onward(fl, st, fl2, st2) ==
  /\ \A n \in DOMAIN fl : n \in DOMAIN fl2 /\ fl2[n] = fl[n]
  /\ \A i \in DOMAIN st2 : \/ st2[i].n \notin DOMAIN fl
                           \/ \E j \in DOMAIN st : st[j].n = st2[i].n /\ st[j].p <= st2[i].p

LEMMA Innermost ==
  ASSUME Reading, stack # <<>>
  PROVE  /\ Len(stack) \in DOMAIN stack /\ Here \in DOMAIN file /\ file[Here] \in Files
         /\ stack[Len(stack)] = [n |-> Here, p |-> P]
         /\ P \in 0 .. Len(text[file[Here]])
         /\ Len(text[file[Here]]) \in Nat
         /\ DOMAIN text[file[Here]] = 1 .. Len(text[file[Here]])
         /\ \A i \in DOMAIN stack : stack[i].n = Here => i = Len(stack)
<1>0. stack \in Seq([n : Nat, p : Nat])
  BY DEF Reading
<1>a. /\ DOMAIN stack = 1 .. Len(stack) /\ Len(stack) \in Nat
      /\ \A i \in DOMAIN stack : stack[i] \in [n : Nat, p : Nat]
  BY <1>0, SeqParts
<1>1. /\ DOMAIN stack = 1 .. Len(stack) /\ Len(stack) \in Nat
      /\ Len(stack) \in DOMAIN stack
  BY <1>0, <1>a
<1>2. stack[Len(stack)] \in [n : Nat, p : Nat]
  BY <1>1, <1>a
<1>3. Here \in DOMAIN file /\ file[Here] \in Files
  BY <1>1 DEF Reading, Here
<1>4. Len(text[file[Here]]) \in Nat /\ DOMAIN text[file[Here]] = 1 .. Len(text[file[Here]])
  BY <1>3, TextParts DEF Reading
<1>5. P <= Len(text[file[Here]])
  BY <1>1 DEF Reading, Here, P
<1>6. ASSUME NEW i \in DOMAIN stack, stack[i].n = Here PROVE i = Len(stack)
  <2>1. i < Len(stack) => stack[i].n < stack[Len(stack)].n
    BY <1>1 DEF Reading
  <2>2. Here \in Nat
    BY <1>2 DEF Here
  <2> QED BY <1>1, <1>6, <2>1, <2>2 DEF Here
<1> QED BY <1>1, <1>2, <1>3, <1>4, <1>5, <1>6 DEF Here, P


LEMMA StackParts ==
  ASSUME Reading
  PROVE  /\ Len(stack) \in Nat /\ DOMAIN stack = 1 .. Len(stack)
         /\ \A i \in DOMAIN stack : stack[i] = [n |-> stack[i].n, p |-> stack[i].p]
                                    /\ stack[i].n \in Nat /\ stack[i].p \in Nat
         /\ Len(file) \in Nat /\ DOMAIN file = 1 .. Len(file)
         /\ \A n \in DOMAIN file : file[n] \in Files
         /\ DOMAIN file \subseteq Nat
<1>1. stack \in Seq([n : Nat, p : Nat]) /\ file \in Seq(Files)
  BY DEF Reading
<1>2. /\ Len(stack) \in Nat /\ DOMAIN stack = 1 .. Len(stack)
      /\ \A i \in DOMAIN stack : stack[i] \in [n : Nat, p : Nat]
  BY <1>1, SeqParts
<1>3. /\ Len(file) \in Nat /\ DOMAIN file = 1 .. Len(file)
      /\ \A n \in DOMAIN file : file[n] \in Files
  BY <1>1, SeqParts
<1> QED BY <1>2, <1>3

\* clang goes on in the file it is in.
LEMMA GoingOn ==
  ASSUME Reading, stack # <<>>, NEW q, q \in P .. Len(text[file[Here]]),
         GoTo(q), UNCHANGED <<text, file, handled>>
  PROVE  /\ Reading' /\ Onward(file, stack, file', stack')
         /\ Here' = Here /\ P' = q /\ stack' # <<>>
<1> DEFINE l == Len(stack)
<1>1. /\ l \in DOMAIN stack /\ stack[l] = [n |-> Here, p |-> P]
      /\ P \in 0 .. Len(text[file[Here]]) /\ Len(text[file[Here]]) \in Nat
  BY Innermost
<1>2. /\ l \in Nat /\ DOMAIN stack = 1 .. l
      /\ \A i \in DOMAIN stack : stack[i].n \in Nat /\ stack[i].p \in Nat
  BY StackParts
<1>3. stack' = [stack EXCEPT ![l] = [n |-> Here, p |-> q]]
  <2>1. [stack[l] EXCEPT !.p = q] = [n |-> Here, p |-> q]
    BY <1>1
  <2>2. stack' = [stack EXCEPT ![l] = [stack[l] EXCEPT !.p = q]]
    BY DEF GoTo
  <2> QED BY <2>1, <2>2
<1>4. stack \in Seq([n : Nat, p : Nat]) /\ q \in Nat /\ Here \in Nat
  BY <1>1, <1>2 DEF Reading
<1>5. stack' \in Seq([n : Nat, p : Nat]) /\ Len(stack') = l /\ DOMAIN stack' = DOMAIN stack
  BY <1>3, <1>4
<1>6. /\ \A i \in DOMAIN stack : stack'[i].n = stack[i].n /\ stack[i].p <= stack'[i].p
      /\ \A i \in DOMAIN stack : i # l => stack'[i] = stack[i]
      /\ stack'[l] = [n |-> Here, p |-> q]
  BY <1>1, <1>2, <1>3, <1>4
<1> HIDE DEF l
<1>7. Here' = Here /\ P' = q
  BY <1>5, <1>6 DEF Here, P, l
<1>8. Onward(file, stack, file', stack')
  BY <1>5, <1>6 DEF Onward
<1>9. ASSUME NEW i \in DOMAIN stack'
      PROVE  stack'[i].n \in DOMAIN file' /\ stack'[i].p <= Len(text'[file'[stack'[i].n]])
  <2>1. stack[i].n \in DOMAIN file /\ stack[i].p <= Len(text[file[stack[i].n]])
    BY <1>5 DEF Reading
  <2>2. CASE i = l
    BY <1>1, <1>6, <2>1, <2>2
  <2>3. CASE i # l
    BY <1>5, <1>6, <2>1, <2>3
  <2> QED BY <2>2, <2>3
<1>10. \A i, j \in DOMAIN stack' : i < j => stack'[i].n < stack'[j].n
  BY <1>5, <1>6 DEF Reading
<1>11. stack[1].n = 1 /\ ~handled
  BY DEF Reading
<1>12. 1 \in DOMAIN stack /\ stack' # <<>>
  BY <1>1, <1>2, <1>5
<1>13. stack'[1].n = 1 /\ stack' # <<>> /\ ~handled'
  BY <1>6, <1>11, <1>12
<1> QED BY <1>5, <1>7, <1>8, <1>9, <1>10, <1>13 DEF Reading

LEMMA Standing ==
  ASSUME Reading, UNCHANGED <<text, file, stack>>, handled' = handled \/ stack = <<>>,
         handled' \in BOOLEAN
  PROVE  Reading' /\ Onward(file, stack, file', stack')
<1>1. \A i \in DOMAIN stack : stack[i].p \in Nat
  BY StackParts
<1>2. Onward(file, stack, file', stack')
  BY <1>1 DEF Onward
<1>3. handled' => stack' = <<>>
  BY DEF Reading
<1> QED BY <1>2, <1>3 DEF Reading

\* Where the next item of the text is.
LEMMA AtItem ==
  ASSUME Reading, NEW ops, Lexes(ops)
  PROVE  /\ stack # <<>> /\ todo = <<>> /\ expanding = <<>>
         /\ Here \in DOMAIN file /\ file[Here] \in Files
         /\ P \in Nat /\ P + 1 \in P .. Len(text[file[Here]])
         /\ Item = text[file[Here]][P + 1] /\ Item.op \in ops /\ ItemOK(Item)
<1>1. /\ stack # <<>> /\ todo = <<>> /\ expanding = <<>> /\ P < Len(text[file[Here]])
      /\ Item.op \in ops
  BY DEF Lexes
<1>2. /\ Here \in DOMAIN file /\ file[Here] \in Files /\ P \in 0 .. Len(text[file[Here]])
      /\ Len(text[file[Here]]) \in Nat
  BY <1>1, Innermost
<1>3. P \in 0 .. Len(text[file[Here]]) - 1
  BY <1>1, <1>2
<1>4. ItemOK(text[file[Here]][P + 1])
  BY <1>2, <1>3, TextParts DEF Reading
<1> QED BY <1>1, <1>2, <1>4 DEF Item

LEMMA ReadingIf ==
  ASSUME Reading, If
  PROVE  /\ Reading' /\ Onward(file, stack, file', stack') /\ stack' # <<>> /\ Here' = Here
         /\ P' > P /\ P' <= Match(text[file[Here]], P)
<1> DEFINE t == text[file[Here]]
           elses == Elses(t, P)
           holds == (Item.op = "ifndef") = (macro[Item.arg] = None)
           q == IF holds THEN P + 1
                ELSE IF elses = {} THEN Match(t, P) ELSE CHOOSE e \in elses : TRUE
<1>1. Lexes(Ifs) /\ GoTo(q) /\ UNCHANGED <<text, file, handled>>
  BY DEF If
<1>2. /\ stack # <<>> /\ Here \in DOMAIN file /\ file[Here] \in Files
      /\ P \in Nat /\ P + 1 \in P .. Len(t) /\ t[P + 1].op \in Ifs
  BY <1>1, AtItem
<1>3. Len(t) \in Nat /\ DOMAIN t = 1 .. Len(t) /\ Balanced(t)
  BY <1>2, TextParts DEF Reading
<1>4. P \in 0 .. Len(t) - 1
  BY <1>2, <1>3
<1> HIDE DEF t
<1>5. Match(t, P) \in P + 1 .. Len(t) - 1
  BY <1>2, <1>3, <1>4, EndifAfterIf
<1>6. \A e \in elses : e \in P + 1 .. Len(t) /\ e <= Match(t, P)
  BY <1>2, <1>3, ElseAfterIf
<1>7. elses # {} => (CHOOSE e \in elses : TRUE) \in elses
  OBVIOUS
<1> HIDE DEF elses, holds
<1>8. q \in P + 1 .. Len(t) /\ q <= Match(t, P)
  BY <1>2, <1>3, <1>5, <1>6, <1>7
<1> HIDE DEF q
<1>9. q \in P .. Len(text[file[Here]])
  BY <1>2, <1>3, <1>8 DEF t
<1>10. q \in P + 1 .. Len(t) /\ q <= Match(text[file[Here]], P)
  BY <1>8 DEF t
<1> QED BY <1>1, <1>2, <1>3, <1>9, <1>10, GoingOn

LEMMA ReadingElse ==
  ASSUME Reading, Else
  PROVE  Reading' /\ Onward(file, stack, file', stack') /\ stack' # <<>> /\ Here' = Here /\ P' > P
<1> DEFINE t == text[file[Here]]
           q == Match(t, IfOfElse(t, P))
<1>1. Lexes({"else"}) /\ GoTo(q) /\ UNCHANGED <<text, file, handled>>
  BY DEF Else, plugin
<1>2. /\ stack # <<>> /\ Here \in DOMAIN file /\ file[Here] \in Files
      /\ P \in Nat /\ P + 1 \in P .. Len(t) /\ t[P + 1].op = "else"
  BY <1>1, AtItem
<1>3. Len(t) \in Nat /\ Balanced(t)
  BY <1>2, TextParts DEF Reading
<1>4. P \in 0 .. Len(t) - 1
  BY <1>2, <1>3
<1> HIDE DEF t
<1>5. q \in P + 1 .. Len(t) - 1
  BY <1>2, <1>3, <1>4, IfAroundElse
<1> HIDE DEF q
<1>9. q \in P .. Len(text[file[Here]]) /\ q > P
  BY <1>2, <1>3, <1>5 DEF t
<1> QED BY <1>1, <1>2, <1>9, GoingOn

LEMMA ReadingInclusion ==
  ASSUME Reading, InclusionDirective
  PROVE  Reading' /\ Onward(file, stack, file', stack')
<1> DEFINE l == Len(stack)
           next == [stack EXCEPT ![l].p = P + 1]
           top == [n |-> Len(file) + 1, p |-> 0]
<1>1. /\ Lexes({"include"}) /\ UNCHANGED <<text, handled>>
      /\ \/ file' = file /\ stack' = next
         \/ /\ Len(file) < MaxFids /\ file' = Append(file, Item.arg)
            /\ stack' = Append(next, top)
  BY DEF InclusionDirective
<1>2. /\ stack # <<>> /\ P \in Nat /\ P + 1 \in P .. Len(text[file[Here]])
      /\ Item.arg \in Files
  BY <1>1, AtItem DEF ItemOK
<1>3. CASE file' = file /\ stack' = next
  BY <1>1, <1>2, <1>3, GoingOn DEF GoTo
<1>4. CASE /\ Len(file) < MaxFids /\ file' = Append(file, Item.arg)
           /\ stack' = Append(next, top)
  <2>1. /\ l \in Nat /\ DOMAIN stack = 1 .. l
        /\ \A i \in DOMAIN stack : stack[i].n \in Nat /\ stack[i].p \in Nat
        /\ Len(file) \in Nat /\ DOMAIN file = 1 .. Len(file)
    BY StackParts
  <2>2. /\ l \in DOMAIN stack /\ stack[l] = [n |-> Here, p |-> P]
        /\ Len(text[file[Here]]) \in Nat /\ Here \in DOMAIN file
    BY <1>2, Innermost
  <2>3. [stack[l] EXCEPT !.p = P + 1] = [n |-> Here, p |-> P + 1]
    BY <2>2
  <2>4. next = [stack EXCEPT ![l] = [n |-> Here, p |-> P + 1]]
    BY <2>3
  <2>5. stack \in Seq([n : Nat, p : Nat]) /\ file \in Seq(Files) /\ Here \in Nat
    BY <2>1, <2>2 DEF Reading
  <2>6. next \in Seq([n : Nat, p : Nat]) /\ Len(next) = l
    <3>1. [n |-> Here, p |-> P + 1] \in [n : Nat, p : Nat]
      BY <1>2, <2>5
    <3>2. [stack EXCEPT ![Len(stack)] = [n |-> Here, p |-> P + 1]] \in Seq([n : Nat, p : Nat])
          /\ Len([stack EXCEPT ![Len(stack)] = [n |-> Here, p |-> P + 1]]) = Len(stack)
      BY <1>2, <2>5, <3>1, ReplacedLast, Zenon
    <3> QED BY <2>4, <3>2, Zenon
  <2>7. /\ \A i \in 1 .. l : next[i].n = stack[i].n /\ stack[i].p <= next[i].p
        /\ \A i \in 1 .. l : i # l => next[i] = stack[i]
        /\ next[l] = [n |-> Here, p |-> P + 1]
    BY <1>2, <2>1, <2>2, <2>4
  <2> HIDE DEF next, l
  <2>8. /\ stack' \in Seq([n : Nat, p : Nat]) /\ Len(stack') = l + 1
        /\ DOMAIN stack' = 1 .. l + 1
        /\ \A i \in 1 .. l : stack'[i] = next[i]
        /\ stack'[l + 1] = top
    BY <1>4, <2>1, <2>6
  <2>9. /\ file' \in Seq(Files) /\ Len(file') = Len(file) + 1 /\ DOMAIN file' = 1 .. Len(file) + 1
        /\ \A n \in DOMAIN file : file'[n] = file[n]
        /\ file'[Len(file) + 1] = Item.arg
    BY <1>2, <1>4, <2>1, <2>5
  <2>10. \A i \in 1 .. l + 1 : i \in 1 .. l \/ i = l + 1
    BY <2>1
  <2>11. \A i \in 1 .. l : stack[i].n \in DOMAIN file /\ stack[i].p <= Len(text[file[stack[i].n]])
    BY <2>1 DEF Reading
  <2>12. Onward(file, stack, file', stack')
    <3>1. \A n \in DOMAIN file : n \in DOMAIN file' /\ file'[n] = file[n]
      BY <2>1, <2>9
    <3>2. top.n \notin DOMAIN file
      BY <2>1
    <3>3. ASSUME NEW i \in 1 .. l
          PROVE  i \in DOMAIN stack /\ stack[i].n = stack'[i].n /\ stack[i].p <= stack'[i].p
      BY <2>1, <2>7, <2>8
    <3> QED BY <2>8, <2>10, <3>1, <3>2, <3>3 DEF Onward
  <2>13. ASSUME NEW i \in DOMAIN stack'
         PROVE  stack'[i].n \in DOMAIN file' /\ stack'[i].p <= Len(text'[file'[stack'[i].n]])
    <3>1. CASE i = l + 1
      <4>1. stack'[i].n = Len(file) + 1 /\ stack'[i].p = 0
        BY <2>8, <3>1
      <4>2. Len(text[Item.arg]) \in Nat
        BY <1>2, TextParts DEF Reading
      <4> QED BY <1>1, <2>1, <2>9, <4>1, <4>2
    <3>2. CASE i \in 1 .. l
      <4>1. stack'[i].n = stack[i].n /\ stack[i].n \in DOMAIN file
            /\ file'[stack[i].n] = file[stack[i].n] /\ stack[i].n \in DOMAIN file'
        <5>1. stack'[i] = next[i] /\ next[i].n = stack[i].n /\ stack[i].n \in DOMAIN file
          BY <2>7, <2>8, <2>11, <3>2
        <5>2. file'[stack[i].n] = file[stack[i].n] /\ stack[i].n \in DOMAIN file'
          BY <2>1, <2>9, <5>1
        <5> QED BY <5>1, <5>2
      <4>2. CASE i = l
        BY <1>1, <1>2, <2>2, <2>7, <2>8, <3>2, <4>1, <4>2 DEF l
      <4>3. CASE i # l
        BY <1>1, <2>7, <2>8, <2>11, <3>2, <4>1, <4>3
      <4> QED BY <4>2, <4>3
    <3> QED BY <2>8, <2>10, <3>1, <3>2
  <2>14. ASSUME NEW i \in DOMAIN stack', NEW j \in DOMAIN stack', i < j
         PROVE  stack'[i].n < stack'[j].n
    <3>1. i \in 1 .. l /\ stack'[i].n = stack[i].n /\ stack[i].n \in 1 .. Len(file)
      <4>1. i \in 1 .. l
        BY <2>1, <2>8, <2>14
      <4> QED BY <2>1, <2>7, <2>8, <2>11, <4>1
    <3>2. CASE j = l + 1
      BY <2>1, <2>8, <3>1, <3>2
    <3>3. CASE j \in 1 .. l
      BY <2>1, <2>7, <2>8, <2>14, <3>1, <3>3 DEF Reading
    <3> QED BY <2>8, <2>10, <3>2, <3>3
  <2>15. stack'[1].n = 1 /\ ~handled' /\ file'[1] = Main
    <3>1. 1 \in 1 .. l /\ 1 \in DOMAIN file /\ stack[1].n = 1 /\ ~handled
      BY <1>2, <2>1, <2>2 DEF Reading, l
    <3>2. file[1] = Main
      BY DEF Reading
    <3> QED BY <1>1, <2>7, <2>8, <2>9, <3>1, <3>2
  <2>16. Len(file') >= 1 /\ Len(file') <= MaxFids
    BY <1>4, <2>1, <2>9, PluginAssumption
  <2>17. text' \in Texts /\ handled' \in BOOLEAN
    BY <1>1 DEF Reading
  <2> QED BY <2>8, <2>9, <2>12, <2>13, <2>14, <2>15, <2>16, <2>17 DEF Reading
<1> QED BY <1>1, <1>3, <1>4

LEMMA ReadingPop ==
  ASSUME Reading, FileChanged
  PROVE  /\ Reading' /\ Onward(file, stack, file', stack') /\ stack' # <<>>
         /\ \A i \in DOMAIN stack : stack[i].n # Here =>
              i \in DOMAIN stack' /\ stack'[i] = stack[i]
<1> DEFINE l == Len(stack)
<1>1. /\ l > 1 /\ stack' = SubSeq(stack, 1, l - 1) /\ UNCHANGED <<text, file, handled>>
  BY DEF FileChanged
<1>2. /\ l \in Nat /\ DOMAIN stack = 1 .. l
      /\ \A i \in DOMAIN stack : stack[i].n \in Nat /\ stack[i].p \in Nat
  BY StackParts
<1>3. stack \in Seq([n : Nat, p : Nat])
  BY DEF Reading
<1> HIDE DEF l
<1>4. /\ stack' \in Seq([n : Nat, p : Nat]) /\ Len(stack') = l - 1
      /\ DOMAIN stack' = 1 .. l - 1
      /\ \A i \in 1 .. l - 1 : stack'[i] = stack[i]
  <2>1. stack # <<>>
    BY <1>1, <1>2 DEF l
  <2> QED BY <1>1, <1>3, <2>1, WithoutLast DEF l
<1>5. \A i \in 1 .. l - 1 : i \in DOMAIN stack
  BY <1>1, <1>2
<1>6. \A i \in DOMAIN stack' : /\ stack'[i].n \in DOMAIN file
                               /\ stack'[i].p <= Len(text[file[stack'[i].n]])
  BY <1>4, <1>5 DEF Reading
<1>7. \A i, j \in DOMAIN stack' : i < j => stack'[i].n < stack'[j].n
  BY <1>4, <1>5 DEF Reading
<1>8. Onward(file, stack, file', stack')
  BY <1>1, <1>2, <1>4, <1>5 DEF Onward
<1>9. stack' # <<>> /\ stack'[1].n = 1
  <2>1. 1 \in 1 .. l - 1 /\ stack # <<>>
    BY <1>1, <1>2 DEF l
  <2> QED BY <1>4, <2>1 DEF Reading
<1>10. ~handled'
  BY <1>1, <1>2 DEF Reading, l
<1>11. Reading'
  BY <1>1, <1>4, <1>6, <1>7, <1>9, <1>10 DEF Reading
<1>12. ASSUME NEW i \in DOMAIN stack, stack[i].n # Here PROVE i \in 1 .. l - 1
  <2>1. i # l
    BY <1>12 DEF Here, l
  <2> QED BY <1>2, <2>1
<1> QED BY <1>4, <1>8, <1>9, <1>11, <1>12

LEMMA ReadingEnd ==
  ASSUME Reading, EndOfMain
  PROVE  Reading' /\ Onward(file, stack, file', stack')
<1>1. stack' = <<>> /\ UNCHANGED <<text, file, handled>>
  BY DEF EndOfMain
<1>2. stack' \in Seq([n : Nat, p : Nat]) /\ DOMAIN stack' = {}
  BY <1>1
<1>3. Onward(file, stack, file', stack')
  BY <1>1, <1>2 DEF Onward
<1> QED BY <1>1, <1>2, <1>3 DEF Reading

\* A directive or token: one position further.
Advances == GoTo(P + 1) /\ UNCHANGED <<text, file, handled>>

LEMMA ReadingAdvance ==
  ASSUME Reading, NEW ops, Lexes(ops), Advances
  PROVE  Reading' /\ Onward(file, stack, file', stack') /\ Here' = Here /\ P' = P + 1
         /\ stack' # <<>>
BY AtItem, GoingOn DEF Advances

LEMMA ReadingStep ==
  ASSUME Reading, [PluginNext]_pluginVars
  PROVE  Reading' /\ Onward(file, stack, file', stack')
<1>1. CASE Perform
  BY <1>1, Standing DEF Perform, clang, Reading
<1>2. CASE MacroDefined
  BY <1>2, ReadingAdvance DEF MacroDefined, Advances
<1>3. CASE MacroUndefined
  BY <1>3, ReadingAdvance DEF MacroUndefined, Advances, plugin
<1>4. CASE MacroExpands
  BY <1>4, ReadingAdvance DEF MacroExpands, Advances
<1>5. CASE NestedMacroExpands
  BY <1>5, Standing DEF NestedMacroExpands, Reading
<1>6. CASE If
  BY <1>6, ReadingIf
<1>7. CASE Else
  BY <1>7, ReadingElse
<1>8. CASE EndifSeen
  BY <1>8, ReadingAdvance DEF EndifSeen, Advances
<1>9. CASE InclusionDirective
  BY <1>9, ReadingInclusion
<1>10. CASE FileChanged
  BY <1>10, ReadingPop
<1>11. CASE DeclBegins
  BY <1>11, ReadingAdvance DEF DeclBegins, Advances
<1>12. CASE DeclRefers
  BY <1>12, ReadingAdvance DEF DeclRefers, Advances, plugin
<1>13. CASE DeclEnds
  BY <1>13, ReadingAdvance DEF DeclEnds, Advances, plugin
<1>14. CASE EndOfMain
  BY <1>14, ReadingEnd
<1>15. CASE HandleTranslationUnit
  BY <1>15, Standing DEF HandleTranslationUnit, clang
<1>16. CASE FinalizeRuns
  BY <1>16, Standing DEF FinalizeRuns, clang, plugin, Reading
<1>17. CASE UNCHANGED pluginVars
  BY <1>17, Standing DEF pluginVars, clang, plugin, Reading
<1> QED BY <1>1, <1>2, <1>3, <1>4, <1>5, <1>6, <1>7, <1>8, <1>9, <1>10, <1>11, <1>12,
           <1>13, <1>14, <1>15, <1>16, <1>17 DEF PluginNext

-----------------------------------------------------------------------------
(* Pieces of text                                                          *)

PieceSet == [n : Nat, beg : Nat, end : Nat]
DeclSet == [s : Symbols, kind : {"global", "static", "type"}, def : BOOLEAN]
RefSet == [at : PieceSet, s : Symbols]
LateSet == [user : PieceSet, usee : PieceSet, name : Macros]
CallOps == {"ask", "skip", "code", "use", "follow", "global", "static", "inclusion",
            "defined", "ifndef", "ifdef", "endif"}
CallSet == [op : CallOps, user : PieceSet, usee : PieceSet, what : {None} \cup Files \cup DeclSet]

\* clang has lexed this piece, all of it.
LexedIn(t, fl, st, r) ==
  /\ r \in PieceSet
  /\ r.n \in DOMAIN fl
  /\ r.beg < r.end /\ r.end <= Len(t[fl[r.n]])
  /\ \A i \in DOMAIN st : st[i].n = r.n => r.end <= st[i].p

\* It does not join the #ifndef that guards a header with the rest of the header.
ClearIn(t, fl, r) == Wrapped(t[fl[r.n]]) => r.end <= 1 \/ r.beg >= 1

InIf(t, q, b) == IsIf(t, q) /\ q <= b /\ b <= Match(t, q)

\* The conditional at q was seen: clang is inside it, or its range was noted.
SeenIf(t, fl, st, at, n, q) ==
  LET m == Match(t[fl[n]], q)
  IN \/ \E i \in DOMAIN st : st[i].n = n /\ q < st[i].p /\ st[i].p <= m
     \/ \E i \in DOMAIN at.endif : at.endif[i] = Piece(n, q, m + 1)

\* All conditionals that it begins or ends in were seen.
TouchedIn(t, fl, st, at, r) ==
  \A q : InIf(t[fl[r.n]], q, r.beg) \/ InIf(t[fl[r.n]], q, r.end - 1)
           => SeenIf(t, fl, st, at, r.n, q)

SeenIn(t, fl, st, at, r) ==
  LexedIn(t, fl, st, r) /\ ClearIn(t, fl, r) /\ TouchedIn(t, fl, st, at, r)

\* It is the range of a conditional.
IfRange(t, fl, r) == IsIf(t[fl[r.n]], r.beg) /\ r.end = Match(t[fl[r.n]], r.beg) + 1

DefinitionIn(t, fl, st, at, r) ==
  SeenIn(t, fl, st, at, r) /\ r.end = r.beg + 1 /\ t[fl[r.n]][r.beg + 1].op = "define"

\* A declaration that was begun, and latest declarations ds that it may refer to.
DeclIn(t, fl, st, at, ds, d) ==
  /\ d \in [n : Nat, beg : Nat, end : Nat, what : DeclSet, refs : Seq(RefSet)]
  /\ d.n \in DOMAIN fl /\ d.beg < Len(t[fl[d.n]]) /\ t[fl[d.n]][d.beg + 1].op = "open"
  /\ \A i \in DOMAIN st : st[i].n = d.n => d.beg < st[i].p
  /\ TouchedIn(t, fl, st, at, Piece(d.n, d.beg, d.beg + 1))
  /\ \A i \in DOMAIN d.refs :
       LET place == d.refs[i].at
           s == d.refs[i].s
       IN /\ SeenIn(t, fl, st, at, place)
          /\ place.n = d.n => d.beg <= place.beg
          /\ s # d.what.s => ds[s] # None
          /\ \A x \in Symbols : ds[x] # None /\ ds[x].n = place.n => ds[x].beg <= place.beg

\* A call whose pieces were lexed and whose use points back in the text.
CallIn(t, fl, st, at, c) ==
  /\ LexedIn(t, fl, st, c.user) /\ LexedIn(t, fl, st, c.usee)
  /\ c.op \notin {"ask", "skip"} => ClearIn(t, fl, c.user) /\ ClearIn(t, fl, c.usee)
  /\ c.op \notin {"ask", "skip", "endif"} =>
       TouchedIn(t, fl, st, at, c.user) /\ TouchedIn(t, fl, st, at, c.usee)
  /\ c.op = "endif" => IfRange(t, fl, c.user)
  /\ c.op \in {"global", "static"} => c.what \in DeclSet
  /\ c.op = "inclusion" =>
       c.what \in Files /\ t[fl[c.user.n]][c.user.beg + 1].op = "include"
  /\ c.op \in {"use", "defined", "ifndef", "ifdef"} /\ c.usee.n = c.user.n =>
       c.usee.beg <= c.user.beg
  /\ c.op = "follow" /\ c.usee.n = c.user.n => c.user.end <= c.usee.beg

LateIn(t, fl, st, at, l) ==
  /\ SeenIn(t, fl, st, at, l.user) /\ SeenIn(t, fl, st, at, l.usee)
  /\ l.usee.n = l.user.n => l.usee.beg <= l.user.beg

\* What was lexed stays so.
LEMMA LexedStays ==
  ASSUME NEW t, NEW fl, NEW st, NEW fl2, NEW st2, Onward(fl, st, fl2, st2),
         \A i \in DOMAIN st : st[i].p \in Nat, \A i \in DOMAIN st2 : st2[i].p \in Nat,
         NEW r, LexedIn(t, fl, st, r)
  PROVE  LexedIn(t, fl2, st2, r) /\ fl2[r.n] = fl[r.n]
<1>1. r.n \in DOMAIN fl2 /\ fl2[r.n] = fl[r.n]
  BY DEF Onward, LexedIn
<1>2. ASSUME NEW i \in DOMAIN st2, st2[i].n = r.n PROVE r.end <= st2[i].p
  <2>1. PICK j \in DOMAIN st : st[j].n = st2[i].n /\ st[j].p <= st2[i].p
    BY <1>2 DEF Onward, LexedIn
  <2>2. r.end <= st[j].p /\ r.end \in Nat
    BY <1>2, <2>1 DEF LexedIn, PieceSet
  <2> QED BY <2>1, <2>2
<1> QED BY <1>1, <1>2 DEF LexedIn

\* Conditionals that were seen stay so.
KeepsIfs(t, fl, st, at, fl2, st2, at2) ==
  \A n \in DOMAIN fl : \A q : IsIf(t[fl[n]], q) /\ SeenIf(t, fl, st, at, n, q)
                                => SeenIf(t, fl2, st2, at2, n, q)

LEMMA TouchedStays ==
  ASSUME NEW t, NEW fl, NEW st, NEW at, NEW fl2, NEW st2, NEW at2, Onward(fl, st, fl2, st2),
         KeepsIfs(t, fl, st, at, fl2, st2, at2),
         NEW r, r.n \in DOMAIN fl, TouchedIn(t, fl, st, at, r)
  PROVE  TouchedIn(t, fl2, st2, at2, r)
<1>1. fl2[r.n] = fl[r.n]
  BY DEF Onward
<1>2. \A q : IsIf(t[fl[r.n]], q) /\ SeenIf(t, fl, st, at, r.n, q)
                => SeenIf(t, fl2, st2, at2, r.n, q)
  BY DEF KeepsIfs
<1> QED BY <1>1, <1>2 DEF TouchedIn, InIf

LEMMA SeenStays ==
  ASSUME NEW t, NEW fl, NEW st, NEW at, NEW fl2, NEW st2, NEW at2, Onward(fl, st, fl2, st2),
         KeepsIfs(t, fl, st, at, fl2, st2, at2),
         \A i \in DOMAIN st : st[i].p \in Nat, \A i \in DOMAIN st2 : st2[i].p \in Nat
  PROVE  /\ \A r : SeenIn(t, fl, st, at, r) => SeenIn(t, fl2, st2, at2, r)
         /\ \A r : DefinitionIn(t, fl, st, at, r) => DefinitionIn(t, fl2, st2, at2, r)
         /\ \A l : LateIn(t, fl, st, at, l) => LateIn(t, fl2, st2, at2, l)
         /\ \A c : CallIn(t, fl, st, at, c) => CallIn(t, fl2, st2, at2, c)
<1>1. \A r : LexedIn(t, fl, st, r) => LexedIn(t, fl2, st2, r) /\ fl2[r.n] = fl[r.n]
  BY LexedStays
<1>2. \A r : SeenIn(t, fl, st, at, r) => SeenIn(t, fl2, st2, at2, r)
  BY <1>1, TouchedStays DEF SeenIn, ClearIn, LexedIn
<1>3. \A r : DefinitionIn(t, fl, st, at, r) => DefinitionIn(t, fl2, st2, at2, r)
  BY <1>1, <1>2 DEF DefinitionIn, SeenIn
<1>4. \A l : LateIn(t, fl, st, at, l) => LateIn(t, fl2, st2, at2, l)
  BY <1>2 DEF LateIn
<1>5. \A c : CallIn(t, fl, st, at, c) => CallIn(t, fl2, st2, at2, c)
  <2>1. \A r : LexedIn(t, fl, st, r) /\ TouchedIn(t, fl, st, at, r)
                 => TouchedIn(t, fl2, st2, at2, r)
    BY TouchedStays DEF LexedIn
  <2>2. \A r : fl2[r.n] = fl[r.n] => (ClearIn(t, fl, r) <=> ClearIn(t, fl2, r))
                                      /\ (IfRange(t, fl, r) <=> IfRange(t, fl2, r))
    BY DEF ClearIn, IfRange
  <2> QED BY <1>1, <2>1, <2>2 DEF CallIn
<1> QED BY <1>2, <1>3, <1>4, <1>5

LEMMA DeclStays ==
  ASSUME NEW t, NEW fl, NEW st, NEW at, NEW fl2, NEW st2, NEW at2, Onward(fl, st, fl2, st2),
         KeepsIfs(t, fl, st, at, fl2, st2, at2),
         \A i \in DOMAIN st : st[i].p \in Nat, \A i \in DOMAIN st2 : st2[i].p \in Nat,
         NEW ds, NEW d, DeclIn(t, fl, st, at, ds, d)
  PROVE  DeclIn(t, fl2, st2, at2, ds, d)
<1>1. d.n \in DOMAIN fl2 /\ fl2[d.n] = fl[d.n] /\ d.beg \in Nat
  BY DEF Onward, DeclIn
<1>2. ASSUME NEW i \in DOMAIN st2, st2[i].n = d.n PROVE d.beg < st2[i].p
  <2>1. PICK j \in DOMAIN st : st[j].n = st2[i].n /\ st[j].p <= st2[i].p
    BY <1>2 DEF Onward, DeclIn
  <2>2. d.beg < st[j].p
    BY <1>2, <2>1 DEF DeclIn
  <2> QED BY <1>1, <2>1, <2>2
<1>3. \A r : SeenIn(t, fl, st, at, r) => SeenIn(t, fl2, st2, at2, r)
  BY SeenStays
<1>4. TouchedIn(t, fl2, st2, at2, Piece(d.n, d.beg, d.beg + 1))
  <2>1. TouchedIn(t, fl, st, at, Piece(d.n, d.beg, d.beg + 1)) /\ d.n \in DOMAIN fl
        /\ Piece(d.n, d.beg, d.beg + 1).n = d.n
    BY DEF DeclIn, Piece
  <2> QED BY <2>1, TouchedStays
<1> QED BY <1>1, <1>2, <1>3, <1>4 DEF DeclIn

\* A piece just lexed.
LEMMA JustLexed ==
  ASSUME NEW t, NEW fl, NEW st, NEW at, NEW n, n \in DOMAIN fl, n \in Nat, NEW p \in Nat,
         p + 1 <= Len(t[fl[n]]), TouchedIn(t, fl, st, at, Piece(n, p, p + 1)),
         \A i \in DOMAIN st : st[i].n = n => p < st[i].p /\ st[i].p \in Nat
  PROVE  SeenIn(t, fl, st, at, Piece(n, p, p + 1))
<1>1. \A i \in DOMAIN st : st[i].n = n => p + 1 <= st[i].p
  OBVIOUS
<1>2. p + 1 <= 1 \/ p >= 1
  OBVIOUS
<1> DEFINE r == Piece(n, p, p + 1)
<1>3. r \in PieceSet /\ r.n = n /\ r.beg = p /\ r.end = p + 1
  BY DEF Piece, PieceSet
<1> HIDE DEF r
<1>4. LexedIn(t, fl, st, r) /\ ClearIn(t, fl, r)
  BY <1>1, <1>2, <1>3 DEF LexedIn, ClearIn
<1>5. TouchedIn(t, fl, st, at, r)
  BY DEF r
<1> QED BY <1>4, <1>5 DEF SeenIn, r

\* The item a callback is about is a piece that was lexed, when clang has gone on.
Past == \A i \in DOMAIN stack' : stack'[i].n = Here => P < stack'[i].p

LEMMA Positions ==
  ASSUME NEW st \in Seq([n : Nat, p : Nat])
  PROVE  \A i \in DOMAIN st : st[i].n \in Nat /\ st[i].p \in Nat
<1>1. \A i \in DOMAIN st : st[i] \in [n : Nat, p : Nat]
  BY SeqParts
<1> QED BY <1>1

LEMMA TopOnly ==
  ASSUME NEW st \in Seq([n : Nat, p : Nat]), st # <<>>,
         \A i, j \in DOMAIN st : i < j => st[i].n < st[j].n,
         NEW i \in DOMAIN st, st[i].n = st[Len(st)].n
  PROVE  i = Len(st)
<1>1. Len(st) \in Nat /\ DOMAIN st = 1 .. Len(st) /\ Len(st) # 0
  BY SeqParts
<1>2. Len(st) \in DOMAIN st
  BY <1>1
<1>3. \A j \in DOMAIN st : st[j].n \in Nat
  BY Positions
<1> QED BY <1>1, <1>2, <1>3

LEMMA PastHere ==
  ASSUME Reading', stack' # <<>>, Here' = Here, P' > P
  PROVE  Past
<1>1. ASSUME NEW i \in DOMAIN stack', stack'[i].n = Here PROVE i = Len(stack')
  BY <1>1, TopOnly DEF Reading, Here
<1> QED BY <1>1 DEF Past, P

LEMMA ThisIsSeen ==
  ASSUME Reading, Reading', NEW ops, Lexes(ops), Past, Onward(file, stack, file', stack'),
         UNCHANGED text, KeepsIfs(text, file, stack, atEnd, file', stack', atEnd'),
         Item.op \in Ifs => \E i \in DOMAIN stack' : /\ stack'[i].n = Here /\ P < stack'[i].p
                                                     /\ stack'[i].p <= Match(text[file[Here]], P)
  PROVE  /\ SeenIn(text', file', stack', atEnd', This)
         /\ This = Piece(Here, P, P + 1) /\ This.n = Here /\ This.beg = P /\ This.end = P + 1
         /\ text'[file'[Here]][P + 1] = Item
<1>1. /\ Here \in DOMAIN file /\ P \in Nat /\ P + 1 \in P .. Len(text[file[Here]])
      /\ Item = text[file[Here]][P + 1] /\ file[Here] \in Files /\ stack # <<>>
  BY AtItem
<1>2. Here \in DOMAIN file' /\ file'[Here] = file[Here] /\ Here \in Nat
  BY <1>1, StackParts DEF Onward
<1>3. Len(text[file[Here]]) \in Nat
  BY <1>1, TextParts DEF Reading
<1>4. \A i \in DOMAIN stack' : stack'[i].p \in Nat
  BY Positions DEF Reading
<1>5. P + 1 <= Len(text'[file'[Here]])
  BY <1>1, <1>2, <1>3
<1>6. TouchedIn(text', file', stack', atEnd', Piece(Here, P, P + 1))
  <2> DEFINE t == text[file[Here]]
             r == Piece(Here, P, P + 1)
  <2>1. r.n = Here /\ r.beg = P /\ r.end - 1 = P
    BY <1>1 DEF Piece
  <2>2. text'[file'[Here]] = t
    BY <1>2
  <2>3. ASSUME NEW q, IsIf(t, q), q <= P, P <= Match(t, q)
        PROVE  SeenIf(text', file', stack', atEnd', Here, q)
    <3>1. CASE q = P
      <4>1. \E i \in DOMAIN stack' : stack'[i].n = Here /\ q < stack'[i].p
                                       /\ stack'[i].p <= Match(t, q)
        BY <1>1, <2>3, <3>1 DEF IsIf
      <4> QED BY <2>2, <4>1 DEF SeenIf
    <3>2. CASE q # P
      <4>1. q < P /\ Len(stack) \in DOMAIN stack
        BY <1>1, <2>3, <3>2, Innermost DEF IsIf
      <4>2. SeenIf(text, file, stack, atEnd, Here, q)
        BY <2>3, <4>1 DEF SeenIf, Here, P
      <4> QED BY <1>1, <2>3, <4>2 DEF KeepsIfs
    <3> QED BY <3>1, <3>2
  <2> HIDE DEF r, t
  <2> QED BY <2>1, <2>2, <2>3 DEF TouchedIn, InIf, r
<1>7. SeenIn(text', file', stack', atEnd', Piece(Here, P, P + 1))
  BY <1>1, <1>2, <1>4, <1>5, <1>6, JustLexed DEF Past
<1> QED BY <1>1, <1>2, <1>7 DEF This, Piece

-----------------------------------------------------------------------------
(* What clang and the plugin note while they read                          *)

Defining ==
  /\ DOMAIN macro = Macros /\ DOMAIN defs = Macros
  /\ \A m \in Macros : macro[m] # None => DefinitionIn(text, file, stack, atEnd, macro[m])
  /\ \A m \in Macros : defs[m] # None => SeenIn(text, file, stack, atEnd, defs[m])

Expanding ==
  /\ expanding \in Seq(Macros)
  /\ \A i \in DOMAIN expanding : macro[expanding[i]] # None
  /\ expanding # <<>> => stack # <<>> /\ P > 0 /\ text[file[Here]][P].op = "expand"

Declarations ==
  /\ DOMAIN decls = Symbols
  /\ \A s \in Symbols : decls[s] # None => SeenIn(text, file, stack, atEnd, decls[s])
  /\ decl # None => DeclIn(text, file, stack, atEnd, decls, decl) /\ ended = None
  /\ ended # None => /\ DeclIn(text, file, stack, atEnd, decls, ended)
                     /\ SeenIn(text, file, stack, atEnd, Piece(ended.n, ended.beg, ended.end))

\* The uses and the ranges that may be put off, and the calls that may be made.
Uses(t, fl, st, at) == {l \in LateSet : LateIn(t, fl, st, at, l)}
Ends(t, fl, st) == {r \in PieceSet : LexedIn(t, fl, st, r) /\ IfRange(t, fl, r)}
Calls(t, fl, st, at) == {c \in CallSet : CallIn(t, fl, st, at, c)}

Late == atEnd \in [ifndef : Seq(Uses(text, file, stack, atEnd)),
                   ifdef  : Seq(Uses(text, file, stack, atEnd)),
                   endif  : Seq(Ends(text, file, stack))]

Calling == todo \in Seq(Calls(text, file, stack, atEnd))

LEMMA TextStays ==
  ASSUME [PluginNext]_pluginVars
  PROVE  UNCHANGED text
BY DEF PluginNext, pluginVars, clang, Perform, MacroDefined, MacroUndefined, MacroExpands,
       NestedMacroExpands, If, Else, EndifSeen, InclusionDirective, FileChanged, DeclBegins,
       DeclRefers, DeclEnds, EndOfMain, HandleTranslationUnit, FinalizeRuns

-----------------------------------------------------------------------------
(* Conditionals that were seen                                             *)

EndifsKept == \A i \in DOMAIN atEnd.endif : i \in DOMAIN atEnd'.endif
                                         /\ atEnd'.endif[i] = atEnd.endif[i]

\* clang went on in one file, and to no place after a conditional it was in, unless it
\* noted its range.
LEMMA IfsOpen ==
  ASSUME Reading, stack # <<>>, Onward(file, stack, file', stack'), EndifsKept,
         \A i \in DOMAIN stack : /\ i \in DOMAIN stack' /\ stack'[i].n = stack[i].n
                                 /\ i # Len(stack) => stack'[i] = stack[i],
         NEW to \in Nat, stack'[Len(stack)].p = to, P <= to,
         \A q : /\ IsIf(text[file[Here]], q) /\ q < P /\ P <= Match(text[file[Here]], q)
                /\ Match(text[file[Here]], q) < to
                => \E i \in DOMAIN atEnd'.endif :
                      atEnd'.endif[i] = Piece(Here, q, Match(text[file[Here]], q) + 1)
  PROVE  KeepsIfs(text, file, stack, atEnd, file', stack', atEnd')
<1> SUFFICES ASSUME NEW n \in DOMAIN file, NEW q, IsIf(text[file[n]], q),
                    SeenIf(text, file, stack, atEnd, n, q)
             PROVE  SeenIf(text, file', stack', atEnd', n, q)
  BY DEF KeepsIfs
<1> DEFINE m == Match(text[file[n]], q)
<1>1. file'[n] = file[n]
  BY DEF Onward
<1>2. CASE \E i \in DOMAIN atEnd.endif : atEnd.endif[i] = Piece(n, q, m + 1)
  BY <1>1, <1>2 DEF SeenIf, EndifsKept
<1>3. CASE \E i \in DOMAIN stack : stack[i].n = n /\ q < stack[i].p /\ stack[i].p <= m
  <2>1. PICK i \in DOMAIN stack : stack[i].n = n /\ q < stack[i].p /\ stack[i].p <= m
    BY <1>3
  <2>a. i \in DOMAIN stack' /\ stack'[i].n = n
    BY <2>1
  <2>2. CASE i # Len(stack)
    <3>1. stack'[i] = stack[i]
      BY <2>1, <2>2
    <3> QED BY <1>1, <2>1, <2>a, <3>1 DEF SeenIf
  <2>3. CASE i = Len(stack)
    <3>1. n = Here /\ q < P /\ P <= m
      BY <2>1, <2>3 DEF Here, P
    <3>2. q \in Nat /\ P \in Nat /\ m \in Nat
      <4>1. Len(text[file[n]]) \in Nat /\ Balanced(text[file[n]])
        BY StackParts, TextParts DEF Reading
      <4> QED BY <2>1, <2>3, <4>1, MatchCloses, StackParts DEF P
    <3>3. CASE to <= m
      <4>1. stack'[i].p = to
        BY <2>3
      <4>2. q < stack'[i].p /\ stack'[i].p <= m
        BY <3>1, <3>2, <3>3, <4>1
      <4> QED BY <1>1, <2>a, <4>2 DEF SeenIf
    <3>4. CASE m < to
      BY <1>1, <3>1, <3>4 DEF SeenIf
    <3> QED BY <3>2, <3>3, <3>4
  <2> QED BY <2>2, <2>3
<1> QED BY <1>2, <1>3 DEF SeenIf

LEMMA IfsUnmoved ==
  ASSUME Onward(file, stack, file', stack'), EndifsKept,
         \A i \in DOMAIN stack : i \in DOMAIN stack' /\ stack'[i] = stack[i]
  PROVE  KeepsIfs(text, file, stack, atEnd, file', stack', atEnd')
<1>1. \A n \in DOMAIN file : file'[n] = file[n]
  BY DEF Onward
<1> QED BY <1>1 DEF KeepsIfs, SeenIf, EndifsKept

\* What is noted of the end of a conditional is kept.
LEMMA EndsKept ==
  ASSUME Late, [PluginNext]_pluginVars
  PROVE  EndifsKept
<1>1. CASE EndifSeen
  <2> DEFINE S == Ends(text, file, stack)
             r == Piece(Here, IfOf(text[file[Here]], P), P + 1)
  <2>1. atEnd' = [atEnd EXCEPT !.endif = Append(@, r)]
    BY <1>1 DEF EndifSeen
  <2> HIDE DEF r
  <2>2. atEnd'.endif = Append(atEnd.endif, r) /\ atEnd.endif \in Seq(S)
    BY <2>1 DEF Late
  <2> HIDE DEF S
  <2>3. ASSUME NEW s \in Seq(S)
        PROVE  \A i \in DOMAIN s : i \in DOMAIN Append(s, r) /\ Append(s, r)[i] = s[i]
    OBVIOUS
  <2> QED BY <2>2, <2>3 DEF EndifsKept
<1>2. CASE If
  <2>1. PutOff(Item.op, macro[Item.arg])
    BY <1>2 DEF If
  <2>2. atEnd'.endif = atEnd.endif
    BY <2>1 DEF PutOff, Late
  <2> QED BY <2>2 DEF EndifsKept
<1>3. CASE UNCHANGED atEnd
  BY <1>3 DEF EndifsKept
<1> QED
  BY <1>1, <1>2, <1>3
     DEF PluginNext, pluginVars, plugin, Perform, MacroDefined, MacroUndefined, MacroExpands,
         NestedMacroExpands, Else, InclusionDirective, FileChanged, DeclBegins, DeclRefers,
         DeclEnds, EndOfMain, HandleTranslationUnit, FinalizeRuns

\* Where clang goes to in the file it is in.
LEMMA Went ==
  ASSUME Reading, stack # <<>>, NEW q, GoTo(q)
  PROVE  /\ \A i \in DOMAIN stack : /\ i \in DOMAIN stack' /\ stack'[i].n = stack[i].n
                                    /\ i # Len(stack) => stack'[i] = stack[i]
         /\ stack'[Len(stack)].p = q
<1>1. /\ Len(stack) \in DOMAIN stack
      /\ \A i \in DOMAIN stack : stack[i] = [n |-> stack[i].n, p |-> stack[i].p]
  BY Innermost, StackParts
<1> QED BY <1>1 DEF GoTo

\* A conditional that ends at an item ends at an #endif.
LEMMA EndsHere ==
  ASSUME Reading, NEW ops, Lexes(ops), NEW q, IsIf(text[file[Here]], q),
         Match(text[file[Here]], q) = P
  PROVE  Item.op = "endif"
<1>1. file[Here] \in Files /\ Item = text[file[Here]][P + 1]
  BY AtItem
<1>2. Len(text[file[Here]]) \in Nat /\ Balanced(text[file[Here]])
  BY <1>1, TextParts DEF Reading
<1> QED BY <1>1, <1>2, MatchCloses

LEMMA IfsAdvance ==
  ASSUME Reading, NEW ops, Lexes(ops), GoTo(P + 1), EndifsKept, Onward(file, stack, file', stack'),
         "endif" \notin ops
  PROVE  KeepsIfs(text, file, stack, atEnd, file', stack', atEnd')
<1> DEFINE t == text[file[Here]]
<1>1. stack # <<>> /\ P \in Nat /\ Item.op \in ops /\ file[Here] \in Files
  BY AtItem
<1>2. Len(t) \in Nat /\ Balanced(t)
  BY <1>1, TextParts DEF Reading
<1>3. ASSUME NEW q, IsIf(t, q), P <= Match(t, q) PROVE ~(Match(t, q) < P + 1)
  <2>1. Match(t, q) # P
    BY <1>1, <1>3, EndsHere
  <2>2. Match(t, q) \in Nat
    BY <1>2, <1>3, MatchCloses
  <2> QED BY <1>1, <1>3, <2>1, <2>2
<1> HIDE DEF t
<1>4. P + 1 \in Nat /\ P <= P + 1
  BY <1>1
<1> QED BY <1>1, <1>3, <1>4, Went, IfsOpen DEF t

LEMMA IfsStay ==
  ASSUME Reading, Late, [PluginNext]_pluginVars
  PROVE  KeepsIfs(text, file, stack, atEnd, file', stack', atEnd')
<1>0. Reading' /\ Onward(file, stack, file', stack') /\ EndifsKept
  BY ReadingStep, EndsKept
<1> DEFINE t == text[file[Here]]
<1>1. CASE If
  <2>1. Lexes(Ifs) /\ P' <= Match(t, P) /\ P' > P /\ \E q : GoTo(q)
    BY <1>1, ReadingIf DEF If
  <2>2. /\ stack # <<>> /\ P \in Nat /\ P + 1 \in P .. Len(t) /\ file[Here] \in Files
        /\ t[P + 1].op \in Ifs
    BY <2>1, AtItem
  <2>3. Len(t) \in Nat /\ Balanced(t)
    BY <2>2, TextParts DEF Reading
  <2>4. IsIf(t, P) /\ Match(t, P) \in Nat
    BY <2>2, <2>3, MatchCloses DEF IsIf
  <2>5. PICK to : GoTo(to)
    BY <2>1
  <2>6. stack'[Len(stack)].p = to /\ Len(stack') = Len(stack)
    BY <2>2, <2>5, Went DEF GoTo, Reading
  <2>7. P' = to /\ to \in Nat
    <3>1. P' = stack'[Len(stack')].p
      BY DEF P
    <3>2. stack' # <<>>
      BY <1>1, ReadingIf
    <3>3. Len(stack') \in DOMAIN stack'
      BY <1>0, <3>2 DEF Reading
    <3>4. \A i \in DOMAIN stack' : stack'[i].p \in Nat
      BY <1>0, Positions DEF Reading
    <3> QED BY <2>6, <3>1, <3>3, <3>4
  <2>8. ASSUME NEW q, IsIf(t, q), q < P, P <= Match(t, q) PROVE ~(Match(t, q) < to)
    <3>1. Match(t, P) < Match(t, q) /\ Match(t, q) \in Nat
      BY <2>3, <2>4, <2>8, Nested, MatchCloses
    <3> QED BY <2>1, <2>4, <2>7, <3>1
  <2> HIDE DEF t
  <2>9. P <= to
    BY <2>1, <2>2, <2>7
  <2> QED BY <1>0, <2>2, <2>5, <2>6, <2>7, <2>8, <2>9, Went, IfsOpen DEF t
<1>2. CASE Else
  <2> DEFINE to == Match(t, IfOfElse(t, P))
  <2>1. Lexes({"else"}) /\ GoTo(to)
    BY <1>2 DEF Else
  <2>2. /\ stack # <<>> /\ P \in Nat /\ P + 1 \in P .. Len(t) /\ file[Here] \in Files
        /\ t[P + 1].op = "else"
    BY <2>1, AtItem
  <2>3. Len(t) \in Nat /\ Balanced(t)
    BY <2>2, TextParts DEF Reading
  <2>4. P \in 0 .. Len(t) - 1
    BY <2>2, <2>3
  <2>5. to \in P + 1 .. Len(t) - 1
    BY <2>2, <2>3, <2>4, IfAroundElse
  <2>6. to \in Nat /\ P <= to
    BY <2>2, <2>3, <2>5
  <2>7. ASSUME NEW q, IsIf(t, q), q < P, P <= Match(t, q) PROVE ~(Match(t, q) < to)
    <3>1. to <= Match(t, q) /\ Match(t, q) \in Nat
      BY <2>2, <2>3, <2>4, <2>7, AroundElse, MatchCloses
    <3> QED BY <2>6, <3>1
  <2> HIDE DEF t, to
  <2> QED BY <1>0, <2>1, <2>2, <2>6, <2>7, Went, IfsOpen DEF t
<1>3. CASE EndifSeen
  <2>1. /\ Lexes({"endif"}) /\ GoTo(P + 1)
        /\ atEnd' = [atEnd EXCEPT !.endif = Append(@, Piece(Here, IfOf(t, P), P + 1))]
    BY <1>3 DEF EndifSeen
  <2>2. /\ stack # <<>> /\ P \in Nat /\ P + 1 \in P .. Len(t) /\ file[Here] \in Files
        /\ t[P + 1].op = "endif"
    BY <2>1, AtItem
  <2>3. Len(t) \in Nat /\ Balanced(t)
    BY <2>2, TextParts DEF Reading
  <2>4. P \in 0 .. Len(t) - 1
    BY <2>2, <2>3
  <2>5. \E i \in DOMAIN atEnd'.endif : atEnd'.endif[i] = Piece(Here, IfOf(t, P), P + 1)
    <3> DEFINE r == Piece(Here, IfOf(t, P), P + 1)
    <3>1. atEnd'.endif = Append(atEnd.endif, r) /\ atEnd.endif \in Seq(Ends(text, file, stack))
      BY <2>1 DEF Late
    <3> HIDE DEF r
    <3>2. ASSUME NEW S, NEW s \in Seq(S) PROVE \E i \in DOMAIN Append(s, r) : Append(s, r)[i] = r
      <4>1. Len(s) + 1 \in DOMAIN Append(s, r) /\ Append(s, r)[Len(s) + 1] = r
        OBVIOUS
      <4> QED BY <4>1
    <3>3. \E i \in DOMAIN atEnd'.endif : atEnd'.endif[i] = r
      BY <3>1, <3>2
    <3> QED BY <3>3 DEF r
  <2>6. ASSUME NEW q, IsIf(t, q), q < P, P <= Match(t, q), Match(t, q) < P + 1
        PROVE  \E i \in DOMAIN atEnd'.endif : atEnd'.endif[i] = Piece(Here, q, Match(t, q) + 1)
    <3>1. Match(t, q) = P
      BY <2>2, <2>3, <2>6, MatchCloses
    <3>2. q = IfOf(t, P)
      BY <2>2, <2>3, <2>4, <2>6, <3>1, IfBeforeEndif
    <3> QED BY <2>5, <3>1, <3>2
  <2> HIDE DEF t
  <2>7. P + 1 \in Nat /\ P <= P + 1
    BY <2>2
  <2> QED BY <1>0, <2>1, <2>2, <2>6, <2>7, Went, IfsOpen DEF t
<1>4. CASE InclusionDirective
  <2> DEFINE l == Len(stack)
             next == [stack EXCEPT ![l].p = P + 1]
             top == [n |-> Len(file) + 1, p |-> 0]
  <2>1. Lexes({"include"}) /\ (stack' = next \/ stack' = Append(next, top))
    BY <1>4 DEF InclusionDirective
  <2>2. /\ stack # <<>> /\ P \in Nat /\ file[Here] \in Files /\ Item.op = "include"
    BY <2>1, AtItem
  <2>3. Len(t) \in Nat /\ Balanced(t)
    BY <2>2, TextParts DEF Reading
  <2>4. /\ l \in DOMAIN stack /\ l \in Nat /\ DOMAIN stack = 1 .. l
        /\ \A i \in DOMAIN stack : stack[i] = [n |-> stack[i].n, p |-> stack[i].p]
    BY <2>2, Innermost, StackParts
  <2>5. /\ DOMAIN next = 1 .. l /\ next[l].p = P + 1 /\ Len(next) = l
        /\ \A i \in 1 .. l : next[i].n = stack[i].n /\ (i # l => next[i] = stack[i])
    BY <2>4 DEF Reading
  <2> HIDE DEF next, l, top
  <2>6. \A i \in 1 .. l : i \in DOMAIN stack' /\ stack'[i] = next[i]
    BY <2>1, <2>4, <2>5
  <2>7. ASSUME NEW q, IsIf(t, q), P <= Match(t, q) PROVE ~(Match(t, q) < P + 1)
    <3>1. Match(t, q) # P
      BY <2>1, <2>2, <2>7, EndsHere
    <3>2. Match(t, q) \in Nat
      BY <2>3, <2>7, MatchCloses
    <3> QED BY <2>2, <2>7, <3>1, <3>2
  <2> HIDE DEF t
  <2>8. P + 1 \in Nat /\ P <= P + 1 /\ stack'[Len(stack)].p = P + 1
    <3>1. stack'[l] = next[l]
      BY <2>4, <2>6
    <3>2. stack'[l].p = P + 1
      BY <2>5, <3>1, Zenon
    <3>3. P + 1 \in Nat /\ P <= P + 1
      BY <2>2
    <3> QED BY <3>2, <3>3, Zenon DEF l
  <2>9. \A i \in DOMAIN stack : /\ i \in DOMAIN stack' /\ stack'[i].n = stack[i].n
                                /\ i # Len(stack) => stack'[i] = stack[i]
    BY <2>4, <2>5, <2>6 DEF l
  <2> QED BY <1>0, <2>2, <2>7, <2>8, <2>9, IfsOpen DEF t
<1>5. CASE FileChanged \/ EndOfMain
  <2>1. /\ stack # <<>> /\ P = Len(t)
        /\ \A i \in DOMAIN stack : i # Len(stack) => i \in DOMAIN stack' /\ stack'[i] = stack[i]
    <3>1. CASE FileChanged
      <4>1. stack # <<>> /\ P = Len(t) /\ Len(stack) > 1
        BY <3>1 DEF FileChanged
      <4>2. ASSUME NEW i \in DOMAIN stack, i # Len(stack) PROVE stack[i].n # Here
        <5>1. i < Len(stack) => stack[i].n < Here
          BY <4>1, Innermost DEF Reading, Here
        <5>2. i < Len(stack) /\ Here \in Nat
          BY <4>1, <4>2, StackParts, Innermost DEF Here
        <5> QED BY <5>1, <5>2
      <4> QED BY <3>1, <4>1, <4>2, ReadingPop
    <3>2. CASE EndOfMain
      <4>1. Len(stack) = 1 /\ P = Len(text[Main])
        BY <3>2 DEF EndOfMain
      <4>2. stack # <<>> /\ DOMAIN stack = 1 .. 1
        BY <4>1, StackParts
      <4>3. stack[1].n = 1 /\ file[1] = Main
        BY <4>2 DEF Reading
      <4> QED BY <4>1, <4>2, <4>3 DEF Here
    <3> QED BY <1>5, <3>1, <3>2
  <2>2. Len(t) \in Nat /\ Balanced(t)
    BY <2>1, Innermost, TextParts DEF Reading
  <2>3. \A q : IsIf(t, q) => ~(P <= Match(t, q))
    BY <2>1, <2>2, MatchCloses
  <2> SUFFICES ASSUME NEW n \in DOMAIN file, NEW q, IsIf(text[file[n]], q),
                      SeenIf(text, file, stack, atEnd, n, q)
               PROVE  SeenIf(text, file', stack', atEnd', n, q)
    BY DEF KeepsIfs
  <2>4. file'[n] = file[n]
    BY <1>0 DEF Onward
  <2>5. ASSUME NEW i \in DOMAIN stack, stack[i].n = n, q < stack[i].p,
               stack[i].p <= Match(text[file[n]], q)
        PROVE  i # Len(stack)
    BY <2>3, <2>5 DEF Here, P
  <2> QED BY <1>0, <2>1, <2>4, <2>5 DEF SeenIf, EndifsKept
<1>6. CASE UNCHANGED stack
  BY <1>0, <1>6, IfsUnmoved
<1>7. CASE MacroDefined \/ MacroUndefined \/ MacroExpands \/ DeclBegins \/ DeclRefers \/ DeclEnds
  BY <1>0, <1>7, IfsAdvance DEF MacroDefined, MacroUndefined, MacroExpands, DeclBegins,
     DeclRefers, DeclEnds
<1> QED
  BY <1>1, <1>2, <1>3, <1>4, <1>5, <1>6, <1>7
     DEF PluginNext, pluginVars, clang, Perform, NestedMacroExpands, HandleTranslationUnit,
         FinalizeRuns

-----------------------------------------------------------------------------
(* What stays                                                              *)

\* In every step what was seen stays seen.
Moving == /\ Reading /\ Reading' /\ Onward(file, stack, file', stack') /\ UNCHANGED text
          /\ KeepsIfs(text, file, stack, atEnd, file', stack', atEnd')

LEMMA StepMoves ==
  ASSUME Reading, Late, [PluginNext]_pluginVars
  PROVE  Moving
BY ReadingStep, TextStays, IfsStay DEF Moving

LEMMA Staying ==
  ASSUME Moving
  PROVE  /\ \A r : LexedIn(text, file, stack, r) => LexedIn(text', file', stack', r)
         /\ \A r : SeenIn(text, file, stack, atEnd, r) => SeenIn(text', file', stack', atEnd', r)
         /\ \A r : DefinitionIn(text, file, stack, atEnd, r)
                     => DefinitionIn(text', file', stack', atEnd', r)
         /\ \A l : LateIn(text, file, stack, atEnd, l) => LateIn(text', file', stack', atEnd', l)
         /\ \A c : CallIn(text, file, stack, atEnd, c) => CallIn(text', file', stack', atEnd', c)
         /\ \A ds, d : DeclIn(text, file, stack, atEnd, ds, d)
                         => DeclIn(text', file', stack', atEnd', ds, d)
<1>1. \A i \in DOMAIN stack : stack[i].p \in Nat
  BY Positions DEF Moving, Reading
<1>2. \A i \in DOMAIN stack' : stack'[i].p \in Nat
  BY Positions DEF Moving, Reading
<1>3. /\ Onward(file, stack, file', stack') /\ text' = text
      /\ KeepsIfs(text, file, stack, atEnd, file', stack', atEnd')
  BY DEF Moving
<1>4. \A r : LexedIn(text, file, stack, r) => LexedIn(text, file', stack', r)
  BY <1>1, <1>2, <1>3, LexedStays
<1>5. /\ \A r : SeenIn(text, file, stack, atEnd, r) => SeenIn(text, file', stack', atEnd', r)
      /\ \A r : DefinitionIn(text, file, stack, atEnd, r)
                  => DefinitionIn(text, file', stack', atEnd', r)
      /\ \A l : LateIn(text, file, stack, atEnd, l) => LateIn(text, file', stack', atEnd', l)
      /\ \A c : CallIn(text, file, stack, atEnd, c) => CallIn(text, file', stack', atEnd', c)
  BY <1>1, <1>2, <1>3, SeenStays
<1>6. \A ds, d : DeclIn(text, file, stack, atEnd, ds, d)
                    => DeclIn(text, file', stack', atEnd', ds, d)
  BY <1>1, <1>2, <1>3, DeclStays
<1> QED BY <1>3, <1>4, <1>5, <1>6

\* This is seen once a directive or token was lexed.
LEMMA AdvanceSees ==
  ASSUME Moving, NEW ops, Lexes(ops), Advances, ops \cap Ifs = {}
  PROVE  /\ SeenIn(text', file', stack', atEnd', This)
         /\ This = Piece(Here, P, P + 1) /\ This.n = Here /\ This.beg = P /\ This.end = P + 1
         /\ text'[file'[Here]][P + 1] = Item
         /\ stack' # <<>> /\ Here' = Here /\ P' = P + 1 /\ P \in Nat /\ Past
<1>1. Here' = Here /\ P' = P + 1 /\ stack' # <<>>
  BY ReadingAdvance DEF Moving
<1>2. P \in Nat
  BY AtItem DEF Moving
<1>3. Past
  BY <1>1, <1>2, PastHere DEF Moving
<1>4. Item.op \notin Ifs
  BY AtItem DEF Moving
<1> QED BY <1>1, <1>2, <1>3, <1>4, ThisIsSeen DEF Moving

LEMMA DefinitionsStay ==
  ASSUME Moving, Defining, UNCHANGED <<macro, defs>>
  PROVE  Defining'
BY Staying, Zenon DEF Defining

LEMMA DefinitionsStep ==
  ASSUME Moving, Defining, [PluginNext]_pluginVars
  PROVE  Defining'
<1>1. CASE MacroDefined
  <2>1. Lexes({"define"}) /\ Advances
    BY <1>1 DEF MacroDefined, Advances
  <2>2. Item.op = "define" /\ Item.arg \in Macros
    BY <2>1, AtItem DEF Moving, ItemOK
  <2>3. /\ DefinitionIn(text', file', stack', atEnd', This)
        /\ SeenIn(text', file', stack', atEnd', This)
    BY <2>1, <2>2, AdvanceSees DEF DefinitionIn, Ifs
  <2>4. /\ macro' = [macro EXCEPT ![Item.arg] = This]
        /\ defs' = defs \/ defs' = [defs EXCEPT ![Item.arg] = This]
    BY <1>1 DEF MacroDefined
  <2>5. /\ DOMAIN macro' = Macros /\ DOMAIN defs' = Macros
        /\ \A m \in Macros : macro'[m] = macro[m] \/ macro'[m] = This
        /\ \A m \in Macros : defs'[m] = defs[m] \/ defs'[m] = This
    BY <2>2, <2>4 DEF Defining
  <2>6. ASSUME NEW m \in Macros, macro'[m] # None
        PROVE  DefinitionIn(text', file', stack', atEnd', macro'[m])
    BY <2>3, <2>5, <2>6, Staying DEF Defining
  <2>7. ASSUME NEW m \in Macros, defs'[m] # None
        PROVE  SeenIn(text', file', stack', atEnd', defs'[m])
    BY <2>3, <2>5, <2>7, Staying DEF Defining
  <2> QED BY <2>5, <2>6, <2>7 DEF Defining
<1>2. CASE MacroUndefined
  <2>1. /\ macro' = [macro EXCEPT ![Item.arg] = None] /\ defs' = defs
    BY <1>2 DEF MacroUndefined, plugin
  <2>2. /\ DOMAIN macro' = Macros
        /\ \A m \in Macros : macro'[m] = macro[m] \/ macro'[m] = None
    BY <2>1 DEF Defining
  <2>3. ASSUME NEW m \in Macros, macro'[m] # None
        PROVE  DefinitionIn(text', file', stack', atEnd', macro'[m])
    BY <2>2, <2>3, Staying DEF Defining
  <2> QED BY <2>1, <2>2, <2>3, Staying DEF Defining
<1>3. CASE UNCHANGED <<macro, defs>>
  BY <1>3, DefinitionsStay
<1> QED
  BY <1>1, <1>2, <1>3
     DEF PluginNext, pluginVars, clang, plugin, Perform, MacroExpands, NestedMacroExpands, If,
         Else, EndifSeen, InclusionDirective, FileChanged, DeclBegins, DeclRefers, DeclEnds,
         EndOfMain, HandleTranslationUnit, FinalizeRuns

\* The macro in the body of a macro is again one that is defined.
LEMMA ExpandsDefined ==
  ASSUME Reading, Defining, NEW outer \in Seq(Macros), NEW m \in Macros, macro[m] # None,
         \A i \in DOMAIN outer : macro[outer[i]] # None
  PROVE  /\ ExpandsIn(outer, m) \in Seq(Macros)
         /\ \A i \in DOMAIN ExpandsIn(outer, m) : macro[ExpandsIn(outer, m)[i]] # None
<1> DEFINE inside == Append(outer, m)
<1>1. DefinitionIn(text, file, stack, atEnd, macro[m])
  BY DEF Defining
<1>2. /\ macro[m].n \in DOMAIN file /\ macro[m].beg \in Nat /\ macro[m].end \in Nat
      /\ macro[m].beg < macro[m].end /\ macro[m].end <= Len(text[file[macro[m].n]])
      /\ text[file[macro[m].n]][macro[m].beg + 1].op = "define"
  BY <1>1 DEF DefinitionIn, SeenIn, LexedIn, PieceSet
<1>3. file[macro[m].n] \in Files /\ text \in Texts
  BY <1>2, StackParts DEF Reading
<1>4. Len(text[file[macro[m].n]]) \in Nat
  BY <1>3, TextParts
<1>5. macro[m].beg \in 0 .. Len(text[file[macro[m].n]]) - 1
  BY <1>2, <1>4
<1>6. ItemOK(text[file[macro[m].n]][macro[m].beg + 1])
  BY <1>3, <1>5, TextParts
<1>7. Body(m) \in Macros \cup {None}
  BY <1>2, <1>6 DEF Body, ItemOK
<1>8. /\ inside \in Seq(Macros) /\ Len(inside) = Len(outer) + 1 /\ Len(outer) \in Nat
      /\ \A i \in 1 .. Len(outer) : inside[i] = outer[i]
      /\ inside[Len(outer) + 1] = m /\ DOMAIN outer = 1 .. Len(outer)
  OBVIOUS
<1>9. \A i \in DOMAIN inside : macro[inside[i]] # None
  <2>1. DOMAIN inside = 1 .. Len(outer) + 1
    BY <1>8
  <2>2. \A i \in 1 .. Len(outer) + 1 : i \in 1 .. Len(outer) \/ i = Len(outer) + 1
    BY <1>8
  <2> QED BY <1>8, <2>1, <2>2
<1> HIDE DEF inside
<1>10. CASE ExpandsIn(outer, m) = <<>>
  BY <1>10
<1>11. CASE /\ ExpandsIn(outer, m) = Append(inside, Body(m)) /\ Body(m) # None
            /\ macro[Body(m)] # None
  <2>1. Body(m) \in Macros
    BY <1>7, <1>11
  <2> DEFINE b == Body(m)
             all == Append(inside, b)
  <2> HIDE DEF b
  <2>2. /\ all \in Seq(Macros) /\ Len(inside) \in Nat /\ DOMAIN inside = 1 .. Len(inside)
        /\ DOMAIN all = 1 .. Len(inside) + 1
        /\ \A i \in 1 .. Len(inside) : all[i] = inside[i]
        /\ all[Len(inside) + 1] = b
    BY <1>8, <2>1 DEF b
  <2>3. \A i \in 1 .. Len(inside) + 1 : i \in 1 .. Len(inside) \/ i = Len(inside) + 1
    BY <2>2
  <2>4. macro[b] # None /\ ExpandsIn(outer, m) = all
    BY <1>11 DEF b
  <2> HIDE DEF all
  <2>5. \A i \in DOMAIN all : macro[all[i]] # None
    BY <1>9, <2>2, <2>3, <2>4
  <2> QED BY <2>2, <2>4, <2>5
<1> QED BY <1>10, <1>11 DEF ExpandsIn, inside

LEMMA ExpandingStep ==
  ASSUME Moving, Defining, Expanding, [PluginNext]_pluginVars
  PROVE  Expanding'
<1>1. CASE MacroExpands
  <2>1. Lexes({"expand"}) /\ Advances /\ macro' = macro
    BY <1>1 DEF MacroExpands, Advances
  <2>2. Item.arg \in Macros /\ expanding = <<>>
    BY <2>1, AtItem DEF Moving, ItemOK
  <2>3. /\ stack' # <<>> /\ P' > 0 /\ Here' = Here /\ P' = P + 1
        /\ text'[file'[Here]][P + 1].op = "expand"
    BY <2>1, AdvanceSees, AtItem DEF Moving, Ifs
  <2>4. \/ expanding' = expanding
        \/ macro[Item.arg] # None /\ expanding' = ExpandsIn(<<>>, Item.arg)
    BY <1>1 DEF MacroExpands
  <2>5. CASE expanding' = expanding
    BY <2>1, <2>2, <2>5 DEF Expanding
  <2>6. CASE macro[Item.arg] # None /\ expanding' = ExpandsIn(<<>>, Item.arg)
    <3>1. <<>> \in Seq(Macros) /\ \A i \in DOMAIN <<>> : macro[<<>>[i]] # None
      OBVIOUS
    <3> QED BY <2>1, <2>2, <2>3, <2>6, <3>1, ExpandsDefined DEF Expanding, Moving
  <2> QED BY <2>4, <2>5, <2>6
<1>2. CASE NestedMacroExpands
  <2> DEFINE l == Len(expanding)
             outer == SubSeq(expanding, 1, l - 1)
  <2>1. /\ expanding # <<>> /\ expanding' = ExpandsIn(outer, expanding[l])
        /\ UNCHANGED <<stack, macro>>
    BY <1>2 DEF NestedMacroExpands
  <2>2. expanding \in Seq(Macros)
    BY DEF Expanding
  <2>3. l \in DOMAIN expanding /\ expanding[l] \in Macros /\ macro[expanding[l]] # None
    BY <2>1, <2>2 DEF Expanding
  <2>4. /\ outer \in Seq(Macros) /\ DOMAIN outer = 1 .. l - 1
        /\ \A i \in 1 .. l - 1 : outer[i] = expanding[i]
    BY <2>1, <2>2, WithoutLast
  <2>5. \A i \in 1 .. l - 1 : i \in DOMAIN expanding
    BY <2>2
  <2> HIDE DEF outer, l
  <2>6. \A i \in DOMAIN outer : macro[outer[i]] # None
    BY <2>4, <2>5 DEF Expanding
  <2>7. P' = P /\ Here' = Here /\ UNCHANGED <<text, file>>
    BY <1>2, <2>1 DEF P, Here, NestedMacroExpands
  <2> QED BY <2>1, <2>3, <2>4, <2>6, <2>7, ExpandsDefined DEF Expanding, Moving
<1>3. CASE expanding' = <<>>
  BY <1>3 DEF Expanding
<1>4. CASE UNCHANGED <<expanding, macro, stack, text, file>>
  BY <1>4 DEF Expanding, P, Here
<1> QED
  BY <1>1, <1>2, <1>3, <1>4
     DEF PluginNext, pluginVars, clang, plugin, Perform, MacroDefined, MacroUndefined, If,
         Else, EndifSeen, InclusionDirective, FileChanged, DeclBegins, DeclRefers, DeclEnds,
         EndOfMain, HandleTranslationUnit, FinalizeRuns, Lexes

LEMMA DeclarationsStay ==
  ASSUME Moving, Declarations, UNCHANGED <<decl, ended, decls>>
  PROVE  Declarations'
<1>1. \A s \in Symbols : decls'[s] # None => SeenIn(text', file', stack', atEnd', decls'[s])
  BY Staying, Zenon DEF Declarations
<1>2. decl' # None => DeclIn(text', file', stack', atEnd', decls', decl') /\ ended' = None
  BY Staying, Zenon DEF Declarations
<1>3. ended' # None =>
        /\ DeclIn(text', file', stack', atEnd', decls', ended')
        /\ SeenIn(text', file', stack', atEnd', Piece(ended'.n, ended'.beg, ended'.end))
  BY Staying, Zenon DEF Declarations
<1> QED BY <1>1, <1>2, <1>3 DEF Declarations

LEMMA EndedIsLatest ==
  ASSUME Moving, Declarations, DeliverEnded
  PROVE  /\ DOMAIN decls' = Symbols
         /\ \A s \in Symbols : decls'[s] # None => SeenIn(text', file', stack', atEnd', decls'[s])
<1>1. CASE ended = None
  BY <1>1, Staying DEF DeliverEnded, Declarations
<1>2. CASE ended # None
  <2> DEFINE r == Piece(ended.n, ended.beg, ended.end)
  <2>1. SeenIn(text', file', stack', atEnd', r)
    BY <1>2, Staying DEF Declarations
  <2>2. decls' = [decls EXCEPT ![ended.what.s] = r]
    BY <1>2 DEF DeliverEnded
  <2> HIDE DEF r
  <2>3. DOMAIN decls' = Symbols /\ \A s \in Symbols : decls'[s] = decls[s] \/ decls'[s] = r
    BY <2>2 DEF Declarations
  <2> QED BY <2>1, <2>3, Staying DEF Declarations
<1> QED BY <1>1, <1>2

LEMMA BegunDecl ==
  ASSUME Moving, Declarations, DeclBegins
  PROVE  Declarations'
<1>1. /\ Lexes({"open"}) /\ Advances /\ DeliverEnded /\ ended' = None
      /\ decl' = [n |-> Here, beg |-> P, end |-> P, what |-> Item.arg, refs |-> <<>>]
  BY DEF DeclBegins, Advances
<1>2. Item.arg \in DeclSet /\ Item.op = "open"
  BY <1>1, AtItem DEF Moving, ItemOK, DeclSet
<1>3. /\ SeenIn(text', file', stack', atEnd', Piece(Here, P, P + 1))
      /\ text'[file'[Here]][P + 1].op = "open" /\ P \in Nat /\ Past
  BY <1>1, <1>2, AdvanceSees DEF Ifs
<1>4. Here \in DOMAIN file' /\ P + 1 <= Len(text'[file'[Here]]) /\ Here \in Nat
  BY <1>3 DEF SeenIn, LexedIn, Piece, PieceSet
<1>5. file'[Here] \in Files /\ text' \in Texts
  BY <1>4, SeqParts DEF Moving, Reading
<1>6. Len(text'[file'[Here]]) \in Nat
  BY <1>5, TextParts
<1>7. P < Len(text'[file'[Here]])
  BY <1>3, <1>4, <1>6
<1>8. decl' \in [n : Nat, beg : Nat, end : Nat, what : DeclSet, refs : Seq(RefSet)]
  BY <1>1, <1>2, <1>3, <1>4
<1>a. TouchedIn(text', file', stack', atEnd', Piece(Here, P, P + 1))
  BY <1>3 DEF SeenIn
<1>9. DeclIn(text', file', stack', atEnd', decls', decl')
  BY <1>1, <1>3, <1>4, <1>7, <1>8, <1>a DEF DeclIn, Past
<1> QED BY <1>1, <1>9, EndedIsLatest DEF Declarations

LEMMA ReferredDecl ==
  ASSUME Moving, Declarations, DeclRefers
  PROVE  Declarations'
<1> DEFINE ref == [at |-> This, s |-> Item.arg]
<1>1. /\ Lexes({"ref"}) /\ Advances /\ decl # None
      /\ Item.arg = decl.what.s \/ decls[Item.arg] # None
      /\ decl' = [decl EXCEPT !.refs = Append(@, ref)]
      /\ UNCHANGED <<ended, decls>>
  BY DEF DeclRefers, Advances, plugin
<1>2. Item.arg \in Symbols
  BY <1>1, AtItem DEF Moving, ItemOK
<1>3. /\ SeenIn(text', file', stack', atEnd', This) /\ This.n = Here /\ This.beg = P /\ P \in Nat
      /\ This \in PieceSet
  BY <1>1, AdvanceSees DEF SeenIn, LexedIn, Ifs
<1>4. /\ DeclIn(text, file, stack, atEnd, decls, decl)
      /\ DeclIn(text', file', stack', atEnd', decls, decl)
      /\ ended = None
  BY <1>1, Staying DEF Declarations
<1>5. /\ stack # <<>> /\ Len(stack) \in DOMAIN stack /\ stack[Len(stack)].n = Here
      /\ stack[Len(stack)].p = P
  BY <1>1, AtItem, Innermost DEF Moving
<1>6. decl.n = Here => decl.beg <= P
  <2>1. decl.n = Here => decl.beg < P
    BY <1>4, <1>5 DEF DeclIn
  <2>2. decl.beg \in Nat
    BY <1>4 DEF DeclIn
  <2> QED BY <1>3, <2>1, <2>2
<1>7. ASSUME NEW x \in Symbols, decls[x] # None, decls[x].n = Here PROVE decls[x].beg <= P
  <2>1. LexedIn(text, file, stack, decls[x])
    BY <1>7 DEF Declarations, SeenIn
  <2>2. decls[x].end <= P /\ decls[x].beg < decls[x].end /\ decls[x] \in PieceSet
    BY <1>5, <1>7, <2>1 DEF LexedIn
  <2> QED BY <1>3, <2>2 DEF PieceSet
<1> DEFINE refs2 == Append(decl.refs, ref)
<1>8. /\ decl' = [n |-> decl.n, beg |-> decl.beg, end |-> decl.end, what |-> decl.what,
                   refs |-> refs2]
      /\ decl.n \in Nat /\ decl.beg \in Nat /\ decl.end \in Nat /\ decl.what \in DeclSet
      /\ decl.refs \in Seq(RefSet)
  BY <1>1, <1>4 DEF DeclIn
<1>9. ref \in RefSet
  BY <1>2, <1>3 DEF RefSet
<1>10. /\ refs2 \in Seq(RefSet) /\ Len(decl.refs) \in Nat
       /\ DOMAIN decl.refs = 1 .. Len(decl.refs)
       /\ DOMAIN refs2 = 1 .. Len(decl.refs) + 1
       /\ \A i \in 1 .. Len(decl.refs) : refs2[i] = decl.refs[i]
       /\ refs2[Len(decl.refs) + 1] = ref
  BY <1>8, <1>9
<1> HIDE DEF refs2
<1>11. ASSUME NEW i \in DOMAIN refs2
       PROVE  /\ SeenIn(text', file', stack', atEnd', refs2[i].at)
              /\ refs2[i].at.n = decl.n => decl.beg <= refs2[i].at.beg
              /\ refs2[i].s # decl.what.s => decls[refs2[i].s] # None
              /\ \A x \in Symbols : decls[x] # None /\ decls[x].n = refs2[i].at.n =>
                                      decls[x].beg <= refs2[i].at.beg
  <2>1. CASE i \in 1 .. Len(decl.refs)
    BY <1>4, <1>10, <2>1 DEF DeclIn
  <2>2. CASE i = Len(decl.refs) + 1
    <3>1. refs2[i].at = This /\ refs2[i].s = Item.arg
      BY <1>10, <2>2
    <3> QED BY <1>1, <1>3, <1>6, <1>7, <3>1
  <2> QED BY <1>10, <2>1, <2>2
<1>12. decl' \in [n : Nat, beg : Nat, end : Nat, what : DeclSet, refs : Seq(RefSet)]
  BY <1>8, <1>10
<1>13. /\ decl'.n = decl.n /\ decl'.beg = decl.beg /\ decl'.what = decl.what
       /\ decl'.refs = refs2
  BY <1>8
<1>14. DeclIn(text', file', stack', atEnd', decls', decl')
  <2> DEFINE d == decl'
  <2>1. /\ decl.n \in DOMAIN file' /\ decl.beg < Len(text'[file'[decl.n]])
        /\ text'[file'[decl.n]][decl.beg + 1].op = "open"
        /\ \A i \in DOMAIN stack' : stack'[i].n = decl.n => decl.beg < stack'[i].p
        /\ TouchedIn(text', file', stack', atEnd', Piece(decl.n, decl.beg, decl.beg + 1))
    BY <1>4 DEF DeclIn
  <2>2. d.n = decl.n /\ d.beg = decl.beg /\ d.what = decl.what /\ d.refs = refs2
    BY <1>13
  <2>3. decls' = decls BY <1>1
  <2>4. d \in [n : Nat, beg : Nat, end : Nat, what : DeclSet, refs : Seq(RefSet)] BY <1>12
  <2> HIDE DEF d
  <2>5. /\ d.n \in DOMAIN file' /\ d.beg < Len(text'[file'[d.n]])
        /\ text'[file'[d.n]][d.beg + 1].op = "open"
        /\ \A i \in DOMAIN stack' : stack'[i].n = d.n => d.beg < stack'[i].p
        /\ TouchedIn(text', file', stack', atEnd', Piece(d.n, d.beg, d.beg + 1))
    BY <2>1, <2>2, Zenon
  <2>6. ASSUME NEW i \in DOMAIN d.refs
        PROVE  /\ SeenIn(text', file', stack', atEnd', d.refs[i].at)
               /\ d.refs[i].at.n = d.n => d.beg <= d.refs[i].at.beg
               /\ d.refs[i].s # d.what.s => decls'[d.refs[i].s] # None
               /\ \A x \in Symbols : decls'[x] # None /\ decls'[x].n = d.refs[i].at.n =>
                                       decls'[x].beg <= d.refs[i].at.beg
    BY <1>11, <2>2, <2>3, Zenon
  <2>7. DeclIn(text', file', stack', atEnd', decls', d) BY <2>4, <2>5, <2>6, Zenon DEF DeclIn
  <2> QED BY <2>7 DEF d
<1>15. \A s \in Symbols : decls[s] # None => SeenIn(text', file', stack', atEnd', decls[s])
  BY Staying DEF Declarations
<1> QED BY <1>1, <1>4, <1>14, <1>15 DEF Declarations

LEMMA EndedDecl ==
  ASSUME Moving, Declarations, DeclEnds
  PROVE  Declarations'
<1>1. /\ Lexes({"close"}) /\ Advances /\ decl # None /\ decl.n = Here
      /\ ended' = [decl EXCEPT !.end = P + 1] /\ decl' = None
      /\ decls' = decls
  BY DEF DeclEnds, Advances, plugin
<1>2. /\ SeenIn(text', file', stack', atEnd', Piece(Here, P, P + 1)) /\ P \in Nat /\ Past
  BY <1>1, AdvanceSees DEF Ifs
<1>3. /\ DeclIn(text, file, stack, atEnd, decls, decl)
      /\ DeclIn(text', file', stack', atEnd', decls, decl)
  BY <1>1, Staying DEF Declarations
<1>4. /\ stack # <<>> /\ Len(stack) \in DOMAIN stack /\ stack[Len(stack)].n = Here
      /\ stack[Len(stack)].p = P
  BY <1>1, AtItem, Innermost DEF Moving
<1>5. decl.beg < P /\ decl.beg \in Nat
  BY <1>1, <1>3, <1>4 DEF DeclIn
<1>6. /\ ended' = [n |-> decl.n, beg |-> decl.beg, end |-> P + 1, what |-> decl.what,
                    refs |-> decl.refs]
      /\ ended' \in [n : Nat, beg : Nat, end : Nat, what : DeclSet, refs : Seq(RefSet)]
  BY <1>1, <1>2, <1>3 DEF DeclIn
<1>7. DeclIn(text', file', stack', atEnd', decls', ended')
  BY <1>1, <1>3, <1>6 DEF DeclIn
<1> DEFINE r == Piece(ended'.n, ended'.beg, ended'.end)
<1>8. r = Piece(Here, decl.beg, P + 1)
  BY <1>1, <1>6
<1>9. /\ Here \in DOMAIN file' /\ P + 1 <= Len(text'[file'[Here]]) /\ Here \in Nat
      /\ \A i \in DOMAIN stack' : stack'[i].n = Here => P + 1 <= stack'[i].p
  BY <1>2 DEF SeenIn, LexedIn, Piece, PieceSet
<1>10. LexedIn(text', file', stack', r)
  BY <1>2, <1>5, <1>8, <1>9 DEF LexedIn, Piece, PieceSet
<1>11. text'[file'[Here]][decl.beg + 1].op = "open"
  BY <1>1, <1>3 DEF DeclIn
<1>12. Wrapped(text'[file'[Here]]) => decl.beg # 0
  BY <1>11 DEF Wrapped
<1>13. r.n = Here /\ r.beg = decl.beg
  BY <1>8 DEF Piece
<1>16. TouchedIn(text', file', stack', atEnd', r)
  <2>1. TouchedIn(text', file', stack', atEnd', Piece(Here, P, P + 1))
    BY <1>2 DEF SeenIn
  <2>2. TouchedIn(text', file', stack', atEnd', Piece(Here, decl.beg, decl.beg + 1))
    BY <1>1, <1>3 DEF DeclIn
  <2>3. r.end - 1 = P
    BY <1>2, <1>8 DEF Piece
  <2>4. /\ Piece(Here, P, P + 1).n = Here /\ Piece(Here, P, P + 1).end - 1 = P
        /\ Piece(Here, decl.beg, decl.beg + 1).n = Here
        /\ Piece(Here, decl.beg, decl.beg + 1).beg = decl.beg
    BY <1>2 DEF Piece
  <2> HIDE DEF r
  <2> QED BY <1>13, <2>1, <2>2, <2>3, <2>4 DEF TouchedIn
<1> HIDE DEF r
<1>14. ClearIn(text', file', r)
  BY <1>5, <1>12, <1>13 DEF ClearIn
<1>15. \A s \in Symbols : decls[s] # None => SeenIn(text', file', stack', atEnd', decls[s])
  BY Staying DEF Declarations
<1> QED BY <1>1, <1>7, <1>10, <1>14, <1>15, <1>16 DEF Declarations, SeenIn, r

LEMMA DeclarationsStep ==
  ASSUME Moving, Declarations, [PluginNext]_pluginVars
  PROVE  Declarations'
<1>1. CASE DeclBegins
  BY <1>1, BegunDecl
<1>2. CASE DeclRefers
  BY <1>2, ReferredDecl
<1>3. CASE DeclEnds
  BY <1>3, EndedDecl
<1>4. CASE EndOfMain
  <2>1. DeliverEnded /\ ended' = None /\ decl' = None
    BY <1>4 DEF EndOfMain
  <2> QED BY <2>1, EndedIsLatest DEF Declarations
<1>5. CASE UNCHANGED <<decl, ended, decls>>
  BY <1>5, DeclarationsStay
<1> QED
  BY <1>1, <1>2, <1>3, <1>4, <1>5
     DEF PluginNext, pluginVars, clang, Perform, MacroDefined, MacroUndefined, MacroExpands,
         NestedMacroExpands, If, Else, EndifSeen, InclusionDirective, FileChanged,
         HandleTranslationUnit, FinalizeRuns

-----------------------------------------------------------------------------
(* The calls that callbacks leave to be made                               *)

LEMMA StillOfThese ==
  ASSUME Moving
  PROVE  /\ Uses(text, file, stack, atEnd) \subseteq Uses(text', file', stack', atEnd')
         /\ Ends(text, file, stack) \subseteq Ends(text', file', stack')
         /\ Calls(text, file, stack, atEnd) \subseteq Calls(text', file', stack', atEnd')
<1>1. Uses(text, file, stack, atEnd) \subseteq Uses(text', file', stack', atEnd')
  BY Staying DEF Uses
<1>2. Ends(text, file, stack) \subseteq Ends(text', file', stack')
  <2>1. \A r : r.n \in DOMAIN file => text'[file'[r.n]] = text[file[r.n]]
    BY DEF Moving, Onward
  <2> QED BY <2>1, Staying DEF Ends, IfRange, LexedIn
<1>3. Calls(text, file, stack, atEnd) \subseteq Calls(text', file', stack', atEnd')
  BY Staying DEF Calls
<1> QED BY <1>1, <1>2, <1>3

LEMMA SeqOfMore ==
  ASSUME NEW S, NEW T, S \subseteq T
  PROVE  Seq(S) \subseteq Seq(T)
OBVIOUS

LEMMA AtEndParts ==
  ASSUME NEW S, NEW T, NEW x \in [ifndef : Seq(S), ifdef : Seq(S), endif : Seq(T)]
  PROVE  /\ \A u \in S : [x EXCEPT !.ifndef = Append(@, u)]
                           \in [ifndef : Seq(S), ifdef : Seq(S), endif : Seq(T)]
         /\ \A u \in S : [x EXCEPT !.ifdef = Append(@, u)]
                           \in [ifndef : Seq(S), ifdef : Seq(S), endif : Seq(T)]
         /\ \A r \in T : [x EXCEPT !.endif = Append(@, r)]
                           \in [ifndef : Seq(S), ifdef : Seq(S), endif : Seq(T)]
<1>1. /\ \A u \in S : Append(x.ifndef, u) \in Seq(S) /\ Append(x.ifdef, u) \in Seq(S)
      /\ \A r \in T : Append(x.endif, r) \in Seq(T)
  OBVIOUS
<1> DEFINE more(u) == Append(x.ifndef, u)
           moreD(u) == Append(x.ifdef, u)
           moreE(r) == Append(x.endif, r)
           A == Seq(S)
           B == Seq(T)
<1>2. /\ \A u \in S : more(u) \in A /\ moreD(u) \in A
      /\ \A r \in T : moreE(r) \in B
      /\ x \in [ifndef : A, ifdef : A, endif : B]
  BY <1>1
<1> HIDE DEF more, moreD, moreE, A, B
<1>3. /\ \A u \in S : [x EXCEPT !.ifndef = more(u)] \in [ifndef : A, ifdef : A, endif : B]
      /\ \A u \in S : [x EXCEPT !.ifdef = moreD(u)] \in [ifndef : A, ifdef : A, endif : B]
      /\ \A r \in T : [x EXCEPT !.endif = moreE(r)] \in [ifndef : A, ifdef : A, endif : B]
  BY <1>2
<1> QED BY <1>3 DEF more, moreD, moreE, A, B

LEMMA LateStay ==
  ASSUME Moving, Late
  PROVE  atEnd \in [ifndef : Seq(Uses(text', file', stack', atEnd')),
                    ifdef : Seq(Uses(text', file', stack', atEnd')),
                    endif : Seq(Ends(text', file', stack'))]
<1>1. /\ Seq(Uses(text, file, stack, atEnd)) \subseteq Seq(Uses(text', file', stack', atEnd'))
      /\ Seq(Ends(text, file, stack)) \subseteq Seq(Ends(text', file', stack'))
  BY StillOfThese, SeqOfMore
<1> QED BY <1>1 DEF Late

LEMMA SeenIsPiece ==
  ASSUME NEW t, NEW fl, NEW st, NEW at, NEW r, SeenIn(t, fl, st, at, r)
  PROVE  r \in PieceSet /\ r = [n |-> r.n, beg |-> r.beg, end |-> r.end] /\ r.n \in Nat
         /\ r.beg \in Nat /\ r.end \in Nat /\ r.beg < r.end
BY DEF SeenIn, LexedIn, PieceSet

\* What was seen is no further than where clang is.
LEMMA SeenIsPast ==
  ASSUME Reading, stack # <<>>, NEW r, LexedIn(text, file, stack, r), r.n = Here
  PROVE  r.end <= P /\ r.beg < P
<1>1. Len(stack) \in DOMAIN stack /\ stack[Len(stack)].n = Here /\ stack[Len(stack)].p = P
      /\ P \in Nat
  BY Innermost
<1>2. r.end <= P /\ r.beg < r.end /\ r \in PieceSet
  BY <1>1 DEF LexedIn
<1> QED BY <1>1, <1>2 DEF PieceSet

\* An #if and what it says of the definition of its macro.
LEMMA IfPuts ==
  ASSUME Moving, Defining, If
  PROVE  /\ SeenIn(text', file', stack', atEnd', This) /\ This.n = Here /\ This.beg = P
         /\ Item.arg \in Macros
         /\ macro[Item.arg] # None =>
              /\ SeenIn(text', file', stack', atEnd', macro[Item.arg])
              /\ macro[Item.arg].n = Here => macro[Item.arg].beg <= P
<1>1. /\ Lexes(Ifs) /\ stack' # <<>> /\ Here' = Here /\ P' > P
      /\ P' <= Match(text[file[Here]], P)
  BY ReadingIf DEF If, Moving
<1>2. Past
  BY <1>1, PastHere DEF Moving
<1>6. \E i \in DOMAIN stack' : /\ stack'[i].n = Here /\ P < stack'[i].p
                               /\ stack'[i].p <= Match(text[file[Here]], P)
  <2>1. Len(stack') \in DOMAIN stack'
    BY <1>1 DEF Moving, Reading
  <2>2. stack'[Len(stack')].n = Here' /\ stack'[Len(stack')].p = P'
    BY DEF Here, P
  <2>3. stack'[Len(stack')].p \in Nat /\ P \in Nat
    BY <1>1, <2>1, Positions, AtItem DEF Moving, Reading
  <2> QED BY <1>1, <2>1, <2>2, <2>3
<1>3. SeenIn(text', file', stack', atEnd', This) /\ This.n = Here /\ This.beg = P
  BY <1>1, <1>2, <1>6, ThisIsSeen DEF Moving
<1>4. Item.arg \in Macros /\ P \in Nat /\ stack # <<>>
  BY <1>1, AtItem DEF Moving, ItemOK
<1>5. ASSUME macro[Item.arg] # None
      PROVE  /\ SeenIn(text', file', stack', atEnd', macro[Item.arg])
             /\ macro[Item.arg].n = Here => macro[Item.arg].beg <= P
  <2>1. SeenIn(text, file, stack, atEnd, macro[Item.arg])
    BY <1>4, <1>5 DEF Defining, DefinitionIn
  <2>2. macro[Item.arg].n = Here => macro[Item.arg].beg < P
    BY <1>4, <2>1, SeenIsPast DEF Moving, SeenIn
  <2>3. macro[Item.arg].beg \in Nat
    BY <2>1, SeenIsPiece
  <2> QED BY <1>4, <2>1, <2>2, <2>3, Staying
<1> QED BY <1>3, <1>4, <1>5

LEMMA LateStep ==
  ASSUME Moving, Defining, Late, [PluginNext]_pluginVars
  PROVE  Late'
<1> DEFINE U == Uses(text', file', stack', atEnd')
           E == Ends(text', file', stack')
<1>1. atEnd \in [ifndef : Seq(U), ifdef : Seq(U), endif : Seq(E)]
  BY LateStay
<1> HIDE DEF U, E
<1>2. CASE If
  <2> DEFINE usee == macro[Item.arg]
             use == [user |-> This, usee |-> IF usee = None THEN This ELSE usee,
                     name |-> Item.arg]
  <2>1. /\ SeenIn(text', file', stack', atEnd', This) /\ This.n = Here /\ This.beg = P
        /\ Item.arg \in Macros
        /\ usee # None => /\ SeenIn(text', file', stack', atEnd', usee)
                          /\ usee.n = Here => usee.beg <= P
    BY <1>2, IfPuts
  <2>2. \/ atEnd' = atEnd
        \/ atEnd' = [atEnd EXCEPT !.ifndef = Append(@, use)]
        \/ atEnd' = [atEnd EXCEPT !.ifdef = Append(@, use)]
    BY <1>2 DEF If, PutOff
  <2>3. P \in Nat
    BY <2>1, SeenIsPiece
  <2>4. use \in U
    <3>1. CASE usee = None
      BY <2>1, <2>3, <3>1, SeenIsPiece DEF U, Uses, LateSet, LateIn
    <3>2. CASE usee # None
      BY <2>1, <2>3, <3>2, SeenIsPiece DEF U, Uses, LateSet, LateIn
    <3> QED BY <3>1, <3>2
  <2> HIDE DEF use
  <2>5. /\ [atEnd EXCEPT !.ifndef = Append(@, use)]
             \in [ifndef : Seq(U), ifdef : Seq(U), endif : Seq(E)]
        /\ [atEnd EXCEPT !.ifdef = Append(@, use)]
             \in [ifndef : Seq(U), ifdef : Seq(U), endif : Seq(E)]
    BY <1>1, <2>4, AtEndParts, Zenon
  <2>6. atEnd' \in [ifndef : Seq(U), ifdef : Seq(U), endif : Seq(E)]
    BY <1>1, <2>2, <2>5, Zenon
  <2> QED BY <2>6 DEF Late, U, E
<1>3. CASE EndifSeen
  <2> DEFINE q == IfOf(text[file[Here]], P)
             r == Piece(Here, q, P + 1)
  <2>1. /\ Lexes({"endif"}) /\ Advances /\ atEnd' = [atEnd EXCEPT !.endif = Append(@, r)]
    BY <1>3 DEF EndifSeen, Advances
  <2>2. /\ SeenIn(text', file', stack', atEnd', Piece(Here, P, P + 1)) /\ P \in Nat /\ Past
    BY <2>1, AdvanceSees DEF Ifs
  <2>3. /\ Here \in DOMAIN file /\ file[Here] \in Files /\ P + 1 \in P .. Len(text[file[Here]])
        /\ text[file[Here]][P + 1].op = "endif"
    <3>1. Reading /\ Lexes({"endif"})
      BY <2>1 DEF Moving
    <3> QED BY <3>1, AtItem
  <2>4. Len(text[file[Here]]) \in Nat /\ Balanced(text[file[Here]])
    BY <2>3, TextParts DEF Moving, Reading
  <2>5. P \in 0 .. Len(text[file[Here]]) - 1
    BY <2>2, <2>3, <2>4
  <2>6. /\ q \in 0 .. P - 1 /\ IsIf(text[file[Here]], q) /\ Match(text[file[Here]], q) = P
        /\ q \in Nat
    BY <2>3, <2>4, <2>5, IfBeforeEndif
  <2>10. text'[file'[Here]] = text[file[Here]]
    BY <2>3 DEF Moving, Onward
  <2>7. /\ Here \in DOMAIN file' /\ P + 1 <= Len(text'[file'[Here]]) /\ Here \in Nat
        /\ \A i \in DOMAIN stack' : stack'[i].n = Here => P + 1 <= stack'[i].p
    BY <2>2 DEF SeenIn, LexedIn, Piece, PieceSet
  <2> HIDE DEF q
  <2>8. r \in E
    <3>1. r \in PieceSet /\ r.n = Here /\ r.beg = q /\ r.end = P + 1 /\ r.beg < r.end
      BY <2>2, <2>6, <2>7 DEF Piece, PieceSet
    <3> HIDE DEF r
    <3>2. LexedIn(text', file', stack', r)
      BY <2>7, <3>1 DEF LexedIn
    <3>3. IfRange(text', file', r)
      BY <2>6, <2>10, <3>1 DEF IfRange
    <3> QED BY <3>1, <3>2, <3>3 DEF E, Ends
  <2> HIDE DEF r
  <2>9. atEnd' \in [ifndef : Seq(U), ifdef : Seq(U), endif : Seq(E)]
    BY <1>1, <2>1, <2>8, AtEndParts, Zenon
  <2> QED BY <2>9 DEF Late, U, E
<1>4. CASE UNCHANGED atEnd
  BY <1>1, <1>4 DEF Late, U, E
<1> QED
  BY <1>2, <1>3, <1>4
     DEF PluginNext, pluginVars, clang, plugin, Perform, MacroDefined, MacroUndefined,
         MacroExpands, NestedMacroExpands, Else, InclusionDirective, FileChanged, DeclBegins,
         DeclRefers, DeclEnds, EndOfMain, HandleTranslationUnit, FinalizeRuns

-----------------------------------------------------------------------------
(* Guards of headers: of every header that was entered the guard was noted, *)
(* and when the header was left its macro is known to be a guard.           *)

On(st, n) == \E i \in DOMAIN st : st[i].n = n
AtStart(st, n) == \E i \in DOMAIN st : st[i].n = n /\ st[i].p = 0

Noted(at, n, name) ==
  \E list \in {"ifndef", "ifdef"} : \E i \in DOMAIN at[list] :
    at[list][i].user.n = n /\ at[list][i].user.beg = 0 /\ at[list][i].name = name

GuardIn(t, fl, st, at, gs, n) ==
  Wrapped(t[fl[n]]) => /\ On(st, n) \/ t[fl[n]][1].arg \in gs
                       /\ AtStart(st, n) \/ Noted(at, n, t[fl[n]][1].arg)

Guarding == \A n \in DOMAIN file : GuardIn(text, file, stack, atEnd, guards, n)

LEMMA NotedStays ==
  ASSUME Moving, Late, [PluginNext]_pluginVars
  PROVE  \A n, name : Noted(atEnd, n, name) => Noted(atEnd', n, name)
<1> DEFINE U == Uses(text, file, stack, atEnd)
           E == Ends(text, file, stack)
<1>1. atEnd \in [ifndef : Seq(U), ifdef : Seq(U), endif : Seq(E)]
  BY DEF Late
<1> HIDE DEF U, E
<1>2. ASSUME NEW s, s \in Seq(U), NEW u
      PROVE  \A i \in DOMAIN s : i \in DOMAIN Append(s, u) /\ Append(s, u)[i] = s[i]
  BY <1>2
<1>3. atEnd.ifndef \in Seq(U) /\ atEnd.ifdef \in Seq(U)
      /\ DOMAIN atEnd = {"ifndef", "ifdef", "endif"}
  BY <1>1
<1>4. \/ atEnd' = atEnd
      \/ \E list \in {"ifndef", "ifdef", "endif"} : \E u :
           atEnd' = [atEnd EXCEPT ![list] = Append(@, u)]
  BY DEF PluginNext, pluginVars, clang, plugin, Perform, MacroDefined, MacroUndefined,
         MacroExpands, NestedMacroExpands, If, PutOff, Else, EndifSeen, InclusionDirective,
         FileChanged, DeclBegins, DeclRefers, DeclEnds, EndOfMain, HandleTranslationUnit,
         FinalizeRuns
<1>5. ASSUME NEW list \in {"ifndef", "ifdef"}, NEW i \in DOMAIN atEnd[list]
      PROVE  i \in DOMAIN atEnd'[list] /\ atEnd'[list][i] = atEnd[list][i]
  <2>1. CASE atEnd' = atEnd
    BY <2>1
  <2>2. CASE \E l \in {"ifndef", "ifdef", "endif"} : \E u :
               atEnd' = [atEnd EXCEPT ![l] = Append(@, u)]
    <3>0. PICK l \in {"ifndef", "ifdef", "endif"} :
            \E u : atEnd' = [atEnd EXCEPT ![l] = Append(@, u)]
      BY <2>2
    <3>1. PICK u : atEnd' = [atEnd EXCEPT ![l] = Append(@, u)]
      BY <3>0
    <3>2. atEnd[list] \in Seq(U)
      BY <1>3
    <3>3. i \in DOMAIN Append(atEnd[list], u) /\ Append(atEnd[list], u)[i] = atEnd[list][i]
      BY <1>2, <3>2
    <3>4. atEnd'[list] = atEnd[list] \/ atEnd'[list] = Append(atEnd[list], u)
      BY <1>3, <3>1
    <3> QED BY <3>3, <3>4
  <2> QED BY <1>4, <2>1, <2>2
<1> QED BY <1>5 DEF Noted

\* Going on leaves the other files where they are.
LEMMA OthersStay ==
  ASSUME Reading, stack # <<>>, NEW q, GoTo(q)
  PROVE  /\ \A n : On(stack, n) => On(stack', n)
         /\ \A n : n # Here /\ AtStart(stack, n) => AtStart(stack', n)
<1>1. DOMAIN stack' = DOMAIN stack /\ Len(stack) \in DOMAIN stack
  BY Innermost DEF GoTo
<1>2. ASSUME NEW i \in DOMAIN stack
      PROVE  /\ stack'[i].n = stack[i].n
             /\ stack[i].n # Here => stack'[i] = stack[i]
  <2>1. CASE i = Len(stack)
    <3>1. stack[i] = [n |-> Here, p |-> P]
      BY <2>1, Innermost
    <3>2. stack'[i] = [stack[i] EXCEPT !.p = q]
      BY <2>1 DEF GoTo
    <3> QED BY <3>1, <3>2
  <2>2. CASE i # Len(stack)
    BY <2>2 DEF GoTo
  <2> QED BY <2>1, <2>2
<1> QED BY <1>1, <1>2 DEF On, AtStart

\* A header begins with its guard, so that only Ifndef leads on from its start.
LEMMA GuardFirst ==
  ASSUME Reading, stack # <<>>, NEW n, AtStart(stack, n), n = Here, Wrapped(text[file[Here]])
  PROVE  P = 0 /\ Item.op = "ifndef" /\ Item = text[file[Here]][1]
<1>1. PICK i \in DOMAIN stack : stack[i].n = n /\ stack[i].p = 0
  BY DEF AtStart
<1>2. i = Len(stack)
  BY <1>1, Innermost
<1>3. P = 0
  BY <1>1, <1>2 DEF P
<1> QED BY <1>3 DEF Item, Wrapped

LEMMA GuardsLexing ==
  ASSUME Moving, Guarding, NEW ops, Lexes(ops), "ifndef" \notin ops,
         \A n, name : Noted(atEnd, n, name) => Noted(atEnd', n, name),
         \E q : GoTo(q), UNCHANGED <<file, guards>>
  PROVE  Guarding'
<1>1. stack # <<>> /\ Item.op # "ifndef" /\ Reading
  BY DEF Lexes, Moving
<1>2. PICK q : GoTo(q)
  OBVIOUS
<1>3. /\ \A n : On(stack, n) => On(stack', n)
      /\ \A n : n # Here /\ AtStart(stack, n) => AtStart(stack', n)
  BY <1>1, <1>2, OthersStay
<1>4. \A n : AtStart(stack, n) /\ Wrapped(text[file[n]]) => n # Here
  BY <1>1, GuardFirst
<1>5. text' = text /\ file' = file /\ guards' = guards
  BY DEF Moving
<1> QED BY <1>3, <1>4, <1>5 DEF Guarding, GuardIn

LEMMA GuardingIf ==
  ASSUME Moving, Guarding, If,
         \A n, name : Noted(atEnd, n, name) => Noted(atEnd', n, name),
         Late
  PROVE  Guarding'
<1>1. Lexes(Ifs) /\ stack # <<>> /\ Reading /\ \E q : GoTo(q)
  BY DEF If, Lexes, Moving
<1>2. text' = text /\ file' = file /\ guards' = guards
  BY DEF If
<1>3. /\ \A n : On(stack, n) => On(stack', n)
      /\ \A n : n # Here /\ AtStart(stack, n) => AtStart(stack', n)
  BY <1>1, OthersStay
<1>4. ASSUME Wrapped(text[file[Here]]), AtStart(stack, Here)
      PROVE  Noted(atEnd', Here, text[file[Here]][1].arg)
  <2> DEFINE usee == macro[Item.arg]
             list == IF usee # None THEN "ifndef" ELSE "ifdef"
             use == [user |-> This, usee |-> IF usee = None THEN This ELSE usee,
                     name |-> Item.arg]
  <2>1. P = 0 /\ Item.op = "ifndef" /\ Item = text[file[Here]][1]
    BY <1>1, <1>4, GuardFirst
  <2>2. atEnd' = [atEnd EXCEPT ![list] = Append(@, use)]
    BY <2>1 DEF If, PutOff
  <2>3. /\ atEnd.ifndef \in Seq(Uses(text, file, stack, atEnd))
        /\ atEnd.ifdef \in Seq(Uses(text, file, stack, atEnd))
        /\ DOMAIN atEnd = {"ifndef", "ifdef", "endif"}
    <3> DEFINE A == Seq(Uses(text, file, stack, atEnd))
               B == Seq(Ends(text, file, stack))
    <3>1. atEnd \in [ifndef : A, ifdef : A, endif : B]
      BY DEF Late
    <3> HIDE DEF A, B
    <3>2. atEnd.ifndef \in A /\ atEnd.ifdef \in A /\ DOMAIN atEnd = {"ifndef", "ifdef", "endif"}
      BY <3>1
    <3> QED BY <3>2 DEF A
  <2>4. list \in {"ifndef", "ifdef"}
    OBVIOUS
  <2> HIDE DEF list, use
  <2>5. atEnd[list] \in Seq(Uses(text, file, stack, atEnd)) /\ list \in DOMAIN atEnd
    BY <2>3, <2>4
  <2>6. atEnd'[list] = Append(atEnd[list], use)
    BY <2>2, <2>5
  <2>7. \E i \in DOMAIN Append(atEnd[list], use) : Append(atEnd[list], use)[i] = use
    <3>1. ASSUME NEW S, NEW s \in Seq(S), NEW u
          PROVE  Len(s) + 1 \in DOMAIN Append(s, u) /\ Append(s, u)[Len(s) + 1] = u
      OBVIOUS
    <3> QED BY <2>5, <3>1
  <2>8. use.user.n = Here /\ use.user.beg = 0 /\ use.name = text[file[Here]][1].arg
    BY <2>1 DEF use, This, Piece
  <2> QED BY <2>4, <2>6, <2>7, <2>8 DEF Noted
<1>5. ASSUME NEW n \in DOMAIN file' PROVE GuardIn(text', file', stack', atEnd', guards', n)
  <2>1. GuardIn(text, file, stack, atEnd, guards, n)
    BY <1>2 DEF Guarding
  <2> QED BY <1>2, <1>3, <1>4, <2>1 DEF GuardIn
<1> QED BY <1>5 DEF Guarding

LEMMA GuardingInclusion ==
  ASSUME Moving, Guarding, InclusionDirective
  PROVE  Guarding'
<1> DEFINE l == Len(stack)
           next == [stack EXCEPT ![l].p = P + 1]
           top == [n |-> Len(file) + 1, p |-> 0]
<1>1. /\ Lexes({"include"}) /\ UNCHANGED <<text, guards, atEnd>>
      /\ \/ file' = file /\ stack' = next
         \/ file' = Append(file, Item.arg) /\ stack' = Append(next, top)
  BY DEF InclusionDirective
<1>2. CASE file' = file /\ stack' = next
  BY <1>1, <1>2, GuardsLexing DEF GoTo
<1>3. CASE file' = Append(file, Item.arg) /\ stack' = Append(next, top)
  <2>1. stack # <<>> /\ Item.op # "ifndef" /\ Reading
    BY <1>1 DEF Lexes, Moving
  <2>2. /\ l \in Nat /\ DOMAIN stack = 1 .. l /\ stack[l] = [n |-> Here, p |-> P]
        /\ l \in DOMAIN stack /\ \A i \in DOMAIN stack : stack[i].n = Here => i = l
        /\ Len(file) \in Nat /\ DOMAIN file = 1 .. Len(file)
    BY <2>1, StackParts, Innermost
  <2>3. \A i \in 1 .. l : next[i].n = stack[i].n /\ (i # l => next[i] = stack[i])
    BY <2>2
  <2>4. Len(next) = l
    <3>1. [stack[l] EXCEPT !.p = P + 1] = [n |-> Here, p |-> P + 1]
      BY <2>2
    <3>2. next = [stack EXCEPT ![l] = [n |-> Here, p |-> P + 1]]
      BY <3>1
    <3>3. stack \in Seq([n : Nat, p : Nat]) /\ [n |-> Here, p |-> P + 1] \in [n : Nat, p : Nat]
      <4>1. Here \in Nat /\ P \in Nat
        BY <2>1, <2>2, StackParts
      <4>2. stack \in Seq([n : Nat, p : Nat])
        BY <2>1 DEF Reading
      <4> QED BY <4>1, <4>2
    <3>4. /\ [stack EXCEPT ![Len(stack)] = [n |-> Here, p |-> P + 1]] \in Seq([n : Nat, p : Nat])
          /\ Len([stack EXCEPT ![Len(stack)] = [n |-> Here, p |-> P + 1]]) = Len(stack)
      BY <2>1, <3>3, ReplacedLast, Zenon
    <3> QED BY <3>2, <3>4, Zenon
  <2> HIDE DEF next, l
  <2>5. /\ DOMAIN stack' = 1 .. l + 1 /\ stack'[l + 1] = top
        /\ \A i \in 1 .. l : stack'[i] = next[i]
    BY <1>3, <2>2, <2>4
  <2>6. \A i \in 1 .. l : i \in 1 .. l + 1
    BY <2>2
  <2>7. /\ \A n : On(stack, n) => On(stack', n)
        /\ \A n : n # Here /\ AtStart(stack, n) => AtStart(stack', n)
    BY <2>2, <2>3, <2>5, <2>6 DEF On, AtStart
  <2>8. On(stack', Len(file) + 1) /\ AtStart(stack', Len(file) + 1)
    <3>1. l + 1 \in DOMAIN stack' /\ stack'[l + 1].n = Len(file) + 1 /\ stack'[l + 1].p = 0
      BY <2>2, <2>5
    <3> QED BY <3>1 DEF On, AtStart
  <2>9. \A n : AtStart(stack, n) /\ Wrapped(text[file[n]]) => n # Here
    BY <2>1, GuardFirst
  <2>10. ASSUME NEW n \in DOMAIN file' PROVE GuardIn(text', file', stack', atEnd', guards', n)
    <3>1. \/ n \in DOMAIN file /\ file'[n] = file[n]
          \/ n = Len(file) + 1
      BY <1>3, <2>2
    <3>2. CASE n \in DOMAIN file /\ file'[n] = file[n]
      <4>1. GuardIn(text, file, stack, atEnd, guards, n)
        BY <3>2 DEF Guarding
      <4> QED BY <1>1, <2>7, <2>9, <3>2, <4>1 DEF GuardIn
    <3>3. CASE n = Len(file) + 1
      BY <2>8, <3>3 DEF GuardIn
    <3> QED BY <3>1, <3>2, <3>3
  <2> QED BY <2>10 DEF Guarding
<1> QED BY <1>1, <1>2, <1>3

LEMMA GuardingPop ==
  ASSUME Moving, Guarding, FileChanged
  PROVE  Guarding'
<1>1. /\ stack # <<>> /\ P = Len(text[file[Here]])
      /\ guards' = IF Wrapped(text[file[Here]]) THEN guards \cup {text[file[Here]][1].arg}
                   ELSE guards
      /\ UNCHANGED <<text, file, atEnd>>
  BY DEF FileChanged
<1>2. \A i \in DOMAIN stack : stack[i].n # Here => i \in DOMAIN stack' /\ stack'[i] = stack[i]
  BY ReadingPop DEF Moving
<1>3. ASSUME NEW n, n # Here
      PROVE  (On(stack, n) => On(stack', n)) /\ (AtStart(stack, n) => AtStart(stack', n))
  BY <1>2, <1>3 DEF On, AtStart
<1>4. ASSUME Wrapped(text[file[Here]]) PROVE ~AtStart(stack, Here)
  <2>1. text[file[Here]] # <<>> /\ Reading
    BY <1>4 DEF Wrapped, Moving
  <2>2. DOMAIN text[file[Here]] = 1 .. Len(text[file[Here]]) /\ file[Here] \in Files
        /\ \A i \in DOMAIN stack : stack[i].n = Here => i = Len(stack)
    BY <1>1, <2>1, Innermost
  <2>3. text[file[Here]] \in Seq({text[file[Here]][i] : i \in DOMAIN text[file[Here]]})
    BY <2>1, <2>2, PluginAssumption DEF Reading
  <2>4. Len(text[file[Here]]) # 0
    BY <2>1, <2>3
  <2> QED BY <1>1, <2>2, <2>4 DEF AtStart, P
<1>5. ASSUME NEW n \in DOMAIN file' PROVE GuardIn(text', file', stack', atEnd', guards', n)
  <2>1. GuardIn(text, file, stack, atEnd, guards, n)
    BY <1>1, <1>5 DEF Guarding
  <2>2. CASE n = Here
    BY <1>1, <1>4, <2>1, <2>2 DEF GuardIn
  <2>3. CASE n # Here
    BY <1>1, <1>3, <2>1, <2>3 DEF GuardIn
  <2> QED BY <2>2, <2>3
<1> QED BY <1>5 DEF Guarding

LEMMA GuardingEnd ==
  ASSUME Moving, Guarding, EndOfMain
  PROVE  Guarding'
<1>1. /\ Len(stack) = 1 /\ stack' = <<>> /\ UNCHANGED <<text, file, atEnd, guards>>
  BY DEF EndOfMain
<1>2. stack # <<>> /\ DOMAIN stack = 1 .. Len(stack) /\ stack[1].n = 1 /\ file[1] = Main
  <2>1. DOMAIN stack = 1 .. Len(stack) /\ stack # <<>>
    BY <1>1, StackParts DEF Moving
  <2> QED BY <2>1 DEF Moving, Reading
<1>3. ~Wrapped(text[Main])
  BY PluginAssumption DEF Moving, Reading
<1>4. \A n : On(stack, n) \/ AtStart(stack, n) => n = 1
  BY <1>1, <1>2 DEF On, AtStart
<1> QED BY <1>1, <1>2, <1>3, <1>4 DEF Guarding, GuardIn

LEMMA GuardingStep ==
  ASSUME Moving, Late, Guarding, [PluginNext]_pluginVars
  PROVE  Guarding'
<1>0. \A n, name : Noted(atEnd, n, name) => Noted(atEnd', n, name)
  BY NotedStays
<1>1. CASE If
  BY <1>0, <1>1, GuardingIf
<1>2. CASE InclusionDirective
  BY <1>2, GuardingInclusion
<1>3. CASE FileChanged
  BY <1>3, GuardingPop
<1>4. CASE EndOfMain
  BY <1>4, GuardingEnd
<1>5. CASE MacroDefined
  BY <1>0, <1>5, GuardsLexing DEF MacroDefined
<1>6. CASE MacroUndefined
  BY <1>0, <1>6, GuardsLexing DEF MacroUndefined, plugin
<1>7. CASE MacroExpands
  BY <1>0, <1>7, GuardsLexing DEF MacroExpands
<1>8. CASE Else
  BY <1>0, <1>8, GuardsLexing DEF Else, plugin
<1>9. CASE EndifSeen
  BY <1>0, <1>9, GuardsLexing DEF EndifSeen
<1>10. CASE DeclBegins
  BY <1>0, <1>10, GuardsLexing DEF DeclBegins
<1>11. CASE DeclRefers
  BY <1>0, <1>11, GuardsLexing DEF DeclRefers, plugin
<1>12. CASE DeclEnds
  BY <1>0, <1>12, GuardsLexing DEF DeclEnds, plugin
<1>13. CASE UNCHANGED <<file, stack, atEnd, guards>>
  BY <1>13 DEF Guarding, GuardIn, Moving
<1> QED
  BY <1>1, <1>2, <1>3, <1>4, <1>5, <1>6, <1>7, <1>8, <1>9, <1>10, <1>11, <1>12, <1>13
     DEF PluginNext, pluginVars, clang, plugin, Perform, NestedMacroExpands,
         HandleTranslationUnit, FinalizeRuns

-----------------------------------------------------------------------------
(* Every call is made with pieces that were lexed, and looks back.         *)

LEMMA SeenCall ==
  ASSUME NEW t, NEW fl, NEW st, NEW at, NEW r, SeenIn(t, fl, st, at, r),
         NEW s, SeenIn(t, fl, st, at, s), NEW op \in CallOps, op # "endif",
         NEW what \in {None} \cup Files \cup DeclSet,
         op \in {"global", "static"} => what \in DeclSet,
         op = "inclusion" => what \in Files /\ t[fl[r.n]][r.beg + 1].op = "include",
         op \in {"use", "defined", "ifndef", "ifdef"} /\ s.n = r.n => s.beg <= r.beg,
         op = "follow" /\ s.n = r.n => r.end <= s.beg
  PROVE  CallOf(op, r, s, what) \in Calls(t, fl, st, at)
<1>1. r \in PieceSet /\ s \in PieceSet
  BY SeenIsPiece
<1> DEFINE c == CallOf(op, r, s, what)
<1>2. c.op = op /\ c.user = r /\ c.usee = s /\ c.what = what /\ c \in CallSet
  BY <1>1 DEF CallOf, CallSet
<1> HIDE DEF c
<1>3. CallIn(t, fl, st, at, c)
  BY <1>2 DEF CallIn, SeenIn
<1> QED BY <1>2, <1>3 DEF Calls, c

\* A call that says nothing to the collector, about a range that was lexed.
LEMMA AskCall ==
  ASSUME NEW t, NEW fl, NEW st, NEW at, NEW r, LexedIn(t, fl, st, r), NEW op \in {"ask", "skip"}
  PROVE  CallOf(op, r, r, None) \in Calls(t, fl, st, at)
<1>1. r \in PieceSet
  BY DEF LexedIn
<1> DEFINE c == CallOf(op, r, r, None)
<1>2. c.op = op /\ c.user = r /\ c.usee = r /\ c \in CallSet
  BY <1>1 DEF CallOf, CallSet, CallOps
<1> HIDE DEF c
<1>3. CallIn(t, fl, st, at, c)
  BY <1>2 DEF CallIn
<1> QED BY <1>2, <1>3 DEF Calls, c

LEMMA SeenCode ==
  ASSUME NEW t, NEW fl, NEW st, NEW at, NEW r, SeenIn(t, fl, st, at, r)
  PROVE  CodeCall(r) \in Calls(t, fl, st, at)
BY SeenCall DEF CodeCall, CallOps

LEMMA SeenUse ==
  ASSUME NEW t, NEW fl, NEW st, NEW at, NEW r, SeenIn(t, fl, st, at, r),
         NEW s, SeenIn(t, fl, st, at, s), s.n = r.n => s.beg <= r.beg
  PROVE  UseCall(r, s) \in Calls(t, fl, st, at)
BY SeenCall DEF UseCall, CallOps

LEMMA SomeCalls ==
  ASSUME NEW S
  PROVE  /\ <<>> \in Seq(S)
         /\ \A c \in S : <<c>> \in Seq(S)
         /\ \A c, d \in S : <<c>> \o <<d>> \in Seq(S)
         /\ \A c \in S : <<c>> \o <<>> \in Seq(S)
         /\ \A x, y \in Seq(S) : x \o y \in Seq(S)
OBVIOUS

\* What a macro is used at: its definition is further back.
LEMMA MacroBack ==
  ASSUME Moving, Defining, stack # <<>>, NEW m \in Macros, macro[m] # None
  PROVE  /\ SeenIn(text', file', stack', atEnd', macro[m])
         /\ macro[m].n = Here => macro[m].end <= P /\ macro[m].beg <= P
<1>1. DefinitionIn(text, file, stack, atEnd, macro[m])
  BY DEF Defining
<1>2. SeenIn(text, file, stack, atEnd, macro[m])
  BY <1>1 DEF DefinitionIn
<1>3. macro[m].n = Here => macro[m].end <= P /\ macro[m].beg < P
  BY <1>2, SeenIsPast DEF Moving, SeenIn
<1>4. macro[m].beg \in Nat /\ P \in Nat
  BY <1>2, SeenIsPiece, Innermost DEF Moving
<1> QED BY <1>2, <1>3, <1>4, Staying

LEMMA CallsOfDefine ==
  ASSUME Moving, Defining, MacroDefined
  PROVE  todo' \in Seq(Calls(text', file', stack', atEnd'))
<1> DEFINE m == Item.arg
           C == Calls(text', file', stack', atEnd')
           follow == CallOf("follow", defs[m], This, None)
<1>1. Lexes({"define"}) /\ Advances
  BY DEF MacroDefined, Advances
<1>2. /\ SeenIn(text', file', stack', atEnd', This) /\ This.n = Here /\ This.beg = P
  BY <1>1, AdvanceSees DEF Ifs
<1>3. Item.arg \in Macros /\ stack # <<>>
  BY <1>1, AtItem DEF Moving, ItemOK
<1>4. CodeCall(This) \in C
  BY <1>2, SeenCode
<1>5. ASSUME defs[m] # None PROVE follow \in C
  <2>1. SeenIn(text, file, stack, atEnd, defs[m])
    BY <1>3, <1>5 DEF Defining
  <2>2. defs[m].n = Here => defs[m].end <= P
    BY <1>3, <2>1, SeenIsPast DEF Moving, SeenIn
  <2>3. SeenIn(text', file', stack', atEnd', defs[m])
    BY <2>1, Staying
  <2> QED BY <1>2, <2>2, <2>3, SeenCall DEF CallOps
<1>6. \/ todo' = <<CodeCall(This)>> \o <<>>
      \/ defs[m] # None /\ todo' = <<CodeCall(This)>> \o <<follow>>
  BY DEF MacroDefined
<1> HIDE DEF C, follow
<1>7. todo' \in Seq(C)
  BY <1>4, <1>5, <1>6, SomeCalls
<1> QED BY <1>7 DEF C

LEMMA CallsOfExpand ==
  ASSUME Moving, Defining, Calling, MacroExpands
  PROVE  todo' \in Seq(Calls(text', file', stack', atEnd'))
<1>1. Lexes({"expand"}) /\ Advances
  BY DEF MacroExpands, Advances
<1>2. /\ SeenIn(text', file', stack', atEnd', This) /\ This.n = Here /\ This.beg = P
  BY <1>1, AdvanceSees DEF Ifs
<1>3. Item.arg \in Macros /\ stack # <<>> /\ todo = <<>>
  BY <1>1, AtItem DEF Moving, ItemOK
<1>4. CASE todo' = todo
  BY <1>3, <1>4, SomeCalls
<1>5. CASE macro[Item.arg] # None /\ todo' = <<UseCall(This, macro[Item.arg])>>
  <2>1. UseCall(This, macro[Item.arg]) \in Calls(text', file', stack', atEnd')
    BY <1>2, <1>3, <1>5, MacroBack, SeenUse
  <2> QED BY <1>5, <2>1, SomeCalls
<1> QED BY <1>4, <1>5 DEF MacroExpands

\* Where the outermost macro was expanded was lexed last.
LEMMA CallsOfNested ==
  ASSUME Moving, Defining, Expanding, NestedMacroExpands
  PROVE  todo' \in Seq(Calls(text', file', stack', atEnd'))
<1> DEFINE m == expanding[Len(expanding)]
           r == Piece(Here, P - 1, P)
<1>1. /\ expanding # <<>> /\ todo' = <<UseCall(r, macro[m])>> /\ UNCHANGED stack
      /\ UNCHANGED file
  BY DEF NestedMacroExpands
<1>2. m \in Macros /\ macro[m] # None
  <2>1. expanding \in Seq(Macros)
    BY DEF Expanding
  <2>2. Len(expanding) \in DOMAIN expanding /\ m \in Macros
    BY <1>1, <2>1
  <2> QED BY <2>2 DEF Expanding
<1>3. stack # <<>> /\ P > 0
  BY <1>1 DEF Expanding
<1>4. /\ Here \in DOMAIN file /\ P \in 0 .. Len(text[file[Here]])
      /\ Len(text[file[Here]]) \in Nat
      /\ \A i \in DOMAIN stack : stack[i].n = Here => i = Len(stack)
  BY <1>3, Innermost DEF Moving
<1>5. Here \in Nat
  BY <1>4, StackParts DEF Moving
<1>6. \A i \in DOMAIN stack : stack[i].n = Here => P - 1 < stack[i].p /\ stack[i].p \in Nat
  <2>1. \A i \in DOMAIN stack : stack[i].n = Here => stack[i].p = P
    BY <1>4 DEF P
  <2> QED BY <1>4, <2>1
<1>7. P - 1 \in Nat /\ (P - 1) + 1 = P /\ P <= Len(text[file[Here]])
  BY <1>3, <1>4
<1>14. TouchedIn(text, file, stack, atEnd, Piece(Here, P - 1, P))
  <2> DEFINE t == text[file[Here]]
  <2>1. Len(t) \in Nat /\ Balanced(t) /\ t[P].op = "expand"
    BY <1>1, <1>4, StackParts, TextParts DEF Moving, Reading, Expanding
  <2>2. ASSUME NEW q, IsIf(t, q), q <= P - 1, P - 1 <= Match(t, q)
        PROVE  SeenIf(text, file, stack, atEnd, Here, q)
    <3>1. q # P - 1 /\ Match(t, q) # P - 1 /\ q \in Nat /\ Match(t, q) \in Nat
      BY <1>7, <2>1, <2>2, MatchCloses DEF IsIf, Ifs
    <3>2. q < P /\ P <= Match(t, q)
      BY <1>4, <2>2, <3>1
    <3>3. Len(stack) \in DOMAIN stack
      BY <1>3, Innermost DEF Moving
    <3> QED BY <3>2, <3>3 DEF SeenIf, Here, P
  <2>3. Piece(Here, P - 1, P).n = Here /\ Piece(Here, P - 1, P).beg = P - 1
        /\ Piece(Here, P - 1, P).end - 1 = P - 1
    BY DEF Piece
  <2> HIDE DEF t
  <2> QED BY <2>2, <2>3 DEF TouchedIn, InIf, t
<1>8. SeenIn(text, file, stack, atEnd, Piece(Here, P - 1, (P - 1) + 1))
  <2> DEFINE q == P - 1
  <2>1. q \in Nat /\ q + 1 <= Len(text[file[Here]])
    BY <1>7
  <2> HIDE DEF q
  <2>2. \A i \in DOMAIN stack : stack[i].n = Here => q < stack[i].p /\ stack[i].p \in Nat
    BY <1>6 DEF q
  <2>4. TouchedIn(text, file, stack, atEnd, Piece(Here, q, q + 1))
    BY <1>7, <1>14 DEF q
  <2>3. SeenIn(text, file, stack, atEnd, Piece(Here, q, q + 1))
    BY <1>4, <1>5, <2>1, <2>2, <2>4, JustLexed
  <2> QED BY <2>3 DEF q
<1>9. SeenIn(text', file', stack', atEnd', r) /\ r.n = Here /\ r.beg = P - 1
  BY <1>7, <1>8, Staying DEF Piece
<1>10. SeenIn(text', file', stack', atEnd', macro[m]) /\ (macro[m].n = Here => macro[m].end <= P)
  BY <1>2, <1>3, MacroBack
<1>11. macro[m].beg \in Nat /\ macro[m].end \in Nat /\ macro[m].beg < macro[m].end
  BY <1>10, SeenIsPiece
<1>12. macro[m].n = r.n => macro[m].beg <= r.beg
  BY <1>4, <1>9, <1>10, <1>11
<1> HIDE DEF r
<1>13. UseCall(r, macro[m]) \in Calls(text', file', stack', atEnd')
  BY <1>9, <1>10, <1>12, SeenUse
<1> QED BY <1>1, <1>13, SomeCalls DEF r

LEMMA CallsOfIf ==
  ASSUME Moving, Defining, If
  PROVE  todo' \in Seq(Calls(text', file', stack', atEnd'))
<1> DEFINE usee == macro[Item.arg]
           C == Calls(text', file', stack', atEnd')
<1>1. /\ SeenIn(text', file', stack', atEnd', This) /\ This.n = Here /\ This.beg = P
      /\ usee # None => /\ SeenIn(text', file', stack', atEnd', usee)
                        /\ usee.n = Here => usee.beg <= P
  BY IfPuts
<1>2. todo' = ConditionCalls(Item.op, usee)
  BY DEF If
<1>3. Ask(This) \in C
  BY <1>1, AskCall DEF Ask, SeenIn
<1>4. usee # None => UseCall(This, usee) \in C /\ CallOf("defined", This, usee, None) \in C
  BY <1>1, SeenCall, SeenUse DEF CallOps
<1> HIDE DEF C, usee
<1>5. CASE usee = None
  <2>1. todo' = <<>> \/ todo' = <<Ask(This)>>
    BY <1>2, <1>5 DEF ConditionCalls
  <2> QED BY <1>3, <2>1, SomeCalls DEF C
<1>6. CASE usee # None
  <2>1. \/ todo' = <<UseCall(This, usee)>> \o <<>>
        \/ todo' = <<UseCall(This, usee)>> \o <<CallOf("defined", This, usee, None)>>
    BY <1>2, <1>6 DEF ConditionCalls
  <2> QED BY <1>4, <1>6, <2>1, SomeCalls DEF C
<1> QED BY <1>5, <1>6

LEMMA CallsOfEndif ==
  ASSUME Moving, Defining, Late, EndifSeen
  PROVE  todo' \in Seq(Calls(text', file', stack', atEnd'))
<1> DEFINE r == Piece(Here, IfOf(text[file[Here]], P), P + 1)
           E == Ends(text', file', stack')
<1>1. todo' = <<Ask(r)>> /\ atEnd' = [atEnd EXCEPT !.endif = Append(@, r)]
  BY DEF EndifSeen
<1>2. atEnd'.endif \in Seq(E)
  <2>1. Late'
    BY LateStep DEF PluginNext
  <2> DEFINE A == Seq(Uses(text', file', stack', atEnd'))
             B == Seq(E)
  <2>2. atEnd' \in [ifndef : A, ifdef : A, endif : B]
    BY <2>1 DEF Late
  <2> HIDE DEF A, B
  <2>3. atEnd'.endif \in B
    BY <2>2
  <2> QED BY <2>3 DEF B
<1>3. atEnd'.endif = Append(atEnd.endif, r) /\ atEnd.endif \in Seq(Ends(text, file, stack))
  <2> DEFINE A == Seq(Uses(text, file, stack, atEnd))
             B == Seq(Ends(text, file, stack))
  <2>1. atEnd \in [ifndef : A, ifdef : A, endif : B]
    BY DEF Late
  <2> HIDE DEF A, B, r
  <2>2. atEnd.endif \in B /\ atEnd'.endif = Append(atEnd.endif, r)
    BY <1>1, <2>1
  <2> QED BY <2>2 DEF B
<1> HIDE DEF r, E
<1>4. r \in E
  <2>1. ASSUME NEW S, NEW s \in Seq(S), NEW u, NEW T, Append(s, u) \in Seq(T)
        PROVE  u \in T
    <3>1. Len(s) + 1 \in DOMAIN Append(s, u) /\ Append(s, u)[Len(s) + 1] = u
      OBVIOUS
    <3> QED BY <2>1, <3>1, SeqParts
  <2> QED BY <1>2, <1>3, <2>1
<1>5. Ask(r) \in Calls(text', file', stack', atEnd')
  BY <1>4, AskCall DEF E, Ends, Ask
<1> QED BY <1>1, <1>5, SomeCalls DEF r

LEMMA CallsOfInclusion ==
  ASSUME Moving, InclusionDirective
  PROVE  todo' \in Seq(Calls(text', file', stack', atEnd'))
<1>1. /\ Lexes({"include"}) /\ todo' = <<CallOf("inclusion", This, This, Item.arg)>>
      /\ LET next == [stack EXCEPT ![Len(stack)].p = P + 1]
             top == [n |-> Len(file) + 1, p |-> 0]
         IN stack' = next \/ stack' = Append(next, top)
  BY DEF InclusionDirective
<1>2. /\ Reading /\ Reading' /\ stack # <<>> /\ Item.arg \in Files /\ P \in Nat
      /\ Item.op = "include" /\ Item.op \notin Ifs
  BY <1>1, AtItem DEF Moving, ItemOK, Ifs
<1>3. /\ Len(stack) \in DOMAIN stack /\ Len(stack) \in Nat /\ DOMAIN stack = 1 .. Len(stack)
      /\ stack[Len(stack)] = [n |-> Here, p |-> P]
      /\ \A i \in DOMAIN stack : stack[i].n = Here => i = Len(stack)
      /\ Here \in DOMAIN file /\ DOMAIN file = 1 .. Len(file) /\ Len(file) \in Nat
  BY <1>2, Innermost, StackParts
<1> DEFINE l == Len(stack)
           next == [stack EXCEPT ![l] = [n |-> Here, p |-> P + 1]]
<1>4. [stack EXCEPT ![l].p = P + 1] = next
  <2>1. [stack[l] EXCEPT !.p = P + 1] = [n |-> Here, p |-> P + 1]
    BY <1>3
  <2> QED BY <2>1
<1>5. next \in Seq([n : Nat, p : Nat]) /\ Len(next) = l
  <2>1. Here \in Nat
    BY <1>3
  <2>2. [n |-> Here, p |-> P + 1] \in [n : Nat, p : Nat]
    BY <1>2, <2>1
  <2>3. stack \in Seq([n : Nat, p : Nat])
    BY <1>2 DEF Reading
  <2> QED BY <1>2, <2>2, <2>3, ReplacedLast, Zenon
<1>6. /\ DOMAIN next = 1 .. l /\ next[l] = [n |-> Here, p |-> P + 1]
      /\ \A i \in 1 .. l : next[i].n = stack[i].n
  <2>1. l \in 1 .. l /\ l \in DOMAIN stack /\ DOMAIN stack = 1 .. l /\ stack[l].n = Here
    BY <1>3
  <2> HIDE DEF l
  <2>2. DOMAIN next = 1 .. l /\ next[l] = [n |-> Here, p |-> P + 1]
    BY <2>1
  <2>3. \A i \in 1 .. l : i # l => next[i] = stack[i]
    BY <2>1
  <2> HIDE DEF next
  <2>4. \A i \in 1 .. l : next[i].n = stack[i].n
    BY <2>1, <2>2, <2>3
  <2> QED BY <2>2, <2>4
<1> HIDE DEF next, l
<1>7. \A i \in 1 .. l : next[i].n = Here => P < next[i].p
  BY <1>2, <1>3, <1>6 DEF l
<1>8. Past
  <2>1. CASE stack' = next
    BY <1>6, <1>7, <2>1 DEF Past
  <2>2. CASE stack' = Append(next, [n |-> Len(file) + 1, p |-> 0])
    <3> DEFINE top == [n |-> Len(file) + 1, p |-> 0]
    <3>1. top.n # Here
      BY <1>3
    <3> HIDE DEF top
    <3>2. /\ \A i \in 1 .. l : stack'[i] = next[i]
          /\ stack'[l + 1] = top /\ DOMAIN stack' = 1 .. l + 1 /\ l \in Nat
      BY <1>3, <1>5, <2>2 DEF top, l
    <3>3. \A i \in 1 .. l + 1 : i \in 1 .. l \/ i = l + 1
      BY <3>2
    <3> QED BY <1>7, <3>1, <3>2, <3>3 DEF Past
  <2> QED BY <1>1, <1>4, <2>1, <2>2 DEF l
<1>9. /\ SeenIn(text', file', stack', atEnd', This)
      /\ text'[file'[This.n]][This.beg + 1].op = "include"
  BY <1>1, <1>2, <1>8, ThisIsSeen DEF Moving
<1>10. CallOf("inclusion", This, This, Item.arg) \in Calls(text', file', stack', atEnd')
  BY <1>2, <1>9, SeenCall DEF CallOps
<1> QED BY <1>1, <1>10, SomeCalls

\* The calls for a declaration: its range, its symbol, and its references.
LEMMA CallsOfDeliver ==
  ASSUME Moving, Declarations, ended # None
  PROVE  Deliver(ended) \in Seq(Calls(text', file', stack', atEnd'))
<1> DEFINE d == ended
           C == Calls(text', file', stack', atEnd')
           r == Piece(d.n, d.beg, d.end)
           target(s) == IF s = d.what.s THEN r ELSE decls[s]
           symbol == IF d.what.kind = "type" THEN <<>>
                     ELSE <<CallOf(d.what.kind, r, r, d.what)>>
           refs == [i \in DOMAIN d.refs |-> UseCall(d.refs[i].at, target(d.refs[i].s))]
<1>1. DeclIn(text', file', stack', atEnd', decls, d) /\ SeenIn(text', file', stack', atEnd', r)
  BY Staying DEF Declarations
<1>2. /\ d.what \in DeclSet /\ d.refs \in Seq(RefSet)
      /\ r.n = d.n /\ r.beg = d.beg /\ d.beg \in Nat
  BY <1>1 DEF DeclIn, Piece
<1>3. CodeCall(r) \in C
  BY <1>1, SeenCode
<1>4. symbol \in Seq(C)
  <2>1. CASE d.what.kind = "type"
    BY <2>1, SomeCalls
  <2>2. CASE d.what.kind # "type"
    <3>1. d.what.kind \in {"global", "static"}
      BY <1>2, <2>2 DEF DeclSet
    <3> HIDE DEF r
    <3>2. CallOf(d.what.kind, r, r, d.what) \in C
      BY <1>1, <1>2, <3>1, SeenCall DEF CallOps
    <3> QED BY <2>2, <3>2, SomeCalls
  <2> QED BY <2>1, <2>2
<1>5. ASSUME NEW i \in DOMAIN d.refs PROVE refs[i] \in C
  <2> DEFINE at == d.refs[i].at
             s == d.refs[i].s
  <2>1. d.refs[i] \in RefSet
    BY <1>2, SeqParts
  <2>2. /\ SeenIn(text', file', stack', atEnd', at) /\ (at.n = d.n => d.beg <= at.beg)
        /\ s # d.what.s => decls[s] # None
        /\ \A x \in Symbols : decls[x] # None /\ decls[x].n = at.n => decls[x].beg <= at.beg
    BY <1>1 DEF DeclIn
  <2>3. s \in Symbols
    BY <2>1 DEF RefSet
  <2>4. /\ SeenIn(text', file', stack', atEnd', target(s))
        /\ target(s).n = at.n => target(s).beg <= at.beg
    <3>1. CASE s = d.what.s
      BY <1>1, <1>2, <2>2, <3>1
    <3>2. CASE s # d.what.s
      <4>1. target(s) = decls[s] /\ decls[s] # None
        BY <2>2, <3>2
      <4>2. SeenIn(text', file', stack', atEnd', decls[s])
        BY <2>3, <4>1, Staying DEF Declarations
      <4> QED BY <2>2, <2>3, <4>1, <4>2
    <3> QED BY <3>1, <3>2
  <2> HIDE DEF target, at, s
  <2>5. UseCall(at, target(s)) \in C
    BY <2>2, <2>4, SeenUse
  <2> QED BY <2>5 DEF at, s
<1> HIDE DEF C, r, symbol
<1>6. refs \in Seq(C)
  <2>1. Len(d.refs) \in Nat /\ DOMAIN d.refs = 1 .. Len(d.refs)
    BY <1>2, SeqParts
  <2>2. refs \in [1 .. Len(d.refs) -> C]
    BY <1>5, <2>1
  <2> HIDE DEF refs
  <2> QED BY <2>1, <2>2
<1> HIDE DEF refs
<1>7. <<CodeCall(r)>> \o symbol \in Seq(C)
  BY <1>3, <1>4, SomeCalls
<1>8. (<<CodeCall(r)>> \o symbol) \o refs \in Seq(C)
  BY <1>6, <1>7, SomeCalls
<1> QED BY <1>8 DEF Deliver, r, symbol, refs, C

LEMMA NothingOn ==
  ASSUME NEW st, st = <<>>, NEW n
  PROVE  ~On(st, n) /\ ~AtStart(st, n)
BY DEF On, AtStart

\* The loops over at_end: the range of an #if reaches into a header from its first
\* position only when it is that of the guard, which is left out.
LEMMA CallsAtEnd ==
  ASSUME Moving, Late, Guarding, HandleTranslationUnit
  PROVE  todo' \in Seq(Calls(text', file', stack', atEnd'))
<1> DEFINE C == Calls(text', file', stack', atEnd')
           conditions(list) == [i \in DOMAIN atEnd[list] |->
                                 CallAtEnd(list, atEnd[list][i].user, atEnd[list][i].usee)]
           ends == [i \in DOMAIN atEnd.endif |->
                     CallAtEnd("endif", atEnd.endif[i], atEnd.endif[i])]
           U == Uses(text', file', stack', atEnd')
           E == Ends(text', file', stack')
<1>1. /\ stack = <<>> /\ UNCHANGED <<text, file, stack>>
      /\ todo' = conditions("ifndef") \o conditions("ifdef") \o ends
  BY DEF HandleTranslationUnit, clang
<1>2. atEnd.ifndef \in Seq(U) /\ atEnd.ifdef \in Seq(U) /\ atEnd.endif \in Seq(E)
  <2> DEFINE A == Seq(U)
             B == Seq(E)
  <2>1. atEnd \in [ifndef : A, ifdef : A, endif : B]
    BY LateStay
  <2> HIDE DEF A, B
  <2>2. atEnd.ifndef \in A /\ atEnd.ifdef \in A /\ atEnd.endif \in B
    BY <2>1
  <2> QED BY <2>2 DEF A, B
<1>3. ASSUME NEW l \in U, NEW list \in {"ifndef", "ifdef"}
      PROVE  CallAtEnd(list, l.user, l.usee) \in C
  <2>1. LateIn(text', file', stack', atEnd', l)
    BY DEF Uses
  <2>2. \A op \in {list, "skip"} : CallOf(op, l.user, l.usee, None) \in C
    BY <2>1, SeenCall DEF LateIn, CallOps
  <2> QED BY <2>2 DEF CallAtEnd
<1>4. ASSUME NEW r \in E PROVE CallAtEnd("endif", r, r) \in C
  <2>1. LexedIn(text', file', stack', r)
    BY DEF Ends
  <2>2. CASE ClearIn(text', file', r)
    <3> DEFINE c == CallOf("endif", r, r, None)
    <3>1. CallOf("skip", r, r, None) \in C
      BY <2>1, AskCall
    <3>2. r \in PieceSet /\ IfRange(text', file', r)
      BY DEF Ends
    <3>3. c.op = "endif" /\ c.user = r /\ c.usee = r /\ c \in CallSet
      BY <3>2 DEF CallOf, CallSet, CallOps
    <3> HIDE DEF c
    <3>4. CallIn(text', file', stack', atEnd', c)
      BY <2>1, <2>2, <3>2, <3>3 DEF CallIn
    <3>5. CallOf("endif", r, r, None) \in C
      BY <3>3, <3>4 DEF Calls, c
    <3> QED BY <3>1, <3>5 DEF CallAtEnd
  <2>3. CASE ~ClearIn(text', file', r)
    <3>1. Wrapped(text[file[r.n]]) /\ ~(r.end <= 1) /\ ~(r.beg >= 1) /\ r.n \in DOMAIN file
          /\ r \in PieceSet
      BY <1>1, <2>1, <2>3 DEF ClearIn, LexedIn
    <3>2. r.beg = 0
      BY <3>1 DEF PieceSet
    <3>3. ~On(stack, r.n) /\ ~AtStart(stack, r.n)
      <4>1. stack = <<>>
        BY <1>1
      <4> HIDE DEF C, conditions, ends, U, E
      <4> QED BY <4>1, NothingOn
    <3>4. /\ text[file[r.n]][1].arg \in guards
          /\ Noted(atEnd, r.n, text[file[r.n]][1].arg)
      BY <3>1, <3>3 DEF Guarding, GuardIn
    <3>5. IsGuard(r)
      BY <3>2, <3>4 DEF IsGuard, Noted
    <3> QED BY <2>1, <3>5, AskCall DEF CallAtEnd
  <2> QED BY <2>2, <2>3
<1> HIDE DEF C, U, E
<1>5. ASSUME NEW list \in {"ifndef", "ifdef"} PROVE conditions(list) \in Seq(C)
  <2>1. atEnd[list] \in Seq(U)
    BY <1>2
  <2>2. /\ Len(atEnd[list]) \in Nat /\ DOMAIN atEnd[list] = 1 .. Len(atEnd[list])
        /\ \A i \in DOMAIN atEnd[list] : atEnd[list][i] \in U
    BY <2>1, SeqParts
  <2>3. conditions(list) \in [1 .. Len(atEnd[list]) -> C]
    BY <1>3, <2>2
  <2> HIDE DEF conditions
  <2> QED BY <2>2, <2>3
<1>6. ends \in Seq(C)
  <2>1. /\ Len(atEnd.endif) \in Nat /\ DOMAIN atEnd.endif = 1 .. Len(atEnd.endif)
        /\ \A i \in DOMAIN atEnd.endif : atEnd.endif[i] \in E
    BY <1>2, SeqParts
  <2>2. ends \in [1 .. Len(atEnd.endif) -> C]
    BY <1>4, <2>1
  <2> HIDE DEF ends
  <2> QED BY <2>1, <2>2
<1> HIDE DEF conditions, ends
<1>7. (conditions("ifndef") \o conditions("ifdef")) \o ends \in Seq(C)
  BY <1>5, <1>6, SomeCalls
<1> QED BY <1>1, <1>7 DEF C

LEMMA CallingStep ==
  ASSUME Moving, Defining, Expanding, Declarations, Late, Guarding, Calling,
         [PluginNext]_pluginVars
  PROVE  Calling'
<1>1. todo \in Seq(Calls(text', file', stack', atEnd'))
  BY StillOfThese, SeqOfMore DEF Calling
<1>2. CASE Perform
  <2>1. todo # <<>> /\ todo' = Tail(todo)
    BY <1>2 DEF Perform
  <2> QED BY <1>1, <2>1 DEF Calling
<1>3. CASE MacroDefined
  BY <1>3, CallsOfDefine DEF Calling
<1>4. CASE MacroExpands
  BY <1>4, CallsOfExpand DEF Calling
<1>5. CASE NestedMacroExpands
  BY <1>5, CallsOfNested DEF Calling
<1>6. CASE If
  BY <1>6, CallsOfIf DEF Calling
<1>7. CASE EndifSeen
  BY <1>7, CallsOfEndif DEF Calling
<1>8. CASE InclusionDirective
  BY <1>8, CallsOfInclusion DEF Calling
<1>9. CASE DeclBegins \/ EndOfMain
  <2>1. todo' = <<>> \/ (ended # None /\ todo' = Deliver(ended))
    BY <1>9 DEF DeclBegins, EndOfMain, DeliverEnded
  <2> QED BY <2>1, CallsOfDeliver, SomeCalls DEF Calling
<1>10. CASE HandleTranslationUnit
  BY <1>10, CallsAtEnd DEF Calling
<1>11. CASE UNCHANGED todo
  BY <1>1, <1>11 DEF Calling
<1> QED
  BY <1>2, <1>3, <1>4, <1>5, <1>6, <1>7, <1>8, <1>9, <1>10, <1>11
     DEF PluginNext, pluginVars, clang, plugin, MacroUndefined, Else, FileChanged, DeclRefers,
         DeclEnds, FinalizeRuns

-----------------------------------------------------------------------------
\* All that was said so far, together.
Lexing == /\ Reading /\ Defining /\ Expanding /\ Declarations /\ Late /\ Guarding /\ Calling

LEMMA LexingStep ==
  ASSUME Lexing, [PluginNext]_pluginVars
  PROVE  Lexing' /\ Moving
<1>1. Moving
  BY StepMoves DEF Lexing
<1>2. Reading'
  BY <1>1 DEF Moving
<1>3. Defining'
  BY <1>1, DefinitionsStep DEF Lexing
<1>4. Expanding'
  BY <1>1, ExpandingStep DEF Lexing
<1>5. Declarations'
  BY <1>1, DeclarationsStep DEF Lexing
<1>6. Late'
  BY <1>1, LateStep DEF Lexing
<1>7. Guarding'
  BY <1>1, GuardingStep DEF Lexing
<1>8. Calling'
  BY <1>1, CallingStep DEF Lexing
<1> QED BY <1>1, <1>2, <1>3, <1>4, <1>5, <1>6, <1>7, <1>8 DEF Lexing

LEMMA LexingInit == PluginInit => Lexing
<1> SUFFICES ASSUME PluginInit PROVE Lexing
  OBVIOUS
<1>1. /\ text \in Texts /\ file = <<Main>> /\ stack = <<[n |-> 1, p |-> 0]>>
      /\ macro = [m \in Macros |-> None] /\ defs = [m \in Macros |-> None]
      /\ expanding = <<>> /\ decl = None /\ ended = None
      /\ decls = [s \in Symbols |-> None]
      /\ atEnd = [ifndef |-> <<>>, ifdef |-> <<>>, endif |-> <<>>]
      /\ todo = <<>> /\ handled = FALSE
  BY DEF PluginInit
<1>2. Main \in Files /\ Len(text[Main]) \in Nat /\ ~Wrapped(text[Main])
  BY <1>1, PluginAssumption, TextParts
<1>3. DOMAIN file = {1} /\ DOMAIN stack = {1} /\ file[1] = Main /\ stack[1] = [n |-> 1, p |-> 0]
  BY <1>1
<1>4. Reading
  <2>1. file \in Seq(Files) /\ stack \in Seq([n : Nat, p : Nat]) /\ Len(file) = 1
    BY <1>1, <1>2
  <2>2. MaxFids >= 1
    BY PluginAssumption
  <2>3. stack[1].n = 1 /\ stack[1].p = 0
    BY <1>3
  <2>4. \A i \in DOMAIN stack : /\ stack[i].n \in DOMAIN file
                                /\ stack[i].p <= Len(text[file[stack[i].n]])
    BY <1>2, <1>3, <2>3
  <2>5. \A i, j \in DOMAIN stack : ~(i < j)
    <3>1. \A i, j \in {1} : ~(i < j)
      OBVIOUS
    <3> QED BY <1>3, <3>1, Zenon
  <2>6. text \in Texts /\ handled = FALSE /\ file[1] = Main
    BY <1>1, <1>3
  <2>7. Len(file) >= 1 /\ Len(file) <= MaxFids
    BY <2>1, <2>2, PluginAssumption
  <2>8. \A i, j \in DOMAIN stack : i < j => stack[i].n < stack[j].n
    BY <2>5, Zenon
  <2> QED BY <2>1, <2>3, <2>4, <2>6, <2>7, <2>8, Zenon DEF Reading
<1>5. Defining
  BY <1>1 DEF Defining
<1>6. Expanding
  BY <1>1 DEF Expanding
<1>7. Declarations
  BY <1>1 DEF Declarations
<1>8. Late
  <2> DEFINE A == Seq(Uses(text, file, stack, atEnd))
             B == Seq(Ends(text, file, stack))
  <2>1. <<>> \in A /\ <<>> \in B
    BY SomeCalls
  <2> HIDE DEF A, B
  <2>2. atEnd \in [ifndef : A, ifdef : A, endif : B]
    BY <1>1, <2>1
  <2> QED BY <2>2 DEF A, B, Late
<1>9. Guarding
  BY <1>2, <1>3 DEF Guarding, GuardIn
<1>10. Calling
  BY <1>1, SomeCalls DEF Calling
<1> QED BY <1>4, <1>5, <1>6, <1>7, <1>8, <1>9, <1>10 DEF Lexing

-----------------------------------------------------------------------------
(* FileMultMap: every inclusion gets a band of its own.                    *)

SameFile(n) == {m \in DOMAIN band : file[m] = file[n]}

Banded ==
  /\ DOMAIN band \subseteq DOMAIN file
  /\ \A n \in DOMAIN band : band[n] \in Nat /\ band[n] < Cardinality(SameFile(n))
  /\ \A n, m \in DOMAIN band : file[n] = file[m] /\ band[n] = band[m] => n = m

\* The places that will be used are in inclusions that have a band, or in that of the
\* first call: no call gives a band to two inclusions at once.
Asked(dom, td, n) == n \in dom \/ (td # <<>> /\ n = Head(td).user.n)

Askable(dom, h) == {c \in CallSet : c.usee.n \in dom \cup {h, c.user.n}}

Asking ==
  /\ \A m \in Macros : macro[m] # None => Asked(DOMAIN band, todo, macro[m].n)
  /\ \A m \in Macros : defs[m] # None => Asked(DOMAIN band, todo, defs[m].n)
  /\ \A s \in Symbols : decls[s] # None => Asked(DOMAIN band, todo, decls[s].n)
  /\ \A list \in {"ifndef", "ifdef"} : \A i \in DOMAIN atEnd[list] :
       Asked(DOMAIN band, todo, atEnd[list][i].usee.n)
  /\ todo # <<>> => todo \in Seq(Askable(DOMAIN band, Head(todo).user.n))

LEMMA SameFileFinite ==
  ASSUME Reading, Banded
  PROVE  \A n : IsFiniteSet(SameFile(n)) /\ Cardinality(SameFile(n)) \in Nat
<1>1. DOMAIN file = 1 .. Len(file) /\ Len(file) \in Nat
  BY StackParts
<1>2. IsFiniteSet(1 .. Len(file))
  BY <1>1, FS_Interval
<1>3. IsFiniteSet(DOMAIN file)
  BY <1>1, <1>2
<1>4. ASSUME NEW n PROVE IsFiniteSet(SameFile(n)) /\ Cardinality(SameFile(n)) \in Nat
  <2>1. SameFile(n) \subseteq DOMAIN file
    BY DEF SameFile, Banded
  <2>2. IsFiniteSet(SameFile(n))
    BY <1>3, <2>1, FS_Subset
  <2> QED BY <2>2, FS_CardinalityType
<1> QED BY <1>4

LEMMA BandIsNat ==
  ASSUME Reading, Banded
  PROVE  \A n : Band(n) \in Nat
BY SameFileFinite DEF Band, Banded, SameFile

\* A piece that was lexed is a range.
LEMMA RangeIs ==
  ASSUME Reading, Banded, NEW r, LexedIn(text, file, stack, r)
  PROVE  /\ RangeOf(r) \in SourceRange
         /\ RangeOf(r).f = file[r.n] /\ RangeOf(r).k = Band(r.n)
         /\ RangeOf(r).beg = r.beg /\ RangeOf(r).end = r.end
<1>1. /\ r.n \in DOMAIN file /\ r.beg \in Nat /\ r.end \in Nat /\ r.beg < r.end
      /\ r.end <= Len(text[file[r.n]])
  BY DEF LexedIn, PieceSet
<1>2. file[r.n] \in Files /\ text \in Texts
  BY <1>1, StackParts DEF Reading
<1>3. Len(text[file[r.n]]) \in Nat /\ Len(text[file[r.n]]) <= Size[file[r.n]]
      /\ Size[file[r.n]] \in Nat
  BY <1>2, TextParts, SizeAssumption
<1>4. r.end <= Size[file[r.n]]
  BY <1>1, <1>3
<1>5. Band(r.n) \in Nat
  BY BandIsNat
<1> QED BY <1>1, <1>2, <1>4, <1>5 DEF RangeOf, SourceRange

\* What a call is made with.
LEMMA NextCall ==
  ASSUME Reading, Calling, Banded, todo # <<>>
  PROVE  /\ Head(todo) \in CallSet /\ CallIn(text, file, stack, atEnd, Head(todo))
         /\ RangeOf(Head(todo).user) \in SourceRange /\ RangeOf(Head(todo).usee) \in SourceRange
         /\ Head(todo).user.n \in DOMAIN file /\ Head(todo).usee.n \in DOMAIN file
<1>1. Head(todo) \in Calls(text, file, stack, atEnd)
  BY DEF Calling
<1>2. Head(todo) \in CallSet /\ CallIn(text, file, stack, atEnd, Head(todo))
  BY <1>1 DEF Calls
<1>3. LexedIn(text, file, stack, Head(todo).user) /\ LexedIn(text, file, stack, Head(todo).usee)
  BY <1>2 DEF CallIn
<1> QED BY <1>2, <1>3, RangeIs DEF LexedIn

\* A call asks about one inclusion that has no band yet, at most.
LEMMA OneAsked ==
  ASSUME Asking, Perform
  PROVE  /\ DOMAIN band' = DOMAIN band \cup {Head(todo).user.n}
         /\ Head(todo).usee.n \in DOMAIN band'
         /\ \A n \in DOMAIN band' : band'[n] = Band(n)
<1>1. todo # <<>> /\ todo \in Seq(Askable(DOMAIN band, Head(todo).user.n))
  BY DEF Perform, Asking
<1>2. Head(todo) \in Askable(DOMAIN band, Head(todo).user.n)
  BY <1>1
<1>3. Head(todo).usee.n \in DOMAIN band \cup {Head(todo).user.n}
  BY <1>2 DEF Askable
<1> QED BY <1>3 DEF Perform

LEMMA BandedPerform ==
  ASSUME Reading, Calling, Banded, Asking, Perform
  PROVE  Banded'
<1> DEFINE u == Head(todo).user.n
<1>1. /\ DOMAIN band' = DOMAIN band \cup {u} /\ \A n \in DOMAIN band' : band'[n] = Band(n)
      /\ file' = file
  BY OneAsked DEF Perform, clang
<1>2. u \in DOMAIN file
  BY NextCall DEF Perform
<1> HIDE DEF u
<1>3. CASE u \in DOMAIN band
  <2>1. DOMAIN band' = DOMAIN band /\ \A n \in DOMAIN band : band'[n] = band[n]
    BY <1>1, <1>3 DEF Band
  <2>2. \A n : SameFile(n)' = SameFile(n)
    BY <1>1, <2>1 DEF SameFile
  <2> QED BY <1>1, <2>1, <2>2 DEF Banded
<1>4. CASE u \notin DOMAIN band
  <2> DEFINE c == Cardinality(SameFile(u))
  <2>1. /\ \A n \in DOMAIN band : band'[n] = band[n]
        /\ band'[u] = c /\ u \in DOMAIN band'
    BY <1>1, <1>4 DEF Band, SameFile
  <2>2. /\ \A n : IsFiniteSet(SameFile(n)) /\ Cardinality(SameFile(n)) \in Nat
        /\ c \in Nat
    BY SameFileFinite
  <2>3. ASSUME NEW n, file[n] = file[u]
        PROVE  SameFile(n)' = SameFile(u) \cup {u} /\ SameFile(n) = SameFile(u)
    BY <1>1, <2>3 DEF SameFile
  <2>4. ASSUME NEW n, file[n] # file[u] PROVE SameFile(n)' = SameFile(n)
    BY <1>1, <2>4 DEF SameFile
  <2>5. Cardinality(SameFile(u) \cup {u}) = c + 1
    <3>1. u \notin SameFile(u)
      BY <1>4 DEF SameFile
    <3> QED BY <2>2, <3>1, FS_AddElement
  <2> HIDE DEF c
  <2>6. ASSUME NEW n \in DOMAIN band'
        PROVE  band'[n] \in Nat /\ band'[n] < Cardinality(SameFile(n)')
    <3>1. CASE n = u
      <4>1. SameFile(n)' = SameFile(u) \cup {u} /\ band'[n] = c
        BY <2>1, <2>3, <3>1
      <4>2. Cardinality(SameFile(n)') = c + 1
        BY <2>5, <4>1
      <4> QED BY <2>2, <4>1, <4>2
    <3>2. CASE n # u
      <4>1. n \in DOMAIN band /\ band'[n] = band[n]
        BY <1>1, <2>1, <2>6, <3>2
      <4>2. band[n] \in Nat /\ band[n] < Cardinality(SameFile(n))
        BY <4>1 DEF Banded
      <4>3. CASE file[n] = file[u]
        <5>1. SameFile(n)' = SameFile(u) \cup {u} /\ SameFile(n) = SameFile(u)
          BY <2>3, <4>3
        <5>2. Cardinality(SameFile(n)') = c + 1 /\ Cardinality(SameFile(n)) = c
          BY <2>5, <5>1 DEF c
        <5> QED BY <2>2, <4>1, <4>2, <5>2
      <4>4. CASE file[n] # file[u]
        BY <2>4, <4>1, <4>2, <4>4
      <4> QED BY <4>3, <4>4
    <3> QED BY <3>1, <3>2
  <2>7. ASSUME NEW n \in DOMAIN band', n # u, file[n] = file[u] PROVE band'[n] # band'[u]
    <3>1. n \in DOMAIN band /\ band'[n] = band[n]
      BY <1>1, <2>1, <2>7
    <3>2. band[n] \in Nat /\ band[n] < c
      BY <2>3, <2>7, <3>1 DEF Banded, c
    <3> QED BY <2>1, <2>2, <3>1, <3>2
  <2>8. ASSUME NEW n \in DOMAIN band', NEW m \in DOMAIN band', file[n] = file[m],
               band'[n] = band'[m]
        PROVE  n = m
    <3>1. CASE n = u \/ m = u
      BY <2>7, <2>8, <3>1
    <3>2. CASE n # u /\ m # u
      BY <1>1, <2>1, <2>8, <3>2 DEF Banded
    <3> QED BY <3>1, <3>2
  <2> QED BY <1>1, <1>2, <2>6, <2>8 DEF Banded
<1> QED BY <1>3, <1>4

\* Only the calls into the collector ask for bands.
LEMMA OnlyCallsAsk ==
  ASSUME [PluginNext]_pluginVars
  PROVE  Perform \/ (UNCHANGED band /\ todo = <<>>) \/ UNCHANGED pluginVars
BY DEF PluginNext, clang, plugin, MacroDefined, MacroUndefined, MacroExpands,
       NestedMacroExpands, If, Else, EndifSeen, InclusionDirective, FileChanged, DeclBegins,
       DeclRefers, DeclEnds, EndOfMain, HandleTranslationUnit, FinalizeRuns, Lexes

LEMMA BandedStep ==
  ASSUME Moving, Calling, Banded, Asking, [PluginNext]_pluginVars
  PROVE  Banded'
<1>1. CASE Perform
  BY <1>1, BandedPerform DEF Moving
<1>2. CASE UNCHANGED band
  <2>1. \A n \in DOMAIN band : n \in DOMAIN file' /\ file'[n] = file[n]
    BY DEF Moving, Onward, Banded
  <2>2. \A n \in DOMAIN band : SameFile(n)' = SameFile(n)
    BY <1>2, <2>1 DEF SameFile
  <2> QED BY <1>2, <2>1, <2>2 DEF Banded
<1> QED BY <1>1, <1>2, OnlyCallsAsk DEF pluginVars, plugin

LEMMA AskingPerform ==
  ASSUME Asking, Perform
  PROVE  Asking'
<1> DEFINE h == Head(todo).user.n
           dom == DOMAIN band
<1>1. /\ DOMAIN band' = dom \cup {h} /\ todo # <<>> /\ todo' = Tail(todo)
      /\ UNCHANGED <<macro, defs, decls, atEnd>>
  BY OneAsked DEF Perform, clang
<1>2. todo \in Seq(Askable(dom, h))
  BY <1>1 DEF Asking
<1>3. \A n : Asked(dom, todo, n) => n \in dom \cup {h}
  BY DEF Asked
<1> HIDE DEF h, dom
<1>4. \A k : Askable(dom, h) \subseteq Askable(dom \cup {h}, k)
  BY DEF Askable
<1>5. \A k : todo' \in Seq(Askable(dom \cup {h}, k))
  <2> SUFFICES ASSUME NEW k PROVE todo' \in Seq(Askable(dom \cup {h}, k))
    OBVIOUS
  <2>1. todo \in Seq(Askable(dom \cup {h}, k))
    BY <1>2, <1>4, SeqOfMore
  <2> QED BY <1>1, <2>1
<1>6. \A n, td : n \in dom \cup {h} => Asked(dom \cup {h}, td, n)
  BY DEF Asked
<1>7. /\ \A m \in Macros : macro[m] # None => macro[m].n \in dom \cup {h}
      /\ \A m \in Macros : defs[m] # None => defs[m].n \in dom \cup {h}
      /\ \A s \in Symbols : decls[s] # None => decls[s].n \in dom \cup {h}
      /\ \A list \in {"ifndef", "ifdef"} : \A i \in DOMAIN atEnd[list] :
           atEnd[list][i].usee.n \in dom \cup {h}
  BY <1>3 DEF Asking, dom
<1> QED BY <1>1, <1>5, <1>6, <1>7 DEF Asking

\* Between callbacks, all that will be used has a band.
HasBands ==
  /\ \A m \in Macros : macro[m] # None => macro[m].n \in DOMAIN band
  /\ \A m \in Macros : defs[m] # None => defs[m].n \in DOMAIN band
  /\ \A s \in Symbols : decls[s] # None => decls[s].n \in DOMAIN band
  /\ \A list \in {"ifndef", "ifdef"} : \A i \in DOMAIN atEnd[list] :
       atEnd[list][i].usee.n \in DOMAIN band

LEMMA BandsBetween ==
  ASSUME Asking, todo = <<>>
  PROVE  HasBands
BY DEF Asking, HasBands, Asked

LEMMA AskableCall ==
  ASSUME NEW dom, NEW h, NEW r \in PieceSet, NEW s \in PieceSet, NEW op \in CallOps,
         NEW what \in {None} \cup Files \cup DeclSet, s.n \in dom \cup {h, r.n}
  PROVE  CallOf(op, r, s, what) \in Askable(dom, h)
BY DEF CallOf, CallSet, Askable

\* Only MacroDefined has users of a definition followed, and only #if defined() notes a
\* position of band 0.
Plain(dom, h) == {c \in Askable(dom, h) : c.op \notin {"follow", "defined"}}
AllPlain == \A i \in DOMAIN todo : todo[i].op \notin {"follow", "defined"}

LEMMA PlainCall ==
  ASSUME NEW dom, NEW h, NEW r \in PieceSet, NEW s \in PieceSet, NEW op \in CallOps,
         op \notin {"follow", "defined"},
         NEW what \in {None} \cup Files \cup DeclSet, s.n \in dom \cup {h, r.n}
  PROVE  CallOf(op, r, s, what) \in Plain(dom, h)
<1>1. CallOf(op, r, s, what) \in Askable(dom, h)
  BY AskableCall
<1> QED BY <1>1 DEF Plain, CallOf

LEMMA PlainIsAskable ==
  ASSUME NEW dom, NEW h
  PROVE  /\ Seq(Plain(dom, h)) \subseteq Seq(Askable(dom, h))
         /\ \A s \in Seq(Plain(dom, h)) : \A i \in DOMAIN s : s[i].op \notin {"follow", "defined"}
<1>1. Plain(dom, h) \subseteq Askable(dom, h)
  BY DEF Plain
<1>2. Seq(Plain(dom, h)) \subseteq Seq(Askable(dom, h))
  BY <1>1, SeqOfMore
<1>3. ASSUME NEW s \in Seq(Plain(dom, h)), NEW i \in DOMAIN s
      PROVE  s[i].op \notin {"follow", "defined"}
  <2>1. s[i] \in Plain(dom, h)
    BY SeqParts
  <2> QED BY <2>1 DEF Plain
<1> QED BY <1>2, <1>3

\* A callback that makes only calls about what has a band, or about the inclusion that
\* its first call is about.
LEMMA AskingKept ==
  ASSUME HasBands, UNCHANGED <<band, macro, defs, decls, atEnd>>,
         todo' # <<>> => todo' \in Seq(Plain(DOMAIN band, Head(todo').user.n))
  PROVE  Asking' /\ AllPlain'
<1>1. todo' # <<>> => todo' \in Seq(Askable(DOMAIN band, Head(todo').user.n))
  BY PlainIsAskable
<1>2. AllPlain'
  BY PlainIsAskable DEF AllPlain
<1> QED BY <1>1, <1>2 DEF HasBands, Asking, Asked

LEMMA OneCall ==
  ASSUME NEW c
  PROVE  /\ <<c>> # <<>> /\ Head(<<c>>) = c
         /\ \A S : c \in S => <<c>> \in Seq(S)
OBVIOUS

LEMMA FirstOf ==
  ASSUME NEW S, NEW c \in S, NEW s \in Seq(S)
  PROVE  <<c>> \o s \in Seq(S) /\ <<c>> \o s # <<>> /\ Head(<<c>> \o s) = c
OBVIOUS

LEMMA AskingDefine ==
  ASSUME Moving, HasBands, Defining, Defining', MacroDefined
  PROVE  Asking'
<1> DEFINE m == Item.arg
           A == Askable(DOMAIN band, Here)
           follow == CallOf("follow", defs[m], This, None)
<1>1. Lexes({"define"}) /\ Advances /\ UNCHANGED <<band, decls, atEnd>>
  BY DEF MacroDefined, Advances
<1>2. This.n = Here /\ This \in PieceSet
  BY <1>1, AdvanceSees, SeenIsPiece DEF Ifs
<1>3. m \in Macros
  BY <1>1, AtItem DEF Moving, ItemOK
<1>4. CodeCall(This) \in A
  BY <1>2, AskableCall DEF CodeCall, CallOps
<1>5. defs[m] # None => follow \in A
  <2>1. defs[m] # None => defs[m] \in PieceSet
    BY <1>3, SeenIsPiece DEF Defining
  <2> QED BY <1>2, <2>1, AskableCall DEF CallOps
<1>6. /\ \/ todo' = <<CodeCall(This)>> \o <<>>
         \/ defs[m] # None /\ todo' = <<CodeCall(This)>> \o <<follow>>
      /\ macro' = [macro EXCEPT ![m] = This]
      /\ defs' = defs \/ defs' = [defs EXCEPT ![m] = This]
  BY DEF MacroDefined
<1> HIDE DEF follow, A
<1>7. /\ todo' \in Seq(A) /\ todo' # <<>> /\ Head(todo') = CodeCall(This)
  <2>1. <<>> \in Seq(A) /\ (defs[m] # None => <<follow>> \in Seq(A))
    BY <1>5, SomeCalls
  <2>2. PICK s \in Seq(A) : todo' = <<CodeCall(This)>> \o s
    BY <1>6, <2>1
  <2>3. /\ <<CodeCall(This)>> \o s \in Seq(A) /\ <<CodeCall(This)>> \o s # <<>>
        /\ Head(<<CodeCall(This)>> \o s) = CodeCall(This)
    BY <1>4, FirstOf
  <2> QED BY <2>2, <2>3, Zenon
<1>8. Head(todo').user.n = Here
  BY <1>2, <1>7 DEF CodeCall, CallOf
<1>9. Asked(DOMAIN band, todo', Here) /\ \A n \in DOMAIN band : Asked(DOMAIN band, todo', n)
  BY <1>7, <1>8 DEF Asked
<1>10. /\ \A x \in Macros : macro'[x] = macro[x] \/ macro'[x] = This
       /\ \A x \in Macros : defs'[x] = defs[x] \/ defs'[x] = This
  BY <1>6 DEF Defining
<1>11. /\ \A x \in Macros : macro'[x] # None => Asked(DOMAIN band, todo', macro'[x].n)
       /\ \A x \in Macros : defs'[x] # None => Asked(DOMAIN band, todo', defs'[x].n)
  BY <1>2, <1>9, <1>10 DEF HasBands
<1> QED BY <1>1, <1>7, <1>8, <1>9, <1>11 DEF Asking, HasBands, A

LEMMA AskingUndefine ==
  ASSUME HasBands, Defining, MacroUndefined, todo = <<>>
  PROVE  Asking' /\ AllPlain'
<1>1. /\ macro' = [macro EXCEPT ![Item.arg] = None]
      /\ UNCHANGED <<band, defs, decls, atEnd, todo>>
  BY DEF MacroUndefined, plugin
<1>2. \A m \in Macros : macro'[m] # None => macro'[m] = macro[m]
  BY <1>1 DEF Defining
<1> QED BY <1>1, <1>2 DEF HasBands, Asking, Asked, AllPlain

LEMMA AskingExpand ==
  ASSUME Moving, HasBands, Defining, MacroExpands, todo = <<>>
  PROVE  Asking' /\ AllPlain'
<1>1. /\ Lexes({"expand"}) /\ Advances /\ UNCHANGED <<band, macro, defs, decls, atEnd>>
      /\ \/ todo' = todo
         \/ macro[Item.arg] # None /\ todo' = <<UseCall(This, macro[Item.arg])>>
  BY DEF MacroExpands, Advances
<1>2. This \in PieceSet /\ Item.arg \in Macros
  BY <1>1, AdvanceSees, SeenIsPiece, AtItem DEF Moving, ItemOK, Ifs
<1>3. ASSUME macro[Item.arg] # None
      PROVE  \A h : UseCall(This, macro[Item.arg]) \in Plain(DOMAIN band, h)
  <2>1. macro[Item.arg] \in PieceSet /\ macro[Item.arg].n \in DOMAIN band
    BY <1>2, <1>3, SeenIsPiece DEF Defining, DefinitionIn, HasBands
  <2> QED BY <1>2, <2>1, PlainCall DEF UseCall, CallOps
<1>4. todo' # <<>> => todo' \in Seq(Plain(DOMAIN band, Head(todo').user.n))
  BY <1>1, <1>3, OneCall
<1> QED BY <1>1, <1>4, AskingKept

LEMMA AskingNested ==
  ASSUME Moving, HasBands, Defining, Expanding, NestedMacroExpands, Calling'
  PROVE  Asking' /\ AllPlain'
<1> DEFINE m == expanding[Len(expanding)]
           c == UseCall(Piece(Here, P - 1, P), macro[m])
<1>1. /\ expanding # <<>> /\ todo' = <<c>> /\ UNCHANGED <<band, macro, defs, decls, atEnd>>
  BY DEF NestedMacroExpands
<1>2. m \in Macros /\ macro[m] # None
  <2>1. expanding \in Seq(Macros)
    BY DEF Expanding
  <2>2. Len(expanding) \in DOMAIN expanding /\ m \in Macros
    BY <1>1, <2>1
  <2> QED BY <2>2 DEF Expanding
<1>3. c \in CallSet
  BY <1>1 DEF Calling, Calls
<1>4. c.usee.n \in DOMAIN band /\ c.op \notin {"follow", "defined"}
  BY <1>2 DEF HasBands, UseCall, CallOf
<1> HIDE DEF c
<1>5. todo' # <<>> => todo' \in Seq(Plain(DOMAIN band, Head(todo').user.n))
  BY <1>1, <1>3, <1>4, OneCall DEF Askable, Plain
<1> QED BY <1>1, <1>5, AskingKept

LEMMA AskingIf ==
  ASSUME Moving, HasBands, Defining, Late, If
  PROVE  Asking'
<1> DEFINE usee == macro[Item.arg]
           A == Askable(DOMAIN band, Here)
           use == [user |-> This, usee |-> IF usee = None THEN This ELSE usee,
                   name |-> Item.arg]
<1>1. /\ SeenIn(text', file', stack', atEnd', This) /\ This.n = Here /\ This \in PieceSet
      /\ usee # None => usee \in PieceSet /\ usee.n \in DOMAIN band
  BY IfPuts, SeenIsPiece DEF HasBands
<1>2. /\ todo' = ConditionCalls(Item.op, usee) /\ UNCHANGED <<band, macro, defs, decls>>
      /\ \/ atEnd' = atEnd
         \/ Item.op # "ifdefined" /\ \E list \in {"ifndef", "ifdef"} :
              atEnd' = [atEnd EXCEPT ![list] = Append(@, use)]
  BY DEF If, PutOff
<1>3. Ask(This) \in A /\ Ask(This).user.n = Here
  BY <1>1, AskableCall DEF Ask, CallOps, CallOf
<1>4. /\ usee # None => UseCall(This, usee) \in A /\ CallOf("defined", This, usee, None) \in A
      /\ UseCall(This, usee).user.n = Here
  BY <1>1, AskableCall DEF UseCall, CallOps, CallOf
<1>5. /\ todo' # <<>> => todo' \in Seq(A) /\ Head(todo').user.n = Here
      /\ usee = None /\ Item.op # "ifdefined" => todo' # <<>>
  <2> HIDE DEF A
  <2>1. CASE usee = None
    <3>1. \/ Item.op = "ifdefined" /\ todo' = <<>>
          \/ todo' = <<Ask(This)>>
      BY <1>2, <2>1 DEF ConditionCalls
    <3> QED BY <1>3, <2>1, <3>1, OneCall
  <2>2. CASE usee # None
    <3>1. \/ todo' = <<UseCall(This, usee)>> \o <<>>
          \/ todo' = <<UseCall(This, usee)>> \o <<CallOf("defined", This, usee, None)>>
      BY <1>2, <2>2 DEF ConditionCalls
    <3>2. <<>> \in Seq(A) /\ <<CallOf("defined", This, usee, None)>> \in Seq(A)
      BY <1>4, <2>2, SomeCalls
    <3>3. PICK s \in Seq(A) : todo' = <<UseCall(This, usee)>> \o s
      BY <3>1, <3>2
    <3>4. /\ <<UseCall(This, usee)>> \o s \in Seq(A)
          /\ Head(<<UseCall(This, usee)>> \o s) = UseCall(This, usee)
      BY <1>4, <2>2, FirstOf
    <3>5. todo' \in Seq(A) /\ Head(todo') = UseCall(This, usee)
      BY <3>3, <3>4, Zenon
    <3> QED BY <1>4, <2>2, <3>5
  <2> QED BY <2>1, <2>2
<1>6. use.usee.n \in DOMAIN band \/ (usee = None /\ use.usee.n = Here)
  BY <1>1
<1>7. ASSUME NEW list \in {"ifndef", "ifdef"}, NEW i \in DOMAIN atEnd'[list]
      PROVE  Asked(DOMAIN band, todo', atEnd'[list][i].usee.n)
  <2>1. CASE atEnd' = atEnd
    BY <2>1 DEF HasBands, Asked
  <2>2. CASE Item.op # "ifdefined" /\ \E l \in {"ifndef", "ifdef"} :
               atEnd' = [atEnd EXCEPT ![l] = Append(@, use)]
    <3>1. PICK l \in {"ifndef", "ifdef"} : atEnd' = [atEnd EXCEPT ![l] = Append(@, use)]
      BY <2>2
    <3>2. Asked(DOMAIN band, todo', use.usee.n)
      BY <1>5, <1>6, <2>2 DEF Asked
    <3>3. /\ atEnd[list] \in Seq(Uses(text, file, stack, atEnd))
          /\ DOMAIN atEnd = {"ifndef", "ifdef", "endif"}
      <4> DEFINE B == Seq(Uses(text, file, stack, atEnd))
                 C == Seq(Ends(text, file, stack))
      <4>1. atEnd \in [ifndef : B, ifdef : B, endif : C]
        BY DEF Late
      <4> HIDE DEF B, C
      <4>2. atEnd[list] \in B /\ DOMAIN atEnd = {"ifndef", "ifdef", "endif"}
        BY <4>1
      <4> QED BY <4>2 DEF B
    <3> HIDE DEF use
    <3>4. atEnd'[list] = atEnd[list] \/ atEnd'[list] = Append(atEnd[list], use)
      BY <3>1, <3>3
    <3>5. ASSUME NEW S, NEW s \in Seq(S), NEW j \in DOMAIN Append(s, use)
          PROVE  (j \in DOMAIN s /\ Append(s, use)[j] = s[j]) \/ Append(s, use)[j] = use
      OBVIOUS
    <3>6. \/ i \in DOMAIN atEnd[list] /\ atEnd'[list][i] = atEnd[list][i]
          \/ atEnd'[list][i] = use
      BY <3>3, <3>4, <3>5
    <3> QED BY <3>2, <3>6 DEF HasBands, Asked
  <2> QED BY <1>2, <2>1, <2>2
<1>8. todo' # <<>> => todo' \in Seq(Askable(DOMAIN band, Head(todo').user.n))
  BY <1>5
<1> QED BY <1>2, <1>7, <1>8 DEF Asking, HasBands, Asked

LEMMA AskingOne ==
  ASSUME HasBands, UNCHANGED <<band, macro, defs, decls>>, Calling',
         UNCHANGED <<atEnd.ifndef, atEnd.ifdef>>,
         NEW op, NEW r, NEW what, todo' = <<CallOf(op, r, r, what)>>,
         op \notin {"follow", "defined"}
  PROVE  Asking' /\ AllPlain'
<1> DEFINE c == CallOf(op, r, r, what)
<1>1. c \in CallSet
  BY DEF Calling, Calls
<1>2. c.usee.n = c.user.n /\ c.op \notin {"follow", "defined"}
  BY DEF CallOf
<1> HIDE DEF c
<1>3. c \in Plain(DOMAIN band, c.user.n)
  BY <1>1, <1>2 DEF Askable, Plain
<1>4. todo' \in Seq(Plain(DOMAIN band, Head(todo').user.n))
  BY <1>3, OneCall DEF c
<1>5. todo' \in Seq(Askable(DOMAIN band, Head(todo').user.n)) /\ AllPlain'
  <2> DEFINE h == Head(todo').user.n
             dom == DOMAIN band
  <2>1. todo' \in Seq(Plain(dom, h))
    BY <1>4
  <2> HIDE DEF h, dom
  <2>2. todo' \in Seq(Askable(dom, h)) /\ AllPlain'
    BY <2>1, PlainIsAskable DEF AllPlain
  <2> QED BY <2>2 DEF h, dom
<1>6. \A list \in {"ifndef", "ifdef"} : \A i \in DOMAIN atEnd'[list] :
        atEnd'[list][i].usee.n \in DOMAIN band
  BY DEF HasBands
<1> QED BY <1>5, <1>6 DEF HasBands, Asking, Asked

LEMMA AskingDeliver ==
  ASSUME Moving, HasBands, Declarations, DeliverEnded, Calling',
         UNCHANGED <<band, macro, defs, atEnd>>
  PROVE  Asking' /\ AllPlain'
<1>1. CASE ended = None
  BY <1>1, AskingKept DEF DeliverEnded
<1>2. CASE ended # None
  <2> DEFINE d == ended
             r == Piece(d.n, d.beg, d.end)
             A == Plain(DOMAIN band, r.n)
             target(s) == IF s = d.what.s THEN r ELSE decls[s]
             symbol == IF d.what.kind = "type" THEN <<>>
                       ELSE <<CallOf(d.what.kind, r, r, d.what)>>
             refs == [i \in DOMAIN d.refs |-> UseCall(d.refs[i].at, target(d.refs[i].s))]
  <2>1. /\ todo' = (<<CodeCall(r)>> \o symbol) \o refs
        /\ decls' = [decls EXCEPT ![d.what.s] = r]
    BY <1>2 DEF DeliverEnded, Deliver
  <2>2. DeclIn(text, file, stack, atEnd, decls, d) /\ SeenIn(text, file, stack, atEnd, r)
    BY <1>2 DEF Declarations
  <2>3. d.what \in DeclSet /\ d.refs \in Seq(RefSet) /\ r \in PieceSet
    BY <2>2, SeenIsPiece DEF DeclIn
  <2>4. CodeCall(r) \in A /\ CodeCall(r).user = r
    BY <2>3, PlainCall DEF CodeCall, CallOps, CallOf
  <2>5. symbol \in Seq(A)
    <3>1. CASE d.what.kind = "type"
      BY <3>1, SomeCalls
    <3>2. CASE d.what.kind # "type"
      <4>1. d.what.kind \in CallOps /\ d.what.kind \notin {"follow", "defined"}
        BY <2>3, <3>2 DEF DeclSet, CallOps
      <4> HIDE DEF r
      <4>2. CallOf(d.what.kind, r, r, d.what) \in A
        BY <2>3, <4>1, PlainCall
      <4> QED BY <3>2, <4>2, SomeCalls
    <3> QED BY <3>1, <3>2
  <2>6. ASSUME NEW i \in DOMAIN d.refs PROVE refs[i] \in A
    <3> DEFINE at == d.refs[i].at
               s == d.refs[i].s
    <3>1. d.refs[i] \in RefSet
      BY <2>3, SeqParts
    <3>2. at \in PieceSet /\ s \in Symbols /\ (s # d.what.s => decls[s] # None)
      BY <2>2, <3>1 DEF DeclIn, RefSet
    <3>3. target(s) \in PieceSet /\ target(s).n \in DOMAIN band \cup {r.n}
      <4>1. CASE s = d.what.s
        BY <2>3, <4>1
      <4>2. CASE s # d.what.s
        <5>1. target(s) = decls[s] /\ decls[s] # None
          BY <3>2, <4>2
        <5> QED BY <3>2, <5>1, SeenIsPiece DEF Declarations, HasBands
      <4> QED BY <4>1, <4>2
    <3> HIDE DEF target, r, at, s
    <3>4. UseCall(at, target(s)) \in A
      BY <3>2, <3>3, PlainCall DEF UseCall, CallOps
    <3> QED BY <3>4 DEF at, s
  <2> HIDE DEF A, r, symbol
  <2>7. refs \in Seq(A)
    <3>1. Len(d.refs) \in Nat /\ DOMAIN d.refs = 1 .. Len(d.refs)
      BY <2>3, SeqParts
    <3>2. refs \in [1 .. Len(d.refs) -> A]
      BY <2>6, <3>1
    <3> HIDE DEF refs
    <3> QED BY <3>1, <3>2
  <2> HIDE DEF refs
  <2>8. /\ <<CodeCall(r)>> \o symbol \in Seq(A) /\ <<CodeCall(r)>> \o symbol # <<>>
        /\ Head(<<CodeCall(r)>> \o symbol) = CodeCall(r)
    BY <2>4, <2>5, FirstOf
  <2>9. ASSUME NEW x \in Seq(A), x # <<>>, NEW y \in Seq(A)
        PROVE  x \o y \in Seq(A) /\ x \o y # <<>> /\ Head(x \o y) = Head(x)
    BY <2>9
  <2>10. todo' \in Seq(A) /\ todo' # <<>> /\ Head(todo').user = r
    <3> DEFINE x == <<CodeCall(r)>> \o symbol
    <3>1. x \in Seq(A) /\ x # <<>> /\ Head(x).user = r /\ todo' = x \o refs
      BY <2>1, <2>4, <2>8
    <3> HIDE DEF x
    <3> QED BY <2>7, <2>9, <3>1
  <2>11. Asked(DOMAIN band, todo', r.n) /\ \A n \in DOMAIN band : Asked(DOMAIN band, todo', n)
    BY <2>10 DEF Asked
  <2>12. ASSUME NEW s \in Symbols, decls'[s] # None
         PROVE  Asked(DOMAIN band, todo', decls'[s].n)
    <3>1. decls'[s] = decls[s] \/ decls'[s] = r
      BY <2>1 DEF Declarations
    <3> QED BY <2>11, <2>12, <3>1 DEF HasBands
  <2>13. todo' \in Seq(Askable(DOMAIN band, r.n)) /\ AllPlain'
    BY <2>10, PlainIsAskable DEF A, AllPlain
  <2> QED BY <2>10, <2>11, <2>12, <2>13 DEF Asking, HasBands
<1> QED BY <1>1, <1>2

LEMMA AskingAtEnd ==
  ASSUME Moving, HasBands, Late, HandleTranslationUnit
  PROVE  Asking' /\ AllPlain'
<1> DEFINE A == Plain(DOMAIN band, Head(todo').user.n)
           conditions(list) == [i \in DOMAIN atEnd[list] |->
                                 CallAtEnd(list, atEnd[list][i].user, atEnd[list][i].usee)]
           ends == [i \in DOMAIN atEnd.endif |->
                     CallAtEnd("endif", atEnd.endif[i], atEnd.endif[i])]
           U == Uses(text, file, stack, atEnd)
           E == Ends(text, file, stack)
<1>1. /\ UNCHANGED <<band, macro, defs, decls, atEnd>>
      /\ todo' = conditions("ifndef") \o conditions("ifdef") \o ends
  BY DEF HandleTranslationUnit, clang
<1>2. atEnd.ifndef \in Seq(U) /\ atEnd.ifdef \in Seq(U) /\ atEnd.endif \in Seq(E)
  <2> DEFINE B == Seq(U)
             C == Seq(E)
  <2>1. atEnd \in [ifndef : B, ifdef : B, endif : C]
    BY DEF Late
  <2> HIDE DEF B, C
  <2>2. atEnd.ifndef \in B /\ atEnd.ifdef \in B /\ atEnd.endif \in C
    BY <2>1
  <2> QED BY <2>2 DEF B, C
<1>3. ASSUME NEW l \in U, l.usee.n \in DOMAIN band, NEW list \in {"ifndef", "ifdef"}
      PROVE  CallAtEnd(list, l.user, l.usee) \in A
  <2>1. l.user \in PieceSet /\ l.usee \in PieceSet
    BY DEF Uses, LateSet
  <2>2. \A op \in {list, "skip"} : CallOf(op, l.user, l.usee, None) \in A
    BY <1>3, <2>1, PlainCall DEF CallOps
  <2> QED BY <2>2 DEF CallAtEnd
<1>4. ASSUME NEW r \in E PROVE CallAtEnd("endif", r, r) \in A
  <2>1. r \in PieceSet
    BY DEF Ends
  <2>2. \A op \in {"endif", "skip"} : CallOf(op, r, r, None) \in A
    BY <2>1, PlainCall DEF CallOps
  <2> QED BY <2>2 DEF CallAtEnd
<1> HIDE DEF A, U, E
<1>5. ASSUME NEW list \in {"ifndef", "ifdef"} PROVE conditions(list) \in Seq(A)
  <2>1. atEnd[list] \in Seq(U)
    BY <1>2
  <2>2. /\ Len(atEnd[list]) \in Nat /\ DOMAIN atEnd[list] = 1 .. Len(atEnd[list])
        /\ \A i \in DOMAIN atEnd[list] : atEnd[list][i] \in U
    BY <2>1, SeqParts
  <2>3. \A i \in DOMAIN atEnd[list] : atEnd[list][i].usee.n \in DOMAIN band
    BY DEF HasBands
  <2>4. conditions(list) \in [1 .. Len(atEnd[list]) -> A]
    BY <1>3, <2>2, <2>3
  <2> HIDE DEF conditions
  <2> QED BY <2>2, <2>4
<1>6. ends \in Seq(A)
  <2>1. /\ Len(atEnd.endif) \in Nat /\ DOMAIN atEnd.endif = 1 .. Len(atEnd.endif)
        /\ \A i \in DOMAIN atEnd.endif : atEnd.endif[i] \in E
    BY <1>2, SeqParts
  <2>2. ends \in [1 .. Len(atEnd.endif) -> A]
    BY <1>4, <2>1
  <2> HIDE DEF ends
  <2> QED BY <2>1, <2>2
<1> HIDE DEF conditions, ends
<1>7. (conditions("ifndef") \o conditions("ifdef")) \o ends \in Seq(A)
  BY <1>5, <1>6, SomeCalls
<1> QED BY <1>1, <1>7, AskingKept DEF A

LEMMA AskingStep ==
  ASSUME Moving, Lexing, Lexing', Asking, [PluginNext]_pluginVars
  PROVE  Asking' /\ (Perform \/ MacroDefined \/ If \/ UNCHANGED todo \/ AllPlain')
<1>1. CASE Perform
  BY <1>1, AskingPerform
<1>2. CASE UNCHANGED pluginVars
  BY <1>2 DEF Asking, pluginVars, clang, plugin
<1>3. CASE todo = <<>> /\ PluginNext
  <2> USE <1>3
  <2>1. HasBands
    BY BandsBetween
  <2> USE <2>1 DEF Lexing
  <2>2. CASE MacroDefined
    BY <2>2, AskingDefine
  <2>3. CASE MacroUndefined
    BY <2>3, AskingUndefine
  <2>4. CASE MacroExpands
    BY <2>4, AskingExpand
  <2>5. CASE NestedMacroExpands
    BY <2>5, AskingNested
  <2>6. CASE If
    BY <2>6, AskingIf
  <2>7. CASE EndifSeen
    <3>1. /\ UNCHANGED <<band, macro, defs, decls>>
          /\ todo' = <<Ask(Piece(Here, IfOf(text[file[Here]], P), P + 1))>>
          /\ \E r : atEnd' = [atEnd EXCEPT !.endif = Append(@, r)]
      BY <2>7 DEF EndifSeen
    <3>2. UNCHANGED <<atEnd.ifndef, atEnd.ifdef>>
      <4> DEFINE B == Seq(Uses(text, file, stack, atEnd))
                 C == Seq(Ends(text, file, stack))
      <4>1. atEnd \in [ifndef : B, ifdef : B, endif : C]
        BY DEF Late
      <4> HIDE DEF B, C
      <4> QED BY <3>1, <4>1
    <3> QED BY <3>1, <3>2, AskingOne DEF Ask
  <2>8. CASE InclusionDirective
    <3>1. /\ UNCHANGED <<band, macro, defs, decls, atEnd>>
          /\ todo' = <<CallOf("inclusion", This, This, Item.arg)>>
      BY <2>8 DEF InclusionDirective
    <3> QED BY <3>1, AskingOne
  <2>9. CASE DeclBegins \/ EndOfMain
    <3>1. DeliverEnded /\ UNCHANGED <<band, macro, defs, atEnd>>
      BY <2>9 DEF DeclBegins, EndOfMain
    <3> QED BY <3>1, AskingDeliver
  <2>10. CASE HandleTranslationUnit
    BY <2>10, AskingAtEnd
  <2>11. CASE UNCHANGED <<todo, band, macro, defs, decls, atEnd>>
    BY <2>11, AskingKept
  <2> QED
    BY <1>1, <2>2, <2>3, <2>4, <2>5, <2>6, <2>7, <2>8, <2>9, <2>10, <2>11
       DEF PluginNext, clang, plugin, Else, FileChanged, DeclRefers, DeclEnds, FinalizeRuns
<1> QED BY <1>1, <1>2, <1>3, OnlyCallsAsk

-----------------------------------------------------------------------------
(* The collector's own invariant, under the calls that the plugin makes.   *)

LEMMA MakeIsCall ==
  ASSUME Reading, Calling, Banded, Perform
  PROVE  AnyCall \/ UNCHANGED vars
<1> DEFINE c == Head(todo)
           user == RangeOf(c.user)
           usee == RangeOf(c.usee)
<1>1. /\ c \in CallSet /\ CallIn(text, file, stack, atEnd, c)
      /\ user \in SourceRange /\ usee \in SourceRange
  BY NextCall DEF Perform
<1>2. Make(c)
  BY DEF Perform
<1>3. /\ c.op \in {"global", "static"} => c.what.s \in Symbols /\ c.what.def \in BOOLEAN
      /\ c.op = "inclusion" => c.what \in Files
  BY <1>1 DEF CallIn, DeclSet
<1>4. Begin(user) \in Pos /\ InBand(usee, 0) \in SourceRange
  BY <1>1, InBandIsRange DEF Begin, Pos, SourceRange
<1> HIDE DEF c, user, usee
<1>5. \/ c.op \in {"ask", "skip"} /\ UNCHANGED vars
      \/ AddCode(user) \/ UseCode(user, usee) \/ Follow(user, usee)
      \/ c.op = "global" /\ GlobalCode(user, c.what.s, c.what.def)
      \/ c.op = "static" /\ StaticCode(user, c.what.s, c.what.def)
      \/ c.op = "inclusion" /\ Inclusion(Begin(user), c.what)
      \/ Conditional("defined", Begin(user), InBand(usee, 0))
      \/ c.op \in {"ifndef", "ifdef"} /\ Conditional(c.op, Begin(user), usee)
      \/ Endif(user)
  BY <1>2 DEF Make, user, usee
<1> QED BY <1>1, <1>3, <1>4, <1>5 DEF AnyCall

\* Every step is a call, an iteration of finalize's loops or none of the collector's.
LEMMA CollectorMoves ==
  ASSUME Lexing, Banded, [PluginNext]_pluginVars
  PROVE  \/ Perform /\ AnyCall
         \/ FinalizeRuns /\ FinalizeStep
         \/ UNCHANGED vars
<1>1. CASE Perform
  BY <1>1, MakeIsCall DEF Lexing
<1> QED
  BY <1>1
     DEF PluginNext, pluginVars, MacroDefined, MacroUndefined, MacroExpands,
         NestedMacroExpands, If, Else, EndifSeen, InclusionDirective, FileChanged, DeclBegins,
         DeclRefers, DeclEnds, EndOfMain, HandleTranslationUnit, FinalizeRuns

\* The inductive invariant of the plugin and the collector together.
PluginInv == Lexing /\ Banded /\ Asking /\ Inv

LEMMA PluginInvStep ==
  ASSUME PluginInv, [PluginNext]_pluginVars
  PROVE  PluginInv' /\ Moving
<1>1. Lexing' /\ Moving
  BY LexingStep DEF PluginInv
<1>2. Banded'
  BY <1>1, BandedStep DEF PluginInv, Lexing
<1>3. Asking'
  BY <1>1, AskingStep DEF PluginInv
<1>4. Inv'
  BY CollectorMoves, CallInv, FinalizeInv, StutterInv DEF PluginInv
<1> QED BY <1>1, <1>2, <1>3, <1>4 DEF PluginInv

LEMMA PluginInvInit == PluginInit => PluginInv
<1> SUFFICES ASSUME PluginInit PROVE PluginInv
  OBVIOUS
<1>1. Lexing
  BY LexingInit
<1>2. Inv
  BY InitInv DEF PluginInit
<1>3. /\ band = <<>> /\ todo = <<>> /\ macro = [m \in Macros |-> None]
      /\ defs = [m \in Macros |-> None] /\ decls = [s \in Symbols |-> None]
      /\ atEnd = [ifndef |-> <<>>, ifdef |-> <<>>, endif |-> <<>>]
  BY DEF PluginInit
<1>4. Banded
  BY <1>3 DEF Banded
<1>5. Asking
  BY <1>3 DEF Asking
<1> QED BY <1>1, <1>2, <1>4, <1>5 DEF PluginInv

LEMMA PluginInvariance == PluginSpec => []PluginInv
<1>1. PluginInv /\ [PluginNext]_pluginVars => PluginInv'
  BY PluginInvStep
<1> QED BY <1>1, PluginInvInit, PTL DEF PluginSpec

\* Types; in particular every call into the collector is made with a range of the file it
\* is about (clang_source_range), and no two inclusions of a file share a band
\* (FileMultMap).
THEOREM PluginTypes == PluginSpec => []PluginTypeOK
<1>1. ASSUME PluginInv PROVE PluginTypeOK
  <2>1. TypeOK
    BY <1>1 DEF PluginInv, Inv
  <2>2. /\ \A i \in DOMAIN stack : stack[i].n \in DOMAIN file
        /\ Len(file) <= MaxFids
    BY <1>1 DEF PluginInv, Lexing, Reading
  <2>3. /\ DOMAIN band \subseteq DOMAIN file
        /\ \A n, m \in DOMAIN band : file[n] = file[m] /\ band[n] = band[m] => n = m
    BY <1>1 DEF PluginInv, Banded
  <2>4. ASSUME NEW i \in DOMAIN todo
        PROVE  RangeOf(todo[i].user) \in SourceRange /\ RangeOf(todo[i].usee) \in SourceRange
    <3>1. todo \in Seq(Calls(text, file, stack, atEnd)) /\ Reading /\ Banded
      BY <1>1 DEF PluginInv, Lexing, Calling
    <3>2. todo[i] \in Calls(text, file, stack, atEnd)
      BY <3>1
    <3> QED BY <3>1, <3>2, RangeIs DEF Calls, CallIn
  <2> QED BY <2>1, <2>2, <2>3, <2>4 DEF PluginTypeOK
<1> QED BY <1>1, PluginInvariance, PTL

\* The collector, called in any way with any ranges: Collector!Spec when all ranges and
\* positions are among those that calls mention.
AnyCaller == Init /\ [][AnyCall \/ FinalizeStep]_vars

\* The plugin is one of the collector's callers: a callback makes no step that is not a
\* call, one of finalize's, or none of the collector's. So what is true of the collector
\* whoever calls it is true of it in the plugin.
THEOREM PluginIsACaller == PluginSpec => AnyCaller
<1>1. PluginInit => Init
  BY DEF PluginInit
<1>2. ASSUME PluginInv, [PluginNext]_pluginVars PROVE [AnyCall \/ FinalizeStep]_vars
  BY <1>2, CollectorMoves DEF PluginInv
<1> QED BY <1>1, <1>2, PluginInvariance, PTL DEF PluginSpec, AnyCaller

-----------------------------------------------------------------------------
(* A set of ranges that is closed under growing to a hull, and under going  *)
(* down a band, holds all pieces of code when the calls are made with its   *)
(* ranges.                                                                  *)

HullClosed(C) ==
  /\ C \subseteq SourceRange
  /\ \A r \in C : \A j \in 0 .. r.k : InBand(r, j) \in C
  /\ \A V \in SUBSET C : \A r \in C : NoOverlap(V) => Hull(V, r) \in C

LEMMA CodeStaysIn ==
  ASSUME NEW C, HullClosed(C), NEW h, IsGraph(h), NoOverlap(h.verts), h.verts \subseteq C,
         NEW r \in C, NEW bands, bands \subseteq 0 .. r.k
  PROVE  CodeIn(h, r, bands).verts \subseteq C
<1>1. CodeIn(h, r, bands).verts = (h.verts \ Gone(h.verts, r, bands))
                                    \cup {Hull(h.verts, InBand(r, j)) : j \in bands}
  BY DEF CodeIn
<1>2. \A j \in bands : Hull(h.verts, InBand(r, j)) \in C
  BY DEF HullClosed
<1> QED BY <1>1, <1>2

LEMMA CodesStayIn ==
  ASSUME NEW C, HullClosed(C), NEW h, Good(h), h.verts \subseteq C, NEW r \in C
  PROVE  /\ Code(h, r).verts \subseteq C /\ Good(Code(h, r)) /\ r \in SourceRange
         /\ CodeIfExists(h, r).verts \subseteq C
<1>1. r \in SourceRange
  BY DEF HullClosed
<1>2. Good(Code(h, r))
  BY <1>1, CodeGood
<1>3. \A bands : bands \subseteq 0 .. r.k => CodeIn(h, r, bands).verts \subseteq C
  BY CodeStaysIn DEF Good
<1> QED BY <1>1, <1>2, <1>3 DEF Code, CodeIfExists

LEMMA UsesStayIn ==
  ASSUME NEW C, HullClosed(C), NEW h, Good(h), h.verts \subseteq C, NEW r \in C, NEW s \in C
  PROVE  /\ Use(h, r, s).verts \subseteq C
         /\ \A x : UseIfUserExists(h, x, s).verts \subseteq C
         /\ \A k \in FollowUsersOf(h, r, s) : k.verts \subseteq C
<1>1. /\ Code(Code(h, r), s).verts \subseteq C /\ Good(Code(Code(h, r), s))
      /\ Code(Code(h, s), r).verts \subseteq C /\ Good(Code(Code(h, s), r))
      /\ Code(h, s).verts \subseteq C /\ Good(Code(h, s))
  BY CodesStayIn
<1>2. \A k, e : IsGraph(k) => AddEdge(k, e).verts = k.verts
  BY DEF AddEdge, IsGraph
<1>3. \A k, E, t : IsGraph(k) => PutEdges(k, E, t).verts = k.verts
  BY DEF PutEdges, IsGraph
<1>4. Use(h, r, s).verts \subseteq C
  <2> DEFINE k == Code(Code(h, r), s)
             a == At(k.verts, Begin(r))
             b == At(k.verts, Begin(s))
  <2>1. Use(h, r, s) = IF a = b THEN k ELSE AddEdge(DelEdge(k, <<b, a>>), <<a, b>>)
    BY DEF Use
  <2>2. AddEdge(DelEdge(k, <<b, a>>), <<a, b>>).verts = k.verts
    <3>1. k = [verts |-> k.verts, edge |-> k.edge, incs |-> k.incs]
      BY <1>1 DEF Good, IsGraph
    <3> HIDE DEF k
    <3> QED BY <3>1 DEF AddEdge, DelEdge
  <2> QED BY <1>1, <2>1, <2>2
<1>5. \A x : UseIfUserExists(h, x, s).verts \subseteq C
  <2> SUFFICES ASSUME NEW x PROVE UseIfUserExists(h, x, s).verts \subseteq C
    OBVIOUS
  <2> DEFINE k == Code(h, s)
  <2>1. \/ UseIfUserExists(h, x, s) = k
        \/ \E e : UseIfUserExists(h, x, s) = AddEdge(k, e)
    BY DEF UseIfUserExists
  <2> QED BY <1>1, <1>2, <2>1 DEF Good
<1>6. \A k \in FollowUsersOf(h, r, s) : k.verts \subseteq C
  <2> SUFFICES ASSUME NEW k \in FollowUsersOf(h, r, s) PROVE k.verts \subseteq C
    OBVIOUS
  <2> DEFINE m == Code(Code(h, s), r)
  <2>1. k = m \/ \E E : k = PutEdges(m, E, "FOLLOWS")
    BY DEF FollowUsersOf
  <2> QED BY <1>1, <1>3, <2>1 DEF Good
<1> QED BY <1>4, <1>5, <1>6

\* All pieces of code, and the ranges put off until finalize, are in C.
CodeIsIn(C) ==
  /\ g.verts \subseteq C
  /\ extra \in [defined : Seq(Pos \X C), ifndef : Seq(Pos \X C), ifdef : Seq(Pos \X C),
                endif : Seq(C)]

LEMMA ExtraIn ==
  ASSUME NEW S, NEW T, NEW x \in [defined : S, ifndef : S, ifdef : S, endif : T]
  PROVE  /\ \A list \in {"defined", "ifndef", "ifdef"} : x[list] \in S
         /\ x.endif \in T
         /\ \A list \in {"defined", "ifndef", "ifdef"} : \A y \in S :
              [x EXCEPT ![list] = y] \in [defined : S, ifndef : S, ifdef : S, endif : T]
         /\ \A y \in T :
              [x EXCEPT !.endif = y] \in [defined : S, ifndef : S, ifdef : S, endif : T]
OBVIOUS

LEMMA MoreIsIn ==
  ASSUME NEW C, NEW D, C \subseteq D, CodeIsIn(C)
  PROVE  CodeIsIn(D)
<1>1. Pos \X C \subseteq Pos \X D
  OBVIOUS
<1>2. Seq(C) \subseteq Seq(D) /\ Seq(Pos \X C) \subseteq Seq(Pos \X D)
  BY <1>1, SeqOfMore
<1> DEFINE A == Seq(Pos \X C)
           B == Seq(Pos \X D)
           E == Seq(C)
           F == Seq(D)
<1>3. /\ g.verts \subseteq C /\ A \subseteq B /\ E \subseteq F
      /\ extra \in [defined : A, ifndef : A, ifdef : A, endif : E]
  BY <1>2 DEF CodeIsIn
<1> HIDE DEF A, B, E, F
<1>4. g.verts \subseteq D /\ extra \in [defined : B, ifndef : B, ifdef : B, endif : F]
  BY <1>3
<1> QED BY <1>4 DEF CodeIsIn, B, F

LEMMA CallIsIn ==
  ASSUME Inv, NEW C, HullClosed(C), CodeIsIn(C), NEW call, Make(call),
         call.op \notin {"ask", "skip"} =>
           RangeOf(call.user) \in C /\ RangeOf(call.usee) \in C
  PROVE  CodeIsIn(C)'
<1> DEFINE user == RangeOf(call.user)
           usee == RangeOf(call.usee)
           S == Seq(Pos \X C)
           T == Seq(C)
<1>1. Good(g) /\ g.verts \subseteq C /\ extra \in [defined : S, ifndef : S, ifdef : S, endif : T]
  BY InvIsGood DEF CodeIsIn
<1>2. CASE call.op \in {"ask", "skip"} /\ UNCHANGED vars
  BY <1>2 DEF vars, CodeIsIn
<1>3. CASE call.op \notin {"ask", "skip"}
  <2>1. user \in C /\ usee \in C /\ user \in SourceRange /\ usee \in SourceRange
    BY <1>3 DEF HullClosed
  <2>2. Begin(user) \in Pos
    BY <2>1 DEF Begin, Pos, SourceRange
  <2> HIDE DEF user, usee
  <2>3. ASSUME \/ g' = Code(g, user) \/ g' = Use(g, user, usee)
               \/ g' \in FollowUsersOf(g, user, usee) \/ g' = g
        PROVE  g'.verts \subseteq C
    BY <1>1, <2>1, <2>3, CodesStayIn, UsesStayIn
  <2>4. \/ /\ \/ g' = Code(g, user) \/ g' = Use(g, user, usee)
              \/ g' \in FollowUsersOf(g, user, usee) \/ g' = g
           /\ extra' = extra
        \/ /\ g' = g
           /\ \E list \in {"defined", "ifndef", "ifdef"} : \E r \in {usee, InBand(usee, 0)} :
                extra' = [extra EXCEPT ![list] = Append(@, <<Begin(user), r>>)]
        \/ g' = g /\ extra' = [extra EXCEPT !.endif = Append(@, user)]
    BY <1>3 DEF Make, user, usee, AddCode, UseCode, Follow, GlobalCode, StaticCode, SymbolCode,
                Inclusion, Conditional, Endif
  <2>5. CASE extra' = extra
    BY <2>3, <2>4, <2>5 DEF CodeIsIn
  <2>6. CASE g' = g /\ \E list \in {"defined", "ifndef", "ifdef"} :
               \E r \in {usee, InBand(usee, 0)} :
                 extra' = [extra EXCEPT ![list] = Append(@, <<Begin(user), r>>)]
    <3>1. PICK list \in {"defined", "ifndef", "ifdef"} :
            \E r \in {usee, InBand(usee, 0)} :
              extra' = [extra EXCEPT ![list] = Append(@, <<Begin(user), r>>)]
      BY <2>6
    <3>2. PICK r \in {usee, InBand(usee, 0)} :
            extra' = [extra EXCEPT ![list] = Append(@, <<Begin(user), r>>)]
      BY <3>1
    <3>3. r \in C
      <4>1. usee.k \in Nat
        BY <2>1 DEF SourceRange
      <4> QED BY <2>1, <4>1 DEF HullClosed
    <3>4. <<Begin(user), r>> \in Pos \X C
      BY <2>2, <3>3
    <3>5. extra[list] \in S
      <4> HIDE DEF S, T
      <4> QED BY <1>1, ExtraIn
    <3>6. Append(extra[list], <<Begin(user), r>>) \in S
      BY <3>4, <3>5
    <3> DEFINE y == Append(extra[list], <<Begin(user), r>>)
    <3>7. y \in S /\ extra' = [extra EXCEPT ![list] = y]
      BY <3>2, <3>6
    <3> HIDE DEF y, S, T
    <3>8. extra' \in [defined : S, ifndef : S, ifdef : S, endif : T]
      BY <1>1, <3>7, ExtraIn
    <3> QED BY <1>1, <2>6, <3>8 DEF CodeIsIn, S, T
  <2>7. CASE g' = g /\ extra' = [extra EXCEPT !.endif = Append(@, user)]
    <3>1. extra.endif \in T
      <4> HIDE DEF S, T
      <4> QED BY <1>1, ExtraIn
    <3>2. Append(extra.endif, user) \in T
      BY <2>1, <3>1
    <3> DEFINE y == Append(extra.endif, user)
    <3>3. y \in T /\ extra' = [extra EXCEPT !.endif = y]
      BY <2>7, <3>2
    <3> HIDE DEF y, S, T
    <3>4. extra' \in [defined : S, ifndef : S, ifdef : S, endif : T]
      BY <1>1, <3>3, ExtraIn
    <3> QED BY <1>1, <2>7, <3>4 DEF CodeIsIn, S, T
  <2> QED BY <2>4, <2>5, <2>6, <2>7
<1> QED BY <1>2, <1>3 DEF Make

LEMMA FinalizeIsIn ==
  ASSUME Inv, NEW C, HullClosed(C), CodeIsIn(C), FinalizeStep
  PROVE  CodeIsIn(C)'
<1> DEFINE S == Seq(Pos \X C)
           T == Seq(C)
<1>1. Good(g) /\ g.verts \subseteq C /\ extra \in [defined : S, ifndef : S, ifdef : S, endif : T]
  BY InvIsGood DEF CodeIsIn
<1>2. ASSUME NEW list \in {"defined", "ifndef", "ifdef"}, ExtraUse(list) PROVE CodeIsIn(C)'
  <2>1. /\ extra[list] # <<>>
        /\ \E x : g' = UseIfUserExists(g, x, Head(extra[list])[2])
        /\ extra' = [extra EXCEPT ![list] = Tail(@)]
    BY <1>2 DEF ExtraUse
  <2>2. extra[list] \in S
    <3> HIDE DEF S, T
    <3> QED BY <1>1, ExtraIn
  <2>3. Head(extra[list]) \in Pos \X C /\ Tail(extra[list]) \in S
    BY <2>1, <2>2
  <2>4. g'.verts \subseteq C
    <3> DEFINE s == Head(extra[list])[2]
    <3>1. s \in C
      BY <2>3
    <3> HIDE DEF s
    <3>2. \A x : UseIfUserExists(g, x, s).verts \subseteq C
      BY <1>1, <3>1, UsesStayIn
    <3> QED BY <2>1, <3>2 DEF s
  <2> DEFINE y == Tail(extra[list])
  <2>5. y \in S /\ extra' = [extra EXCEPT ![list] = y]
    BY <2>1, <2>3
  <2> HIDE DEF y, S, T
  <2>6. extra' \in [defined : S, ifndef : S, ifdef : S, endif : T]
    BY <1>1, <2>5, ExtraIn
  <2> QED BY <2>4, <2>6 DEF CodeIsIn, S, T
<1>3. CASE ProcessEndif
  <2>1. /\ extra.endif # <<>> /\ (g' = g \/ g' = CodeIfExists(g, Head(extra.endif)))
        /\ extra' = [extra EXCEPT !.endif = Tail(@)]
    BY <1>3 DEF ProcessEndif
  <2>2. extra.endif \in T
    <3> HIDE DEF S, T
    <3> QED BY <1>1, ExtraIn
  <2>3. Head(extra.endif) \in C /\ Tail(extra.endif) \in T
    BY <2>1, <2>2
  <2>4. g'.verts \subseteq C
    BY <1>1, <2>1, <2>3, CodesStayIn
  <2> DEFINE y == Tail(extra.endif)
  <2>5. y \in T /\ extra' = [extra EXCEPT !.endif = y]
    BY <2>1, <2>3
  <2> HIDE DEF y, S, T
  <2>6. extra' \in [defined : S, ifndef : S, ifdef : S, endif : T]
    BY <1>1, <2>5, ExtraIn
  <2> QED BY <2>4, <2>6 DEF CodeIsIn, S, T
<1>4. CASE UNCHANGED extra /\ g'.verts = g.verts
  BY <1>4 DEF CodeIsIn
<1>5. ProcessInclusions \/ FixupStaticFunctions => UNCHANGED extra /\ g'.verts = g.verts
  <2>1. g = [verts |-> g.verts, edge |-> g.edge, incs |-> g.incs]
    BY <1>1 DEF Good, IsGraph
  <2>2. \A E, t : PutEdges(g, E, t).verts = g.verts
    BY <2>1 DEF PutEdges
  <2>3. ProcessInclusions => UNCHANGED extra /\ g'.verts = g.verts
    BY <2>1 DEF ProcessInclusions
  <2>4. FixupStaticFunctions => UNCHANGED extra /\ g'.verts = g.verts
    BY <2>2 DEF FixupStaticFunctions
  <2> QED BY <2>3, <2>4
<1> QED BY <1>2, <1>3, <1>4, <1>5 DEF FinalizeStep, Finalize, ExtraUsesDone, FinalizeDone

-----------------------------------------------------------------------------
(* Guards of headers.                                                      *)

\* Ranges that do not join the #ifndef of a header guard with the rest of the header.
ClearRanges(t) == {r \in SourceRange : Wrapped(t[r.f]) => r.end <= 1 \/ r.beg >= 1}

LEMMA ClearClosed ==
  ASSUME NEW t
  PROVE  HullClosed(ClearRanges(t))
<1> DEFINE C == ClearRanges(t)
<1>1. C \subseteq SourceRange
  BY DEF ClearRanges
<1>2. ASSUME NEW r \in C, NEW j \in 0 .. r.k PROVE InBand(r, j) \in C
  <2>1. r \in SourceRange /\ j \in Nat
    BY <1>1 DEF SourceRange
  <2>2. /\ InBand(r, j) \in SourceRange /\ InBand(r, j).f = r.f
        /\ InBand(r, j).beg = r.beg /\ InBand(r, j).end = r.end
    BY <2>1, InBandIsRange
  <2> QED BY <2>2 DEF ClearRanges
<1>3. ASSUME NEW V \in SUBSET C, NEW r \in C, NoOverlap(V) PROVE Hull(V, r) \in C
  <2> DEFINE h == Hull(V, r)
             last == [f |-> r.f, k |-> r.k, p |-> r.end - 1]
             a == At(V, Begin(r))
             b == At(V, last)
  <2>1. V \in SUBSET SourceRange /\ r \in SourceRange
    BY <1>1
  <2>2. h \in SourceRange /\ h.f = r.f
    BY <1>3, <2>1, HullEncloses
  <2>3. r.beg \in Nat /\ r.end \in Nat /\ r.beg < r.end
    BY <2>1 DEF SourceRange
  <2>4. /\ h.beg = IF Covered(V, Begin(r)) THEN a.beg ELSE r.beg
        /\ h.end = IF Covered(V, last) THEN b.end ELSE r.end
    BY DEF Hull
  <2>5. ASSUME Covered(V, Begin(r))
        PROVE  /\ a \in C /\ a.f = r.f /\ a.beg <= r.beg /\ r.beg < a.end
               /\ a.beg \in Nat /\ a.end \in Nat
    <3>1. a \in V /\ Within(Begin(r), a)
      BY <2>5, AtFinds
    <3> HIDE DEF a
    <3>2. a \in SourceRange
      BY <2>1, <3>1
    <3> QED BY <3>1, <3>2 DEF Within, Begin, SourceRange
  <2>6. ASSUME Covered(V, last)
        PROVE  /\ b \in C /\ b.f = r.f /\ b.beg <= r.end - 1 /\ r.end - 1 < b.end
               /\ b.beg \in Nat /\ b.end \in Nat
    <3>1. b \in V /\ Within(last, b)
      BY <2>6, AtFinds
    <3> HIDE DEF b
    <3>2. b \in SourceRange
      BY <2>1, <3>1
    <3> QED BY <3>1, <3>2 DEF Within, SourceRange
  <2> HIDE DEF h, a, b, last
  <2>7. ASSUME Wrapped(t[h.f]) PROVE h.end <= 1 \/ h.beg >= 1
    <3>1. r.end <= 1 \/ r.beg >= 1
      BY <2>2, <2>7 DEF ClearRanges
    <3>2. /\ Covered(V, Begin(r)) => a.end <= 1 \/ a.beg >= 1
          /\ Covered(V, last) => b.end <= 1 \/ b.beg >= 1
      BY <2>2, <2>5, <2>6, <2>7 DEF ClearRanges
    <3>3. CASE r.end <= 1
      BY <2>3, <2>4, <2>6, <3>2, <3>3
    <3>4. CASE r.beg >= 1
      BY <2>3, <2>4, <2>5, <3>2, <3>4
    <3> QED BY <3>1, <3>3, <3>4
  <2>8. h \in C
    BY <2>2, <2>7 DEF ClearRanges
  <2> QED BY <2>8 DEF h
<1> QED BY <1>1, <1>2, <1>3 DEF HullClosed

\* A guard has its #endif, so that it is longer than a position.
LEMMA GuardIsLong ==
  ASSUME NEW t \in Texts, NEW f \in Files, Wrapped(t[f])
  PROVE  Len(t[f]) >= 2 /\ Len(t[f]) \in Nat
<1>1. Len(t[f]) \in Nat /\ Balanced(t[f])
  BY TextParts
<1>2. t[f] # <<>> /\ t[f][0 + 1].op \in Ifs /\ Match(t[f], 0) = Len(t[f]) - 1
  BY DEF Wrapped, Ifs
<1>3. Len(t[f]) # 0
  <2>1. t[f] \in Seq({t[f][i] : i \in DOMAIN t[f]})
    BY PluginAssumption
  <2> QED BY <1>2, <2>1
<1>4. 0 \in 0 .. Len(t[f]) - 1
  BY <1>1, <1>3
<1>5. Match(t[f], 0) \in 0 + 1 .. Len(t[f]) - 1
  BY <1>1, <1>2, <1>4, EndifAfterIf
<1> QED BY <1>1, <1>2, <1>5

LEMMA ClearStep ==
  ASSUME PluginInv, CodeIsIn(ClearRanges(text)), [PluginNext]_pluginVars
  PROVE  CodeIsIn(ClearRanges(text))'
<1> DEFINE C == ClearRanges(text)
<1>1. HullClosed(C) /\ Inv /\ ClearRanges(text') = C
  BY ClearClosed, TextStays DEF PluginInv
<1>2. CASE Perform
  <2> DEFINE c == Head(todo)
  <2>1. Make(c) /\ todo # <<>> /\ Reading /\ Calling /\ Banded
    BY <1>2 DEF Perform, PluginInv, Lexing
  <2>2. CallIn(text, file, stack, atEnd, c)
    BY <2>1, NextCall
  <2>3. ASSUME NEW r, LexedIn(text, file, stack, r), ClearIn(text, file, r)
        PROVE  RangeOf(r) \in C
    BY <2>1, <2>3, RangeIs DEF ClearIn, ClearRanges
  <2> HIDE DEF c, C
  <2>4. c.op \notin {"ask", "skip"} => RangeOf(c.user) \in C /\ RangeOf(c.usee) \in C
    BY <2>2, <2>3 DEF CallIn
  <2>5. CodeIsIn(C)
    BY DEF C
  <2>6. /\ g'.verts \subseteq C
        /\ extra' \in [defined : Seq(Pos \X C), ifndef : Seq(Pos \X C),
                       ifdef : Seq(Pos \X C), endif : Seq(C)]
    BY <1>1, <2>1, <2>4, <2>5, CallIsIn DEF CodeIsIn
  <2> QED BY <1>1, <2>6 DEF CodeIsIn, C
<1>3. CASE FinalizeRuns
  <2> HIDE DEF C
  <2>1. FinalizeStep /\ CodeIsIn(C)
    BY <1>3 DEF FinalizeRuns, C
  <2>2. /\ g'.verts \subseteq C
        /\ extra' \in [defined : Seq(Pos \X C), ifndef : Seq(Pos \X C),
                       ifdef : Seq(Pos \X C), endif : Seq(C)]
    BY <1>1, <2>1, FinalizeIsIn DEF CodeIsIn
  <2> QED BY <1>1, <2>2 DEF CodeIsIn, C
<1>4. CASE UNCHANGED vars
  BY <1>1, <1>4 DEF CodeIsIn, vars
<1> QED BY <1>2, <1>3, <1>4, CollectorMoves DEF PluginInv

\* The guard of a header never joins the header into one piece of code: every range that
\* the plugin marks is clear of the guard (FileChanged and HandleTranslationUnit leave the
\* guard out), and ranges that are clear only grow to ranges that are.
THEOREM GuardsAreLeftOut == PluginSpec => []GuardsStayOut
<1>1. PluginInit => CodeIsIn(ClearRanges(text))
  <2> SUFFICES ASSUME PluginInit PROVE CodeIsIn(ClearRanges(text))
    OBVIOUS
  <2> DEFINE C == ClearRanges(text)
             S == Seq(Pos \X C)
             T == Seq(C)
  <2>1. /\ g.verts = {}
        /\ extra = [defined |-> <<>>, ifndef |-> <<>>, ifdef |-> <<>>, endif |-> <<>>]
    BY DEF PluginInit, Init, EmptyGraph
  <2>2. <<>> \in S /\ <<>> \in T
    BY SomeCalls
  <2> HIDE DEF S, T
  <2>3. extra \in [defined : S, ifndef : S, ifdef : S, endif : T]
    BY <2>1, <2>2
  <2> QED BY <2>1, <2>3 DEF CodeIsIn, S, T
<1>2. PluginInv /\ CodeIsIn(ClearRanges(text)) /\ [PluginNext]_pluginVars
        => CodeIsIn(ClearRanges(text))'
  BY ClearStep
<1>3. ASSUME PluginInv, CodeIsIn(ClearRanges(text)) PROVE GuardsStayOut
  <2> SUFFICES ASSUME NEW n \in DOMAIN band, Wrapped(text[file[n]]), NEW v \in g.verts,
                      Encloses(v, RangeOf(Piece(n, 0, Len(text[file[n]]))))
               PROVE  FALSE
    BY DEF GuardsStayOut
  <2>1. n \in DOMAIN file /\ Reading
    BY <1>3 DEF PluginInv, Banded, Lexing
  <2>2. file[n] \in Files /\ text \in Texts
    BY <2>1, StackParts DEF Reading
  <2>3. Len(text[file[n]]) >= 2 /\ Len(text[file[n]]) \in Nat
    BY <2>2, GuardIsLong
  <2>4. v \in ClearRanges(text)
    BY <1>3 DEF CodeIsIn
  <2>5. v.f = file[n] /\ v.beg <= 0 /\ Len(text[file[n]]) <= v.end
    BY DEF Encloses, RangeOf, Piece
  <2>6. v.beg \in Nat /\ v.end \in Nat /\ (v.end <= 1 \/ v.beg >= 1)
    BY <2>4, <2>5 DEF ClearRanges, SourceRange
  <2> QED BY <2>3, <2>5, <2>6
<1> QED BY <1>1, <1>2, <1>3, PluginInvariance, PTL DEF PluginSpec

-----------------------------------------------------------------------------
(* The order of text: in the files of O, those that are included once, the  *)
(* edges of a graph point back.                                            *)

PointsBack(O, e) ==
  e[1].f = e[2].f /\ e[1].f \in O => e[2].end <= e[1].beg \/ (e[1] = e[2] /\ O # Files)

BackIn(O, h) == \A e \in DOMAIN h.edge : PointsBack(O, e)

\* They have one band.
Flat(O, V) == \A v \in V : v.f \in O => v.k = 0

\* An edge from where x is to where y is points back when y is not after x.
LEMMA BackWithin ==
  ASSUME NEW O, NEW V \in SUBSET SourceRange, NoOverlap(V), Flat(O, V),
         NEW a \in V, NEW b \in V, a # b,
         NEW x \in Pos, NEW y \in Pos, Within(x, a), Within(y, b),
         x.f = y.f /\ x.f \in O => y.p <= x.p
  PROVE  PointsBack(O, <<a, b>>)
<1> SUFFICES ASSUME a.f = b.f, a.f \in O PROVE b.end <= a.beg
  BY DEF PointsBack
<1>1. /\ a.beg \in Nat /\ a.end \in Nat /\ a.beg < a.end
      /\ b.beg \in Nat /\ b.end \in Nat /\ b.beg < b.end
      /\ a.k = 0 /\ b.k = 0
  BY DEF Flat, SourceRange
<1>2. ~(a.beg < b.end /\ b.beg < a.end)
  BY <1>1 DEF NoOverlap, Overlap
<1>3. /\ x.p \in Nat /\ y.p \in Nat /\ x.p < a.end /\ b.beg <= y.p /\ y.p <= x.p
  BY DEF Within, Pos
<1> QED BY <1>1, <1>2, <1>3

\* Marking code moves edges to pieces that are still in order, and drops those inside a
\* piece.
LEMMA CodeBack ==
  ASSUME NEW O, NEW h, IsGraph(h), NoOverlap(h.verts), BackIn(O, h), NEW r \in SourceRange,
         NEW bands \in SUBSET Nat, Flat(O, CodeIn(h, r, bands).verts)
  PROVE  BackIn(O, CodeIn(h, r, bands))
<1> DEFINE V == h.verts
           W == CodeIn(h, r, bands).verts
           M(v) == Moved(V, r, bands, v)
<1>1. DOMAIN CodeIn(h, r, bands).edge
        = {MovedEdge(V, r, bands, e) : e \in KeptEdges(h, r, bands)}
  BY DEF CodeIn
<1>2. /\ V \in SUBSET SourceRange /\ W \subseteq SourceRange /\ NoOverlap(W)
      /\ \A v \in V : M(v) \in W /\ Encloses(M(v), v)
  BY CodeVerts, MovedEncloses DEF IsGraph
<1>3. ASSUME NEW e \in KeptEdges(h, r, bands) PROVE PointsBack(O, <<M(e[1]), M(e[2])>>)
  <2> DEFINE a == e[1]
             b == e[2]
             m == M(a)
             w == M(b)
  <2>1. /\ e \in DOMAIN h.edge /\ a \in V /\ b \in V /\ PointsBack(O, e)
        /\ ~(a \in Gone(V, r, bands) /\ b \in Gone(V, r, bands) /\ a.k = b.k)
    BY DEF KeptEdges, IsGraph, BackIn
  <2>2. /\ a \notin Gone(V, r, bands) => m = a
        /\ b \notin Gone(V, r, bands) => w = b
    BY DEF Moved
  <2>3. m \in W /\ w \in W /\ Encloses(m, a) /\ Encloses(w, b)
    BY <1>2, <2>1
  <2> HIDE DEF W, M, m, w
  <2> SUFFICES ASSUME m.f = w.f, m.f \in O
               PROVE  w.end <= m.beg \/ (m = w /\ O # Files)
    BY DEF PointsBack, m, w
  <2>4. /\ a.beg \in Nat /\ a.end \in Nat /\ a.beg < a.end
        /\ b.beg \in Nat /\ b.end \in Nat /\ b.beg < b.end
        /\ m.beg \in Nat /\ m.end \in Nat /\ w.beg \in Nat /\ w.end \in Nat
    BY <1>2, <2>1, <2>3 DEF SourceRange
  <2>5. /\ a.f = m.f /\ b.f = m.f /\ m.k = 0 /\ w.k = 0 /\ a.k = 0 /\ b.k = 0
        /\ m.beg <= a.beg /\ a.end <= m.end /\ w.beg <= b.beg /\ b.end <= w.end
    BY <2>3 DEF Encloses, Flat, W
  <2>6. CASE a = b /\ O # Files
    BY <2>6 DEF m, w
  <2>7. CASE b.end <= a.beg
    <3>1. m # w
      <4> SUFFICES ASSUME m = w PROVE FALSE
        OBVIOUS
      <4>1. CASE a \notin Gone(V, r, bands)
        <5>1. Overlap(a, b)
          BY <2>2, <2>4, <2>5, <4>1 DEF Overlap
        <5> QED BY <2>1, <2>4, <2>7, <5>1 DEF NoOverlap
      <4>2. CASE b \notin Gone(V, r, bands)
        <5>1. Overlap(a, b)
          BY <2>2, <2>4, <2>5, <4>2 DEF Overlap
        <5> QED BY <2>1, <2>4, <2>7, <5>1 DEF NoOverlap
      <4> QED BY <2>1, <2>5, <4>1, <4>2
    <3>2. ~(m.beg < w.end /\ w.beg < m.end)
      BY <1>2, <2>3, <2>5, <3>1 DEF NoOverlap, Overlap
    <3> QED BY <2>4, <2>5, <2>7, <3>2
  <2>8. b.end <= a.beg \/ (a = b /\ O # Files)
    BY <2>1, <2>5 DEF PointsBack
  <2> QED BY <2>6, <2>7, <2>8
<1> QED BY <1>1, <1>3 DEF BackIn, MovedEdge

LEMMA CodesBack ==
  ASSUME NEW O, NEW C, HullClosed(C), Flat(O, C), NEW h, Good(h), h.verts \subseteq C,
         BackIn(O, h), NEW r \in C
  PROVE  BackIn(O, Code(h, r)) /\ BackIn(O, CodeIfExists(h, r))
<1>1. /\ r \in SourceRange /\ Code(h, r).verts \subseteq C
      /\ CodeIfExists(h, r).verts \subseteq C
  BY CodesStayIn
<1>2. r.k \in Nat /\ IsGraph(h) /\ NoOverlap(h.verts)
  BY <1>1 DEF SourceRange, Good
<1> DEFINE all == 0 .. r.k
           some == {j \in 0 .. r.k : \A i \in j .. r.k :
                      \E v \in h.verts : Overlap(v, InBand(r, i))}
<1>3. all \in SUBSET Nat /\ some \in SUBSET Nat
  BY <1>2
<1>4. Code(h, r) = CodeIn(h, r, all) /\ CodeIfExists(h, r) = CodeIn(h, r, some)
  BY DEF Code, CodeIfExists
<1> HIDE DEF all, some
<1>5. Flat(O, CodeIn(h, r, all).verts) /\ Flat(O, CodeIn(h, r, some).verts)
  BY <1>1, <1>4 DEF Flat
<1> QED BY <1>1, <1>2, <1>3, <1>4, <1>5, CodeBack

LEMMA UseBack ==
  ASSUME NEW O, NEW C, HullClosed(C), Flat(O, C), NEW h, Good(h), h.verts \subseteq C,
         BackIn(O, h), NEW r \in C, NEW s \in C,
         r.f = s.f /\ r.f \in O => s.beg <= r.beg
  PROVE  BackIn(O, Use(h, r, s))
<1> DEFINE c == Code(h, r)
           k == Code(c, s)
           a == At(k.verts, Begin(r))
           b == At(k.verts, Begin(s))
<1>1. /\ c.verts \subseteq C /\ Good(c) /\ BackIn(O, c) /\ r \in SourceRange
      /\ Covered(c.verts, Begin(r))
  BY CodesStayIn, CodesBack, CodeGood
<1> HIDE DEF c
<1>2. /\ k.verts \subseteq C /\ Good(k) /\ BackIn(O, k) /\ s \in SourceRange
      /\ Covered(k.verts, Begin(s)) /\ Keeps(c, k)
  BY <1>1, CodesStayIn, CodesBack, CodeGood
<1>3. Begin(r) \in Pos /\ Begin(s) \in Pos
  BY <1>1, <1>2 DEF Begin, Pos, SourceRange
<1>4. Covered(k.verts, Begin(r))
  BY <1>1, <1>2, <1>3, KeepsCovered DEF Good
<1>5. a \in k.verts /\ b \in k.verts /\ Within(Begin(r), a) /\ Within(Begin(s), b)
  BY <1>2, <1>4, AtFinds
<1>6. Use(h, r, s) = IF a = b THEN k ELSE AddEdge(DelEdge(k, <<b, a>>), <<a, b>>)
  BY DEF Use, c
<1>7. k.verts \in SUBSET SourceRange /\ NoOverlap(k.verts) /\ Flat(O, k.verts)
  BY <1>2 DEF Good, IsGraph, Flat
<1>8. k = [verts |-> k.verts, edge |-> k.edge, incs |-> k.incs]
  BY <1>2 DEF Good, IsGraph
<1> HIDE DEF k, a, b
<1>9. CASE a # b
  <2>1. PointsBack(O, <<a, b>>)
    <3>1. Begin(r).f = r.f /\ Begin(r).p = r.beg /\ Begin(s).f = s.f /\ Begin(s).p = s.beg
      BY DEF Begin
    <3> QED BY <1>3, <1>5, <1>7, <1>9, <3>1, BackWithin
  <2>2. DOMAIN AddEdge(DelEdge(k, <<b, a>>), <<a, b>>).edge
          \subseteq DOMAIN k.edge \cup {<<a, b>>}
    BY <1>8 DEF AddEdge, DelEdge
  <2> QED BY <1>2, <1>6, <1>9, <2>1, <2>2 DEF BackIn
<1> QED BY <1>2, <1>6, <1>9

LEMMA LateUseBack ==
  ASSUME NEW O, NEW C, HullClosed(C), Flat(O, C), NEW h, Good(h), h.verts \subseteq C,
         BackIn(O, h), NEW x \in Pos, NEW s \in C,
         x.f = s.f /\ x.f \in O => s.beg <= x.p
  PROVE  BackIn(O, UseIfUserExists(h, x, s))
<1> DEFINE k == Code(h, s)
           a == At(k.verts, x)
           b == At(k.verts, Begin(s))
<1>1. /\ k.verts \subseteq C /\ Good(k) /\ BackIn(O, k) /\ s \in SourceRange
      /\ Covered(k.verts, Begin(s))
  BY CodesStayIn, CodesBack, CodeGood
<1>2. UseIfUserExists(h, x, s) = IF ~Covered(k.verts, x) \/ a = b \/ <<b, a>> \in DOMAIN k.edge
                                 THEN k ELSE AddEdge(k, <<a, b>>)
  BY DEF UseIfUserExists
<1>3. k.verts \in SUBSET SourceRange /\ NoOverlap(k.verts) /\ Flat(O, k.verts)
  BY <1>1 DEF Good, IsGraph, Flat
<1>4. Begin(s) \in Pos /\ Begin(s).f = s.f /\ Begin(s).p = s.beg
  BY <1>1 DEF Begin, Pos, SourceRange
<1>5. CASE Covered(k.verts, x) /\ a # b
  <2>1. a \in k.verts /\ b \in k.verts /\ Within(x, a) /\ Within(Begin(s), b)
    BY <1>1, <1>5, AtFinds
  <2> HIDE DEF k, a, b
  <2>2. PointsBack(O, <<a, b>>)
    BY <1>3, <1>4, <1>5, <2>1, BackWithin
  <2>3. DOMAIN AddEdge(k, <<a, b>>).edge = DOMAIN k.edge \cup {<<a, b>>}
    BY <1>1, <2>1, AddEdgeGood
  <2> QED BY <1>1, <1>2, <2>2, <2>3 DEF BackIn
<1> QED BY <1>1, <1>2, <1>5

\* A piece that comes after all code of its file.
NewPiece(V, r) == \A v \in V : v.f = r.f => v.end <= r.beg

\* A vertex that does, and that nothing leads from yet.
NewVertex(h, r) ==
  /\ r \in h.verts
  /\ \A v \in h.verts : v.f = r.f => v = r \/ v.end <= r.beg
  /\ \A e \in DOMAIN h.edge : e[1] # r

\* Where the edges lead from after code was marked.
LEMMA EdgesFrom ==
  ASSUME NEW h, IsGraph(h), NoOverlap(h.verts), NEW r \in SourceRange,
         NEW bands \in SUBSET Nat, NEW e \in DOMAIN CodeIn(h, r, bands).edge
  PROVE  \E d \in DOMAIN h.edge :
           d[1] \in h.verts /\ e[1] = Moved(h.verts, r, bands, d[1]) /\ Encloses(e[1], d[1])
<1>1. DOMAIN CodeIn(h, r, bands).edge
        = {MovedEdge(h.verts, r, bands, d) : d \in KeptEdges(h, r, bands)}
  BY DEF CodeIn
<1>2. PICK d \in KeptEdges(h, r, bands) : e = MovedEdge(h.verts, r, bands, d)
  BY <1>1
<1>3. d \in DOMAIN h.edge /\ d[1] \in h.verts
  BY DEF KeptEdges, IsGraph
<1>4. h.verts \in SUBSET SourceRange
  BY DEF IsGraph
<1>5. Encloses(Moved(h.verts, r, bands, d[1]), d[1])
  BY <1>3, <1>4, MovedEncloses
<1> QED BY <1>2, <1>3, <1>5 DEF MovedEdge

\* A piece in front of which all code of the file is becomes a vertex of its own.
LEMMA NewPieceIsVertex ==
  ASSUME NEW h, Good(h), NEW r \in SourceRange, r.k = 0, NewPiece(h.verts, r)
  PROVE  NewVertex(Code(h, r), r)
<1> DEFINE V == h.verts
           last == [f |-> r.f, k |-> r.k, p |-> r.end - 1]
           bands == 0 .. r.k
           c == CodeIn(h, r, bands)
<1>1. /\ IsGraph(h) /\ NoOverlap(V) /\ V \in SUBSET SourceRange
      /\ r.beg \in Nat /\ r.end \in Nat /\ r.beg < r.end
      /\ \A v \in V : v.beg \in Nat /\ v.end \in Nat /\ v.beg < v.end
  BY DEF Good, IsGraph, SourceRange
<1>2. bands = {0} /\ bands \in SUBSET Nat /\ InBand(r, 0) = r
  BY DEF InBand, SourceRange
<1>3. ~Covered(V, Begin(r)) /\ ~Covered(V, last)
  BY <1>1 DEF Covered, Within, Begin, NewPiece
<1>4. Hull(V, r) = r
  <2>1. Hull(V, r) = [f |-> r.f, k |-> r.k, beg |-> r.beg, end |-> r.end]
    BY <1>3 DEF Hull
  <2> QED BY <2>1 DEF SourceRange
<1> HIDE DEF last
<1>5. c.verts \subseteq V \cup {r} /\ r \in c.verts
  BY <1>2, <1>4 DEF CodeIn
<1>6. ASSUME NEW e \in DOMAIN c.edge, e[1] = r PROVE FALSE
  <2> HIDE DEF bands
  <2>1. PICK d \in DOMAIN h.edge : d[1] \in V /\ Encloses(e[1], d[1])
    BY <1>1, <1>2, EdgesFrom DEF c
  <2> QED BY <1>1, <1>6, <2>1 DEF Encloses, NewPiece
<1> HIDE DEF c, V
<1>7. \A v \in c.verts : v.f = r.f => v = r \/ v.end <= r.beg
  BY <1>5 DEF NewPiece, V
<1>8. NewVertex(c, r)
  BY <1>5, <1>6, <1>7 DEF NewVertex
<1> QED BY <1>8 DEF c, Code

\* It stays one when code in front of it, or the piece itself, is marked again.
LEMMA NewVertexStays ==
  ASSUME NEW h, Good(h), NEW r \in SourceRange, r.k = 0, NewVertex(h, r),
         NEW s \in SourceRange, s.f = r.f => s = r \/ s.end <= r.beg
  PROVE  NewVertex(Code(h, s), r)
<1> DEFINE V == h.verts
           bands == 0 .. s.k
           c == CodeIn(h, s, bands)
<1>1. /\ IsGraph(h) /\ NoOverlap(V) /\ V \in SUBSET SourceRange /\ r \in V
      /\ r.beg \in Nat /\ r.end \in Nat /\ r.beg < r.end
      /\ s.k \in Nat /\ s.beg \in Nat /\ s.end \in Nat /\ s.beg < s.end
      /\ \A v \in V : v.beg \in Nat /\ v.end \in Nat /\ v.beg < v.end
  BY DEF Good, IsGraph, SourceRange, NewVertex
<1>2. bands \in SUBSET Nat /\ (s = r => bands = {0})
  BY <1>1
<1>3. \A j \in bands : /\ InBand(s, j) \in SourceRange /\ InBand(s, j).f = s.f
                       /\ InBand(s, j).beg = s.beg /\ InBand(s, j).end = s.end
                       /\ InBand(s, j).k = j
  BY <1>2, InBandIsRange
<1>4. s = r => InBand(s, 0) = r
  BY DEF InBand, SourceRange
<1>5. r \notin Gone(V, s, bands)
  <2> SUFFICES ASSUME r \in Gone(V, s, bands) PROVE FALSE
    OBVIOUS
  <2>1. r.k \in bands /\ Overlap(r, InBand(s, r.k)) /\ ~Encloses(r, InBand(s, r.k))
    BY DEF Gone, Absorbed
  <2>2. s.f = r.f /\ r.beg < s.end
    BY <1>3, <2>1 DEF Overlap
  <2>3. s # r
    BY <1>1, <1>4, <2>1 DEF Encloses
  <2> QED BY <1>1, <2>2, <2>3
<1>6. r \in c.verts
  BY <1>1, <1>5 DEF CodeIn
<1>7. ASSUME NEW j \in bands, s.f = r.f
      PROVE  LET w == Hull(V, InBand(s, j)) IN w = r \/ w.end <= r.beg
  <2> DEFINE b == InBand(s, j)
             last == [f |-> b.f, k |-> b.k, p |-> b.end - 1]
             w == Hull(V, b)
  <2>1. CASE s = r
    <3>1. b = r
      BY <1>2, <1>4, <2>1
    <3>2. Within(Begin(r), r) /\ Within([f |-> r.f, k |-> r.k, p |-> r.end - 1], r)
      BY <1>1 DEF Within, Begin
    <3>3. ASSUME NEW x, Within(x, r), x.p \in Int PROVE Covered(V, x) /\ At(V, x) = r
      <4>1. Covered(V, x)
        BY <1>1, <3>3 DEF Covered
      <4>2. At(V, x) \in V /\ Within(x, At(V, x))
        BY <4>1, AtFinds
      <4>3. Overlap(At(V, x), r)
        <5> DEFINE a == At(V, x)
        <5>1. a \in V /\ Within(x, a)
          BY <4>2
        <5> HIDE DEF a
        <5> SUFFICES Overlap(a, r)
          BY DEF a
        <5> QED BY <1>1, <3>3, <5>1 DEF Overlap, Within
      <4> QED BY <1>1, <4>1, <4>2, <4>3 DEF NoOverlap
    <3>4. Begin(r).p \in Int /\ [f |-> r.f, k |-> r.k, p |-> r.end - 1].p \in Int
      BY <1>1 DEF Begin
    <3>5. Hull(V, r) = [f |-> r.f, k |-> r.k, beg |-> r.beg, end |-> r.end]
      BY <3>2, <3>3, <3>4 DEF Hull
    <3> QED BY <3>1, <3>5 DEF SourceRange
  <2>2. CASE s # r
    <3>1. b.f = r.f /\ b.beg = s.beg /\ b.end = s.end /\ s.end <= r.beg
      BY <1>3, <1>7, <2>2
    <3>2. ASSUME Covered(V, last) PROVE At(V, last).end <= r.beg
      <4>1. At(V, last) \in V /\ Within(last, At(V, last))
        BY <3>2, AtFinds
      <4> DEFINE a == At(V, last)
      <4>2. a \in V /\ a.f = r.f /\ a.beg <= s.end - 1
        BY <3>1, <4>1 DEF Within
      <4> HIDE DEF a
      <4>3. a # r
        BY <1>1, <3>1, <4>2
      <4>4. a.end <= r.beg
        BY <4>2, <4>3 DEF NewVertex
      <4> QED BY <4>4 DEF a
    <3>3. w.end = IF Covered(V, last) THEN At(V, last).end ELSE b.end
      BY DEF Hull
    <3> HIDE DEF w, last, b
    <3>4. w.end <= r.beg
      BY <3>1, <3>2, <3>3
    <3> QED BY <3>4 DEF w, b
  <2> QED BY <2>1, <2>2
<1>8. ASSUME NEW w \in c.verts, w.f = r.f PROVE w = r \/ w.end <= r.beg
  <2>1. w \in V \/ \E j \in bands : w = Hull(V, InBand(s, j))
    BY DEF CodeIn
  <2>2. CASE w \in V
    BY <1>8, <2>2 DEF NewVertex
  <2>3. CASE \E j \in bands : w = Hull(V, InBand(s, j))
    <3>1. PICK j \in bands : w = Hull(V, InBand(s, j))
      BY <2>3
    <3>2. s.f = r.f
      BY <1>3, <1>8, <3>1 DEF Hull
    <3> QED BY <1>7, <3>1, <3>2
  <2> QED BY <2>1, <2>2, <2>3
<1>9. ASSUME NEW e \in DOMAIN c.edge, e[1] = r PROVE FALSE
  <2> HIDE DEF bands
  <2>1. PICK d \in DOMAIN h.edge : d[1] \in V /\ Encloses(e[1], d[1])
    BY <1>1, <1>2, EdgesFrom DEF c
  <2>2. d[1] # r /\ d[1].f = r.f /\ r.beg <= d[1].beg
    BY <1>9, <2>1 DEF NewVertex, Encloses
  <2> QED BY <1>1, <2>1, <2>2 DEF NewVertex
<1> HIDE DEF c
<1>10. NewVertex(c, r)
  BY <1>6, <1>8, <1>9 DEF NewVertex
<1> QED BY <1>10 DEF c, Code

\* Users of the definition before are put in front of a new definition: nothing leads from
\* it yet, and all code of its file is in front of it.
LEMMA FollowBack ==
  ASSUME NEW O, NEW C, HullClosed(C), Flat(O, C), NEW h, Good(h), h.verts \subseteq C,
         BackIn(O, h), NEW prior \in C, NEW r \in C,
         r.f \in O => NewVertex(h, r) /\ (prior.f = r.f => prior.end <= r.beg),
         NEW m \in FollowUsersOf(h, prior, r)
  PROVE  BackIn(O, m)
<1> DEFINE c == Code(h, r)
           k == Code(c, prior)
           n == At(k.verts, Begin(r))
           o == At(k.verts, Begin(prior))
           followed == {s \in k.verts : <<s, o>> \in DOMAIN k.edge
                                          /\ <<s, n>> \notin DOMAIN k.edge}
<1>1. /\ c.verts \subseteq C /\ Good(c) /\ BackIn(O, c) /\ r \in SourceRange
      /\ Covered(c.verts, Begin(r)) /\ prior \in SourceRange
  BY CodesStayIn, CodesBack, CodeGood
<1>2. r.f \in O => r.k = 0 /\ NewVertex(c, r)
  BY <1>1, NewVertexStays DEF Flat
<1> HIDE DEF c
<1>3. /\ k.verts \subseteq C /\ Good(k) /\ BackIn(O, k)
      /\ Covered(k.verts, Begin(prior)) /\ Keeps(c, k)
  BY <1>1, CodesStayIn, CodesBack, CodeGood
<1>4. r.f \in O => NewVertex(k, r)
  BY <1>1, <1>2, NewVertexStays
<1>5. Begin(r) \in Pos /\ Begin(r).f = r.f /\ Begin(r).p = r.beg
  BY <1>1 DEF Begin, Pos, SourceRange
<1>6. Covered(k.verts, Begin(r))
  BY <1>1, <1>3, <1>5, KeepsCovered DEF Good
<1>7. n \in k.verts /\ o \in k.verts /\ Within(Begin(r), n)
  BY <1>3, <1>6, AtFinds
<1>8. \/ m = k
      \/ \E S : /\ m = PutEdges(k, {<<n, s>> : s \in S}, "FOLLOWS")
                /\ S = followed \/ (o \in followed /\ S = followed \cup {n})
  BY DEF FollowUsersOf, c
<1>9. CASE \E S : /\ m = PutEdges(k, {<<n, s>> : s \in S}, "FOLLOWS")
                  /\ S = followed \/ (o \in followed /\ S = followed \cup {n})
  <2>1. PICK S : /\ m = PutEdges(k, {<<n, s>> : s \in S}, "FOLLOWS")
                 /\ S = followed \/ (o \in followed /\ S = followed \cup {n})
    BY <1>9
  <2>2. DOMAIN m.edge = DOMAIN k.edge \cup {<<n, s>> : s \in S}
    <3>1. k = [verts |-> k.verts, edge |-> k.edge, incs |-> k.incs]
      BY <1>3 DEF Good, IsGraph
    <3> HIDE DEF k, n
    <3> QED BY <2>1, <3>1 DEF PutEdges
  <2>3. ASSUME NEW s \in S, n.f = s.f, n.f \in O
        PROVE  s.end <= n.beg \/ (n = s /\ O # Files)
    <3>1. n.f = r.f
      BY <1>5, <1>7 DEF Within
    <3>2. NewVertex(k, r)
      BY <1>4, <2>3, <3>1
    <3>3. k.verts \subseteq SourceRange
      BY <1>3 DEF Good, IsGraph
    <3> HIDE DEF k, n, o
    <3>4. n = r
      <4>1. n.end \in Nat /\ r.beg \in Nat /\ r.beg < n.end
        BY <1>1, <1>5, <1>7, <3>3 DEF Within, SourceRange
      <4> QED BY <1>7, <3>1, <3>2, <4>1 DEF NewVertex
    <3>5. CASE s \in followed
      <4>1. s \in k.verts /\ <<s, o>> \in DOMAIN k.edge
        BY <3>5
      <4>2. s # r
        BY <3>2, <4>1 DEF NewVertex
      <4> QED BY <2>3, <3>1, <3>2, <3>4, <4>1, <4>2 DEF NewVertex
    <3>6. CASE o \in followed /\ s = n
      <4>1. <<o, o>> \in DOMAIN k.edge
        BY <3>6
      <4>2. PointsBack(O, <<o, o>>)
        BY <1>3, <4>1 DEF BackIn
      <4>3. o.f \in O => o.end <= o.beg \/ O # Files
        BY <4>2 DEF PointsBack
      <4>4. o.f \in Files /\ o.beg \in Nat /\ o.end \in Nat /\ o.beg < o.end
        BY <1>7, <3>3 DEF SourceRange
      <4>5. O # Files
        BY <4>3, <4>4
      <4> QED BY <3>6, <4>5
    <3> QED BY <2>1, <3>5, <3>6
  <2>4. \A s \in S : PointsBack(O, <<n, s>>)
    BY <2>3 DEF PointsBack
  <2> HIDE DEF k, n, o, followed
  <2> QED BY <1>3, <2>2, <2>4 DEF BackIn
<1> QED BY <1>3, <1>8, <1>9

-----------------------------------------------------------------------------
(* Files that are included once, in the plugin.                            *)

OnceFiles(fl) == {f \in Files : \A m, n \in DOMAIN fl : fl[m] = f /\ fl[n] = f => m = n}

\* Ranges that are in the text clang has gone through, as far as they are in such files,
\* which have band 0 only.
Behind(fl, st) ==
  {v \in SourceRange :
     v.f \in OnceFiles(fl) =>
       /\ v.k = 0
       /\ \E n \in DOMAIN fl : /\ fl[n] = v.f
                               /\ \A i \in DOMAIN st : st[i].n = n => v.end <= st[i].p}

LEMMA BehindClosed ==
  ASSUME NEW fl, NEW st
  PROVE  HullClosed(Behind(fl, st)) /\ Flat(OnceFiles(fl), Behind(fl, st))
<1> DEFINE C == Behind(fl, st)
           O == OnceFiles(fl)
<1>1. C \subseteq SourceRange
  BY DEF Behind
<1>2. ASSUME NEW r \in C, NEW j \in 0 .. r.k PROVE InBand(r, j) \in C
  <2>1. r \in SourceRange /\ j \in Nat
    BY <1>1 DEF SourceRange
  <2>2. /\ InBand(r, j) \in SourceRange /\ InBand(r, j).f = r.f /\ InBand(r, j).k = j
        /\ InBand(r, j).beg = r.beg /\ InBand(r, j).end = r.end
    BY <2>1, InBandIsRange
  <2>3. r.f \in O => j = 0
    BY DEF Behind
  <2> QED BY <2>2, <2>3 DEF Behind
<1>3. ASSUME NEW V \in SUBSET C, NEW r \in C, NoOverlap(V) PROVE Hull(V, r) \in C
  <2> DEFINE h == Hull(V, r)
             last == [f |-> r.f, k |-> r.k, p |-> r.end - 1]
             b == At(V, last)
  <2>1. V \in SUBSET SourceRange /\ r \in SourceRange
    BY <1>1
  <2>2. h \in SourceRange /\ h.f = r.f
    BY <1>3, <2>1, HullEncloses
  <2>3. /\ h.end = IF Covered(V, last) THEN b.end ELSE r.end
        /\ h.k = r.k
    BY DEF Hull
  <2>4. ASSUME Covered(V, last) PROVE b \in C /\ b.f = r.f
    <3>1. b \in V /\ Within(last, b)
      BY <2>4, AtFinds
    <3> QED BY <3>1 DEF Within
  <2>5. \E x \in C : x.f = r.f /\ x.end = h.end
    BY <2>3, <2>4
  <2> HIDE DEF h
  <2>6. h \in C
    <3>1. PICK x \in C : x.f = r.f /\ x.end = h.end
      BY <2>5
    <3> QED BY <2>2, <2>3, <3>1 DEF Behind
  <2> QED BY <2>6 DEF h
<1>4. Flat(O, C)
  BY DEF Flat, Behind
<1> QED BY <1>1, <1>2, <1>3, <1>4 DEF HullClosed

LEMMA BehindGrows ==
  ASSUME NEW fl, NEW st, NEW fl2, NEW st2, Onward(fl, st, fl2, st2),
         \A i \in DOMAIN st : st[i].p \in Nat, \A i \in DOMAIN st2 : st2[i].p \in Nat
  PROVE  Behind(fl, st) \subseteq Behind(fl2, st2) /\ OnceFiles(fl2) \subseteq OnceFiles(fl)
<1>1. OnceFiles(fl2) \subseteq OnceFiles(fl)
  BY DEF OnceFiles, Onward
<1>2. ASSUME NEW v \in Behind(fl, st) PROVE v \in Behind(fl2, st2)
  <2>1. v \in SourceRange /\ v.end \in Nat
    BY DEF Behind, SourceRange
  <2> SUFFICES ASSUME v.f \in OnceFiles(fl2)
               PROVE  /\ v.k = 0
                      /\ \E n \in DOMAIN fl2 :
                           /\ fl2[n] = v.f
                           /\ \A i \in DOMAIN st2 : st2[i].n = n => v.end <= st2[i].p
    BY <2>1 DEF Behind
  <2>2. v.k = 0
    BY <1>1 DEF Behind
  <2>3. PICK n \in DOMAIN fl : /\ fl[n] = v.f
                               /\ \A i \in DOMAIN st : st[i].n = n => v.end <= st[i].p
    BY <1>1 DEF Behind
  <2>4. ASSUME NEW i \in DOMAIN st2, st2[i].n = n PROVE v.end <= st2[i].p
    <3>1. PICK j \in DOMAIN st : st[j].n = n /\ st[j].p <= st2[i].p
      BY <2>3, <2>4 DEF Onward
    <3>2. v.end <= st[j].p /\ st[j].p \in Nat /\ st2[i].p \in Nat
      BY <2>3, <3>1
    <3> QED BY <2>1, <3>1, <3>2
  <2>5. n \in DOMAIN fl2 /\ fl2[n] = v.f
    BY <2>3 DEF Onward
  <2> QED BY <2>2, <2>4, <2>5
<1> QED BY <1>1, <1>2

\* A file included once has one band.
LEMMA OnceInBandZero ==
  ASSUME Reading, Banded, NEW n \in DOMAIN file, file[n] \in OnceFiles(file)
  PROVE  Band(n) = 0
<1>1. \A m \in DOMAIN file : file[m] = file[n] => m = n
  BY DEF OnceFiles
<1>2. CASE n \in DOMAIN band
  <2>1. SameFile(n) = {n}
    BY <1>1, <1>2 DEF SameFile, Banded
  <2>2. Cardinality({n}) = 1
    BY FS_Singleton
  <2>3. band[n] \in Nat /\ band[n] < 1
    BY <1>2, <2>1, <2>2 DEF Banded
  <2> QED BY <1>2, <2>3 DEF Band
<1>3. CASE n \notin DOMAIN band
  <2>1. {m \in DOMAIN band : file[m] = file[n]} = {}
    BY <1>1, <1>3 DEF Banded
  <2>2. Cardinality({}) = 0
    BY FS_EmptySet
  <2> QED BY <1>3, <2>1, <2>2 DEF Band
<1> QED BY <1>2, <1>3

LEMMA LexedIsBehind ==
  ASSUME Reading, Banded, NEW r, LexedIn(text, file, stack, r)
  PROVE  RangeOf(r) \in Behind(file, stack)
<1>1. /\ RangeOf(r) \in SourceRange
      /\ RangeOf(r).f = file[r.n] /\ RangeOf(r).k = Band(r.n)
      /\ RangeOf(r).beg = r.beg /\ RangeOf(r).end = r.end
  BY RangeIs
<1>2. r.n \in DOMAIN file /\ \A i \in DOMAIN stack : stack[i].n = r.n => r.end <= stack[i].p
  BY DEF LexedIn
<1>3. file[r.n] \in OnceFiles(file) => Band(r.n) = 0
  BY <1>2, OnceInBandZero
<1> HIDE DEF RangeOf
<1> QED BY <1>1, <1>2, <1>3 DEF Behind

-----------------------------------------------------------------------------
(* Edges point back, and those still to come from uses put off will.       *)

LateBack(O) == {l \in LaterUse : l[1].f = l[2].f /\ l[1].f \in O => l[2].beg <= l[1].p}

Backward(O) ==
  /\ BackIn(O, g)
  /\ \A list \in {"defined", "ifndef", "ifdef"} : extra[list] \in Seq(LateBack(O))

\* The edges that order output.
Ordered(O) == \A e \in DOMAIN g.edge : g.edge[e] # "FWD_DECL" => PointsBack(O, e)

LEMMA FewerBack ==
  ASSUME NEW O, NEW Q, Q \subseteq O, O \subseteq Files
  PROVE  /\ Backward(O) => Backward(Q)
         /\ Ordered(O) => Ordered(Q)
<1>1. \A e : PointsBack(O, e) => PointsBack(Q, e)
  BY DEF PointsBack
<1>2. LateBack(O) \subseteq LateBack(Q)
  BY DEF LateBack
<1>3. Seq(LateBack(O)) \subseteq Seq(LateBack(Q))
  BY <1>2, SeqOfMore
<1> QED BY <1>1, <1>3 DEF Backward, Ordered, BackIn

\* A call that looks back.
LEMMA CallBack ==
  ASSUME Inv, NEW O, NEW C, HullClosed(C), Flat(O, C), g.verts \subseteq C, Backward(O),
         NEW call, Make(call), call.op \notin {"ask", "skip"},
         NEW user \in C, NEW usee \in C,
         user = RangeOf(call.user), usee = RangeOf(call.usee),
         call.op \in {"use", "defined", "ifndef", "ifdef"} =>
           (user.f = usee.f /\ user.f \in O => usee.beg <= user.beg),
         call.op = "follow" /\ usee.f \in O =>
           NewVertex(g, usee) /\ (user.f = usee.f => user.end <= usee.beg)
  PROVE  Backward(O)'
<1>1. Good(g) /\ BackIn(O, g)
  BY InvIsGood DEF Backward
<1>2. user \in SourceRange /\ usee \in SourceRange
  BY DEF HullClosed
<1>3. Begin(user) \in Pos /\ Begin(user).f = user.f /\ Begin(user).p = user.beg
  BY <1>2 DEF Begin, Pos, SourceRange
<1>4. \/ UNCHANGED extra /\ (g' = Code(g, user) \/ g' = g)
      \/ UNCHANGED extra /\ call.op = "use" /\ g' = Use(g, user, usee)
      \/ UNCHANGED extra /\ call.op = "follow" /\ g' \in FollowUsersOf(g, user, usee)
      \/ /\ g' = g /\ call.op \in {"defined", "ifndef", "ifdef"}
         /\ \E r \in {usee, InBand(usee, 0)} :
              extra' = [extra EXCEPT ![call.op] = Append(@, <<Begin(user), r>>)]
      \/ g' = g /\ \E r : extra' = [extra EXCEPT !.endif = Append(@, r)]
  BY DEF Make, AddCode, UseCode, Follow, GlobalCode, StaticCode, SymbolCode, Inclusion,
         Conditional, Endif
<1>5. CASE UNCHANGED extra /\ (g' = Code(g, user) \/ g' = g)
  BY <1>1, <1>5, CodesBack DEF Backward
<1>6. CASE UNCHANGED extra /\ call.op = "use" /\ g' = Use(g, user, usee)
  BY <1>1, <1>6, UseBack DEF Backward
<1>7. CASE UNCHANGED extra /\ call.op = "follow" /\ g' \in FollowUsersOf(g, user, usee)
  BY <1>1, <1>7, FollowBack DEF Backward
<1> DEFINE lists == {"defined", "ifndef", "ifdef"}
           S == Seq(LaterUse)
           T == Seq(SourceRange)
<1>8. extra \in [defined : S, ifndef : S, ifdef : S, endif : T]
  BY DEF Inv, TypeOK
<1>9. CASE /\ g' = g /\ call.op \in {"defined", "ifndef", "ifdef"}
           /\ \E r \in {usee, InBand(usee, 0)} :
                extra' = [extra EXCEPT ![call.op] = Append(@, <<Begin(user), r>>)]
  <2>1. PICK r \in {usee, InBand(usee, 0)} :
          extra' = [extra EXCEPT ![call.op] = Append(@, <<Begin(user), r>>)]
    BY <1>9
  <2>2. r \in SourceRange /\ r.f = usee.f /\ r.beg = usee.beg
    BY <1>2, InBandIsRange
  <2>3. <<Begin(user), r>> \in LateBack(O)
    BY <1>3, <1>9, <2>2 DEF LateBack, LaterUse
  <2>4. extra[call.op] \in Seq(LateBack(O))
    BY <1>9 DEF Backward
  <2> DEFINE y == Append(extra[call.op], <<Begin(user), r>>)
  <2>5. y \in Seq(LateBack(O)) /\ extra' = [extra EXCEPT ![call.op] = y]
    BY <2>1, <2>3, <2>4
  <2> HIDE DEF y, S, T
  <2>6. \A list \in lists : extra'[list] = IF list = call.op THEN y ELSE extra[list]
    BY <1>8, <1>9, <2>5
  <2>7. \A list \in lists : extra'[list] \in Seq(LateBack(O))
    BY <2>5, <2>6 DEF Backward
  <2> QED BY <1>1, <1>9, <2>7 DEF Backward
<1>10. CASE g' = g /\ \E r : extra' = [extra EXCEPT !.endif = Append(@, r)]
  <2> HIDE DEF S, T
  <2>1. \A list \in lists : extra'[list] = extra[list]
    BY <1>8, <1>10
  <2> QED BY <1>1, <1>10, <2>1 DEF Backward
<1> QED BY <1>4, <1>5, <1>6, <1>7, <1>9, <1>10

\* finalize and the fix-up of static functions, whose edges order nothing.
LEMMA FinalizeBack ==
  ASSUME Inv, NEW O, NEW C, HullClosed(C), Flat(O, C), CodeIsIn(C), Backward(O), FinalizeStep
  PROVE  Backward(O)' \/ (phase' = "done" /\ Ordered(O)')
<1>1. Good(g) /\ BackIn(O, g) /\ g.verts \subseteq C
  BY InvIsGood DEF Backward, CodeIsIn
<1>2. g = [verts |-> g.verts, edge |-> g.edge, incs |-> g.incs]
  BY <1>1 DEF Good, IsGraph
<1> DEFINE lists == {"defined", "ifndef", "ifdef"}
           S == Seq(Pos \X C)
           T == Seq(C)
<1>3. extra \in [defined : S, ifndef : S, ifdef : S, endif : T]
  BY DEF CodeIsIn
<1>4. ASSUME NEW list \in lists, ExtraUse(list) PROVE Backward(O)'
  <2> DEFINE l == Head(extra[list])
             y == Tail(extra[list])
  <2>1. /\ extra[list] # <<>> /\ g' = UseIfUserExists(g, l[1], l[2])
        /\ extra' = [extra EXCEPT ![list] = y]
    BY <1>4 DEF ExtraUse
  <2>2. extra[list] \in Seq(LateBack(O))
    BY DEF Backward
  <2>3. extra[list] \in S
    <3> HIDE DEF S, T
    <3> QED BY <1>3, ExtraIn
  <2>4. l \in LateBack(O) /\ y \in Seq(LateBack(O)) /\ l \in Pos \X C
    BY <2>1, <2>2, <2>3
  <2> HIDE DEF l, y, S, T
  <2>5. l[1] \in Pos /\ l[2] \in C /\ (l[1].f = l[2].f /\ l[1].f \in O => l[2].beg <= l[1].p)
    BY <2>4 DEF LateBack
  <2>6. BackIn(O, UseIfUserExists(g, l[1], l[2]))
    BY <1>1, <2>5, LateUseBack
  <2>7. \A k \in lists : extra'[k] = IF k = list THEN y ELSE extra[k]
    BY <1>3, <2>1
  <2>8. \A k \in lists : extra'[k] \in Seq(LateBack(O))
    BY <2>4, <2>7 DEF Backward
  <2> QED BY <2>1, <2>6, <2>8 DEF Backward
<1>5. CASE ProcessEndif
  <2>1. /\ extra.endif # <<>> /\ (g' = g \/ g' = CodeIfExists(g, Head(extra.endif)))
        /\ extra' = [extra EXCEPT !.endif = Tail(@)]
    BY <1>5 DEF ProcessEndif
  <2>2. extra.endif \in T
    <3> HIDE DEF S, T
    <3> QED BY <1>3, ExtraIn
  <2>3. Head(extra.endif) \in C
    BY <2>1, <2>2
  <2>4. BackIn(O, g)'
    BY <1>1, <2>1, <2>3, CodesBack
  <2> HIDE DEF S, T
  <2>5. \A k \in lists : extra'[k] = extra[k]
    BY <1>3, <2>1
  <2> QED BY <2>4, <2>5 DEF Backward
<1>6. CASE ProcessInclusions
  <2>1. g'.edge = g.edge /\ UNCHANGED extra
    BY <1>2, <1>6 DEF ProcessInclusions
  <2> QED BY <2>1 DEF Backward, BackIn
<1>7. CASE FixupStaticFunctions
  <2>1. phase' = "done" /\ \E E : g' = PutEdges(g, E, "FWD_DECL")
    BY <1>7 DEF FixupStaticFunctions
  <2>2. PICK E : g' = PutEdges(g, E, "FWD_DECL")
    BY <2>1
  <2>3. /\ DOMAIN g'.edge = DOMAIN g.edge \cup E
        /\ \A e \in DOMAIN g'.edge : e \in E => g'.edge[e] = "FWD_DECL"
    BY <1>2, <2>2 DEF PutEdges
  <2> QED BY <1>1, <2>1, <2>3 DEF Ordered, BackIn
<1>8. CASE UNCHANGED <<g, extra>>
  BY <1>8 DEF Backward
<1> QED BY <1>4, <1>5, <1>6, <1>7, <1>8 DEF FinalizeStep, Finalize, ExtraUsesDone, FinalizeDone

-----------------------------------------------------------------------------
(* A definition that users of another one are put in front of was marked    *)
(* just before, as a piece after all code of its file.                      *)

Fresh ==
  \A i \in DOMAIN todo :
    todo[i].op = "follow" /\ file[todo[i].usee.n] \in OnceFiles(file) =>
      \/ i = 1 /\ NewVertex(g, RangeOf(todo[i].usee))
      \/ i = 2 /\ todo[1] = CodeCall(todo[2].usee) /\ NewPiece(g.verts, RangeOf(todo[2].usee))

OrderInv ==
  /\ CodeIsIn(Behind(file, stack))
  /\ Ordered(OnceFiles(file))
  /\ phase # "done" => Backward(OnceFiles(file))
  /\ Fresh

LEMMA RangeKept ==
  ASSUME Asking, Perform, NEW r, r.n \in DOMAIN band'
  PROVE  RangeOf(r)' = RangeOf(r)
<1>1. band'[r.n] = Band(r.n) /\ UNCHANGED file
  BY OneAsked DEF Perform, clang
<1>2. Band(r.n)' = Band(r.n)
  BY <1>1 DEF Band
<1> QED BY <1>1, <1>2 DEF RangeOf

\* What it takes to be fresh after a step.
LEMMA FreshNext ==
  ASSUME \A i \in DOMAIN todo' : \A x :
           x = todo'[i].usee /\ todo'[i].op = "follow" /\ file'[x.n] \in OnceFiles(file') =>
             \/ i = 1 /\ NewVertex(g', RangeOf(x)')
             \/ i = 2 /\ todo'[1] = CodeCall(x) /\ NewPiece(g'.verts, RangeOf(x)')
  PROVE  Fresh'
BY DEF Fresh, RangeOf, Band, CodeCall, CallOf

LEMMA FreshPerform ==
  ASSUME PluginInv, Fresh, Perform
  PROVE  Fresh'
<1> DEFINE c == Head(todo)
<1>1. /\ todo # <<>> /\ Make(c) /\ todo' = Tail(todo) /\ UNCHANGED file
  BY DEF Perform, clang
<1>2. Reading /\ Calling /\ Banded /\ Asking /\ Good(g)
  BY InvIsGood DEF PluginInv, Lexing
<1>3. todo \in Seq(CallSet)
  <2>1. Calls(text, file, stack, atEnd) \subseteq CallSet
    BY DEF Calls
  <2>2. todo \in Seq(Calls(text, file, stack, atEnd))
    BY <1>2 DEF Calling
  <2> QED BY <2>1, <2>2, SeqOfMore
<1>4. ASSUME NEW i \in DOMAIN todo', NEW e, e = todo'[i].usee, todo'[i].op = "follow",
             file[e.n] \in OnceFiles(file)
      PROVE  i = 1 /\ NewVertex(g', RangeOf(e)')
  <2>1. /\ i \in Nat /\ i >= 1 /\ i + 1 \in DOMAIN todo /\ todo'[i] = todo[i + 1]
        /\ c = todo[1]
    BY <1>1, <1>3
  <2>2. /\ i + 1 = 2 /\ todo[1] = CodeCall(todo[2].usee)
        /\ NewPiece(g.verts, RangeOf(todo[2].usee))
    BY <1>4, <2>1 DEF Fresh
  <2>3. i = 1 /\ e = todo[2].usee
    BY <1>4, <2>1, <2>2
  <2> DEFINE r == RangeOf(e)
  <2>4. c.op = "code" /\ c.user = e /\ NewPiece(g.verts, r)
    BY <2>1, <2>2, <2>3 DEF CodeCall, CallOf
  <2>5. g' = Code(g, r)
    BY <1>1, <2>4 DEF Make, AddCode
  <2>6. r \in SourceRange /\ e.n \in DOMAIN file
    BY <1>1, <1>2, <2>4, NextCall
  <2>7. r.k = 0
    BY <1>2, <1>4, <2>6, OnceInBandZero DEF RangeOf
  <2>8. NewVertex(g', r)
    BY <1>2, <2>4, <2>5, <2>6, <2>7, NewPieceIsVertex
  <2>9. e.n \in DOMAIN band'
    BY <1>2, <2>4, OneAsked
  <2>10. RangeOf(e)' = r
    BY <1>2, <2>9, RangeKept
  <2> QED BY <2>3, <2>8, <2>10
<1> QED BY <1>1, <1>4, FreshNext

LEMMA FreshDefine ==
  ASSUME PluginInv, CodeIsIn(Behind(file, stack)), Moving, MacroDefined
  PROVE  Fresh'
<1> DEFINE m == Item.arg
<1>1. /\ Lexes({"define"}) /\ Advances /\ UNCHANGED <<file, band, g>>
      /\ \/ todo' = <<CodeCall(This)>> \o <<>>
         \/ todo' = <<CodeCall(This)>> \o <<CallOf("follow", defs[m], This, None)>>
  BY DEF MacroDefined, Advances, vars
<1>2. /\ This = Piece(Here, P, P + 1) /\ This.n = Here /\ This.beg = P /\ P \in Nat
      /\ Here \in DOMAIN file /\ file[Here] \in Files /\ stack # <<>> /\ Reading
  BY <1>1, AdvanceSees, AtItem DEF Moving, Ifs
<1>3. PICK e : e = This
  OBVIOUS
<1>4. PICK n : n = Here
  OBVIOUS
<1> DEFINE c == CodeCall(e)
           f == CallOf("follow", defs[m], e, None)
<1>5. c.op = "code" /\ f.usee = e /\ (todo' = <<c>> \/ todo' = <<c, f>>)
  BY <1>1, <1>3 DEF CodeCall, CallOf
<1> HIDE DEF f
<1>6. ASSUME NEW i \in DOMAIN todo', todo'[i].op = "follow"
      PROVE  i = 2 /\ todo'[1] = c /\ todo'[2] = f
  <2> HIDE DEF c
  <2>1. CASE todo' = <<c>>
    <3>1. i = 1 /\ todo'[1] = c
      BY <1>6, <2>1
    <3> QED BY <1>5, <1>6, <3>1
  <2>2. CASE todo' = <<c, f>>
    <3>1. i \in {1, 2} /\ todo'[1] = c /\ todo'[2] = f
      BY <1>6, <2>2
    <3> QED BY <1>5, <1>6, <3>1
  <2> QED BY <1>5, <2>1, <2>2
<1>7. RangeOf(e)' = RangeOf(e) /\ RangeOf(e).f = file[n] /\ RangeOf(e).beg = e.beg
  <2>1. UNCHANGED <<file, band>> /\ e.n = n
    BY <1>1, <1>2, <1>3, <1>4
  <2> QED BY <2>1 DEF RangeOf, Band
<1>8. ASSUME file[n] \in OnceFiles(file)
      PROVE  NewPiece(g.verts, RangeOf(e))
  <2>1. ASSUME NEW v \in g.verts, v.f = file[n] PROVE v.end <= e.beg
    <3>1. v \in Behind(file, stack)
      BY DEF CodeIsIn
    <3>2. PICK j \in DOMAIN file :
            /\ file[j] = v.f
            /\ \A i \in DOMAIN stack : stack[i].n = j => v.end <= stack[i].p
      BY <1>8, <2>1, <3>1 DEF Behind
    <3>3. j = n
      BY <1>2, <1>4, <1>8, <2>1, <3>2 DEF OnceFiles
    <3>4. Len(stack) \in DOMAIN stack
      BY <1>2, Innermost
    <3> QED BY <1>2, <1>3, <1>4, <3>2, <3>3, <3>4 DEF Here, P
  <2> QED BY <1>7, <2>1 DEF NewPiece
<1>9. e.n = n /\ UNCHANGED <<file, g>>
  BY <1>1, <1>2, <1>3, <1>4
<1> HIDE DEF c
<1>10. ASSUME NEW i \in DOMAIN todo', NEW x, x = todo'[i].usee, todo'[i].op = "follow",
              file'[x.n] \in OnceFiles(file')
       PROVE  i = 2 /\ todo'[1] = CodeCall(x) /\ NewPiece(g'.verts, RangeOf(x)')
  <2>1. i = 2 /\ todo'[1] = c /\ x = e
    BY <1>5, <1>6, <1>10
  <2>2. NewPiece(g.verts, RangeOf(e))
    BY <1>8, <1>9, <1>10, <2>1
  <2> QED BY <1>7, <1>9, <2>1, <2>2 DEF c
<1> QED BY <1>10, FreshNext

\* A call into the collector.
LEMMA OrderPerform ==
  ASSUME PluginInv, OrderInv, Perform
  PROVE  OrderInv'
<1> DEFINE O == OnceFiles(file)
           C == Behind(file, stack)
           c == Head(todo)
           user == RangeOf(c.user)
           usee == RangeOf(c.usee)
<1>1. /\ todo # <<>> /\ Make(c) /\ UNCHANGED <<file, stack>>
  BY DEF Perform, clang
<1>2. Reading /\ Calling /\ Banded /\ Inv /\ HullClosed(C) /\ Flat(O, C)
  BY BehindClosed DEF PluginInv, Lexing
<1>3. CodeIsIn(C) /\ Ordered(O) /\ (phase # "done" => Backward(O)) /\ Fresh
  BY DEF OrderInv
<1>4. Fresh'
  BY <1>3, FreshPerform
<1>5. CASE c.op \in {"ask", "skip"}
  <2>1. UNCHANGED vars
    BY <1>1, <1>5 DEF Make
  <2>2. UNCHANGED <<g, extra, phase>>
    BY <2>1 DEF vars
  <2> QED BY <1>1, <1>3, <1>4, <2>2 DEF OrderInv, CodeIsIn, Ordered, Backward, BackIn
<1>6. CASE c.op \notin {"ask", "skip"}
  <2>1. phase = "collect"
    BY <1>1, <1>6
       DEF Make, Call, AddCode, UseCode, Follow, GlobalCode, StaticCode, SymbolCode, Inclusion,
           Conditional, Endif
  <2>2. CallIn(text, file, stack, atEnd, c)
    BY <1>1, <1>2, NextCall
  <2>3. user \in C /\ usee \in C
    BY <1>2, <2>2, LexedIsBehind DEF CallIn
  <2>4. /\ user.f = file[c.user.n] /\ user.beg = c.user.beg /\ user.end = c.user.end
        /\ usee.f = file[c.usee.n] /\ usee.beg = c.usee.beg /\ usee.end = c.usee.end
    BY DEF RangeOf
  <2>5. c.user.n \in DOMAIN file /\ c.usee.n \in DOMAIN file
    BY <2>2 DEF CallIn, LexedIn
  <2>6. user.f = usee.f /\ user.f \in O => c.usee.n = c.user.n
    BY <2>4, <2>5 DEF OnceFiles
  <2>7. /\ c.op \in {"use", "defined", "ifndef", "ifdef"} =>
             (user.f = usee.f /\ user.f \in O => usee.beg <= user.beg)
        /\ c.op = "follow" => (user.f = usee.f /\ user.f \in O => user.end <= usee.beg)
    BY <2>2, <2>4, <2>6 DEF CallIn
  <2>8. c.op = "follow" /\ usee.f \in O => NewVertex(g, usee)
    <3>1. 1 \in DOMAIN todo /\ c = todo[1]
      <4>1. todo \in Seq(Calls(text, file, stack, atEnd))
        BY <1>2 DEF Calling
      <4> QED BY <1>1, <4>1
    <3> QED BY <1>3, <2>4, <3>1 DEF Fresh
  <2> HIDE DEF C, O, user, usee
  <2>9. g.verts \subseteq C /\ Backward(O)
    BY <1>3, <2>1 DEF CodeIsIn
  <2>10. user = RangeOf(c.user) /\ usee = RangeOf(c.usee)
    BY DEF user, usee
  <2> HIDE DEF c
  <2>11. /\ BackIn(O, g')
         /\ \A list \in {"defined", "ifndef", "ifdef"} : extra'[list] \in Seq(LateBack(O))
    <3>1. c.op = "follow" /\ usee.f \in O =>
            NewVertex(g, usee) /\ (user.f = usee.f => user.end <= usee.beg)
      BY <2>7, <2>8
    <3> QED BY <1>1, <1>2, <1>6, <2>3, <2>7, <2>9, <2>10, <3>1, CallBack DEF Backward
  <2>12. /\ g'.verts \subseteq C
         /\ extra' \in [defined : Seq(Pos \X C), ifndef : Seq(Pos \X C), ifdef : Seq(Pos \X C),
                        endif : Seq(C)]
    BY <1>1, <1>2, <1>3, <2>3, <2>10, CallIsIn DEF CodeIsIn
  <2>13. Behind(file', stack') = C /\ OnceFiles(file') = O
    BY <1>1 DEF C, O
  <2>14. CodeIsIn(Behind(file, stack))'
    BY <2>12, <2>13 DEF CodeIsIn
  <2>15. Ordered(OnceFiles(file))' /\ Backward(OnceFiles(file))'
    BY <2>11, <2>13 DEF Ordered, Backward, BackIn
  <2> QED BY <1>4, <2>14, <2>15 DEF OrderInv
<1> QED BY <1>5, <1>6

LEMMA OrderFinalize ==
  ASSUME PluginInv, OrderInv, FinalizeRuns
  PROVE  OrderInv'
<1> DEFINE O == OnceFiles(file)
           C == Behind(file, stack)
<1>1. FinalizeStep /\ todo = <<>> /\ UNCHANGED <<file, stack, todo>>
  BY DEF FinalizeRuns, clang, plugin
<1>2. Inv /\ HullClosed(C) /\ Flat(O, C)
  BY BehindClosed DEF PluginInv
<1>3. phase # "done"
  BY <1>1 DEF FinalizeStep, Finalize, ExtraUse, ExtraUsesDone, ProcessInclusions, ProcessEndif,
              FinalizeDone, FixupStaticFunctions
<1>4. CodeIsIn(C) /\ Backward(O)
  BY <1>3 DEF OrderInv
<1>5. Fresh'
  BY <1>1 DEF Fresh
<1>6. Behind(file', stack') = C /\ OnceFiles(file') = O
  BY <1>1
<1> HIDE DEF O, C
<1>7. /\ g'.verts \subseteq C
      /\ extra' \in [defined : Seq(Pos \X C), ifndef : Seq(Pos \X C), ifdef : Seq(Pos \X C),
                     endif : Seq(C)]
  BY <1>1, <1>2, <1>4, FinalizeIsIn DEF CodeIsIn
<1>8. \/ /\ BackIn(O, g')
         /\ \A list \in {"defined", "ifndef", "ifdef"} : extra'[list] \in Seq(LateBack(O))
      \/ /\ phase' = "done"
         /\ \A e \in DOMAIN g'.edge : g'.edge[e] # "FWD_DECL" => PointsBack(O, e)
  BY <1>1, <1>2, <1>4, FinalizeBack DEF Backward, Ordered
<1>9. CodeIsIn(Behind(file, stack))'
  BY <1>6, <1>7 DEF CodeIsIn
<1>10. Ordered(OnceFiles(file))' /\ (phase' # "done" => Backward(OnceFiles(file))')
  BY <1>6, <1>8 DEF Ordered, Backward, BackIn
<1> QED BY <1>5, <1>9, <1>10 DEF OrderInv

\* Every other step leaves the collector as it is.
LEMMA OrderStands ==
  ASSUME PluginInv, OrderInv, Moving, UNCHANGED vars, Fresh'
  PROVE  OrderInv'
<1> DEFINE O == OnceFiles(file)
           C == Behind(file, stack)
           Q == OnceFiles(file')
           D == Behind(file', stack')
<1>1. /\ \A i \in DOMAIN stack : stack[i].p \in Nat
      /\ \A i \in DOMAIN stack' : stack'[i].p \in Nat
  BY Positions DEF Moving, Reading
<1>2. C \subseteq D /\ Q \subseteq O /\ O \subseteq Files
  BY <1>1, BehindGrows DEF Moving, OnceFiles
<1>3. UNCHANGED <<g, extra, phase>>
  BY DEF vars
<1>4. CodeIsIn(C) /\ Ordered(O) /\ (phase # "done" => Backward(O))
  BY DEF OrderInv
<1> HIDE DEF O, C, Q, D
<1>5. CodeIsIn(D) /\ Ordered(Q) /\ (phase # "done" => Backward(Q))
  BY <1>2, <1>4, MoreIsIn, FewerBack
<1> QED BY <1>3, <1>5 DEF OrderInv, CodeIsIn, Ordered, Backward, BackIn, Q, D

LEMMA OrderStep ==
  ASSUME PluginInv, OrderInv, [PluginNext]_pluginVars
  PROVE  OrderInv'
<1>1. Lexing /\ Lexing' /\ Moving /\ Asking /\ Banded
  BY LexingStep DEF PluginInv
<1>2. \/ Perform
      \/ FinalizeRuns
      \/ UNCHANGED vars
  BY <1>1, CollectorMoves
<1>3. CASE Perform
  BY <1>3, OrderPerform
<1>4. CASE FinalizeRuns
  BY <1>4, OrderFinalize
<1>5. CASE UNCHANGED vars /\ ~Perform
  <2>1. MacroDefined \/ If \/ UNCHANGED todo \/ AllPlain'
    BY <1>1, <1>5, AskingStep
  <2>2. MacroDefined => Fresh'
    BY <1>1, FreshDefine DEF OrderInv
  <2>3. (If \/ AllPlain') => Fresh'
    <3>1. If => \A i \in DOMAIN todo' : todo'[i].op # "follow"
      BY DEF If, ConditionCalls, Ask, UseCall, CallOf
    <3> QED BY <3>1 DEF AllPlain, Fresh
  <2>4. UNCHANGED todo /\ todo = <<>> => Fresh'
    BY DEF Fresh
  <2>5. UNCHANGED pluginVars => Fresh'
    <3>1. UNCHANGED pluginVars => UNCHANGED <<todo, file, band, g>> /\ Fresh
      BY DEF pluginVars, clang, plugin, vars, OrderInv
    <3> QED BY <3>1 DEF Fresh, RangeOf, Band
  <2>6. Fresh'
    BY <1>5, <2>1, <2>2, <2>3, <2>4, <2>5, OnlyCallsAsk
  <2> QED BY <1>1, <1>5, <2>6, OrderStands
<1> QED BY <1>2, <1>3, <1>4, <1>5

LEMMA OrderInit == PluginInit => OrderInv
<1> SUFFICES ASSUME PluginInit PROVE OrderInv
  OBVIOUS
<1> DEFINE C == Behind(file, stack)
           S == Seq(Pos \X C)
           T == Seq(C)
           L == Seq(LateBack(OnceFiles(file)))
<1>1. /\ g.verts = {} /\ DOMAIN g.edge = {} /\ todo = <<>>
      /\ extra = [defined |-> <<>>, ifndef |-> <<>>, ifdef |-> <<>>, endif |-> <<>>]
  BY DEF PluginInit, Init, EmptyGraph
<1>2. <<>> \in S /\ <<>> \in T /\ <<>> \in L
  BY SomeCalls
<1> HIDE DEF S, T, L
<1>3. extra \in [defined : S, ifndef : S, ifdef : S, endif : T]
  BY <1>1, <1>2
<1>4. \A list \in {"defined", "ifndef", "ifdef"} : extra[list] \in L
  BY <1>1, <1>2
<1>5. CodeIsIn(C)
  BY <1>1, <1>3 DEF CodeIsIn, S, T
<1>6. Ordered(OnceFiles(file)) /\ Backward(OnceFiles(file))
  BY <1>1, <1>4 DEF Ordered, Backward, BackIn, L
<1>7. Fresh
  BY <1>1 DEF Fresh
<1> QED BY <1>5, <1>6, <1>7 DEF OrderInv

\* Inside a file that is included once, every edge that orders output points back in its
\* text, whatever the other files are and however often they are included: a callback uses
\* what is behind it, merges keep the order of the pieces that they merge, and the users of
\* a definition that is replaced (follow_users_of) are behind the one that replaces it, which
\* was marked just before and which nothing leads from yet.
THEOREM TextOrderIsKept == PluginSpec => []TextOrder
<1>1. PluginInv /\ OrderInv /\ [PluginNext]_pluginVars => OrderInv'
  BY OrderStep
<1>2. ASSUME PluginInv, OrderInv PROVE TextOrder
  <2> SUFFICES ASSUME NEW e \in DOMAIN g.edge, g.edge[e] # "FWD_DECL", e[1].f = e[2].f,
                      Once(e[1].f)
               PROVE  \/ e[2].end <= e[1].beg
                      \/ e[1] = e[2] /\ \E f \in Files : ~Once(f)
    BY DEF TextOrder
  <2>1. IsGraph(g)
    BY <1>2 DEF PluginInv, Inv, TypeOK
  <2>2. e[1].f \in Files
    BY <2>1 DEF IsGraph, SourceRange
  <2>3. \A f \in Files : Once(f) <=> f \in OnceFiles(file)
    BY DEF Once, OnceFiles
  <2>4. PointsBack(OnceFiles(file), e)
    BY <1>2 DEF OrderInv, Ordered
  <2>5. OnceFiles(file) # Files => \E f \in Files : ~Once(f)
    BY <2>3 DEF OnceFiles
  <2> QED BY <2>2, <2>3, <2>4, <2>5 DEF PointsBack
<1> QED BY <1>1, <1>2, OrderInit, PluginInvariance, PTL DEF PluginSpec

-----------------------------------------------------------------------------
(* Conditionals that pieces of code reach into.  D is a set of ranges in    *)
(* all bands, none of which a piece is to reach into without enclosing it;  *)
(* those of W are still to be joined into one piece if any code is there.   *)

Cuts(v, c) == Overlap(v, c) /\ ~Encloses(v, c)

\* Where x reaches into a range of D, the range is still to be joined in this band or in a
\* higher one from which code<true> comes down to it.
Excused(V, W, D, x) ==
  \A c \in D : Cuts(x, c) =>
    \E k \in Nat : /\ x.k <= k /\ InBand(c, k) \in W
                   /\ \A i \in x.k + 1 .. k : \E v \in V : Overlap(v, InBand(c, i))

Whole(V, W, D) == \A v \in V : Excused(V, W, D, v)

AllBands(D) == D \subseteq SourceRange /\ \A c \in D, k \in Nat : InBand(c, k) \in D

LEMMA InOneBand ==
  ASSUME NEW a \in SourceRange, NEW b \in SourceRange, NEW j \in Nat, NEW k \in Nat
  PROVE  /\ Overlap(InBand(a, j), InBand(b, j)) <=>
              a.f = b.f /\ a.beg < b.end /\ b.beg < a.end
         /\ Encloses(InBand(a, j), InBand(b, j)) <=>
              a.f = b.f /\ a.beg <= b.beg /\ b.end <= a.end
         /\ InBand(InBand(a, j), k) = InBand(a, k)
         /\ a.k = j => InBand(a, j) = a
<1>1. /\ a = [f |-> a.f, k |-> a.k, beg |-> a.beg, end |-> a.end]
      /\ b = [f |-> b.f, k |-> b.k, beg |-> b.beg, end |-> b.end]
  BY DEF SourceRange
<1>2. /\ InBand(a, j) = [f |-> a.f, k |-> j, beg |-> a.beg, end |-> a.end]
      /\ InBand(b, j) = [f |-> b.f, k |-> j, beg |-> b.beg, end |-> b.end]
      /\ InBand(a, k) = [f |-> a.f, k |-> k, beg |-> a.beg, end |-> a.end]
  BY <1>1 DEF InBand
<1>3. InBand(InBand(a, j), k) = InBand(a, k)
  BY <1>2 DEF InBand
<1> QED BY <1>1, <1>2, <1>3 DEF Overlap, Encloses

LEMMA OverlapEnclosing ==
  ASSUME NEW a \in SourceRange, NEW b \in SourceRange, NEW c \in SourceRange,
         Encloses(a, b), Overlap(b, c)
  PROVE  Overlap(a, c)
BY DEF Encloses, Overlap, SourceRange

\* More code, more to be joined and fewer conditionals to mind make no worse.
LEMMA ExcusedGrows ==
  ASSUME NEW V \in SUBSET SourceRange, NEW V2 \in SUBSET SourceRange,
         \A v \in V : \E w \in V2 : Encloses(w, v),
         NEW D, AllBands(D), NEW D2 \in SUBSET D, NEW W, NEW W2,
         \A c \in D2 : c \in W => c \in W2,
         \A c \in D2, k \in Nat : InBand(c, k) \in D2,
         NEW x, Excused(V, W, D, x), x.k \in Nat
  PROVE  Excused(V2, W2, D2, x)
<1> SUFFICES ASSUME NEW c \in D2, Cuts(x, c)
             PROVE  \E k \in Nat : /\ x.k <= k /\ InBand(c, k) \in W2
                                   /\ \A i \in x.k + 1 .. k : \E v \in V2 : Overlap(v, InBand(c, i))
  BY DEF Excused
<1>1. PICK k \in Nat : /\ x.k <= k /\ InBand(c, k) \in W
                       /\ \A i \in x.k + 1 .. k : \E v \in V : Overlap(v, InBand(c, i))
  BY DEF Excused
<1>2. ASSUME NEW i \in x.k + 1 .. k PROVE \E v \in V2 : Overlap(v, InBand(c, i))
  <2>1. PICK v \in V : Overlap(v, InBand(c, i))
    BY <1>1
  <2>2. PICK w \in V2 : Encloses(w, v)
    OBVIOUS
  <2>3. i \in Nat /\ InBand(c, i) \in SourceRange
    BY DEF AllBands
  <2> QED BY <2>1, <2>2, <2>3, OverlapEnclosing
<1> QED BY <1>1, <1>2

\* A hull cuts only what the range or a piece at an end of it cuts.
LEMMA HullCuts ==
  ASSUME NEW V \in SUBSET SourceRange, NoOverlap(V), NEW r \in SourceRange,
         NEW c \in SourceRange, Cuts(Hull(V, r), c)
  PROVE  Cuts(r, c) \/ \E v \in V : v.k = r.k /\ Cuts(v, c)
<1> DEFINE H == Hull(V, r)
           last == [f |-> r.f, k |-> r.k, p |-> r.end - 1]
           a == At(V, Begin(r))
           b == At(V, last)
<1>1. /\ H.f = r.f /\ H.k = r.k
      /\ H.beg = IF Covered(V, Begin(r)) THEN a.beg ELSE r.beg
      /\ H.end = IF Covered(V, last) THEN b.end ELSE r.end
  BY DEF Hull
<1>2. ASSUME Covered(V, Begin(r))
      PROVE  /\ a \in V /\ a \in SourceRange /\ a.f = r.f /\ a.k = r.k
             /\ a.beg <= r.beg /\ r.beg < a.end
  <2>1. a \in V /\ Within(Begin(r), a)
    BY <1>2, AtFinds
  <2> QED BY <2>1 DEF Within, Begin
<1>3. ASSUME Covered(V, last)
      PROVE  /\ b \in V /\ b \in SourceRange /\ b.f = r.f /\ b.k = r.k
             /\ b.beg <= r.end - 1 /\ r.end - 1 < b.end
  <2>1. b \in V /\ Within(last, b)
    BY <1>3, AtFinds
  <2> QED BY <2>1 DEF Within
<1>4. Overlap(H, c) /\ ~Encloses(H, c)
  BY DEF Cuts
<1> HIDE DEF H, last, a, b
<1> SUFFICES ASSUME ~Cuts(r, c), \A v \in V : v.k = r.k => ~Cuts(v, c) PROVE FALSE
  OBVIOUS
<1>5. /\ Covered(V, Begin(r)) => ~Cuts(a, c)
      /\ Covered(V, last) => ~Cuts(b, c)
  BY <1>2, <1>3
<1>6. /\ r.beg \in Nat /\ r.end \in Nat /\ c.beg \in Nat /\ c.end \in Nat
      /\ r.beg < r.end /\ c.beg < c.end
      /\ a \in SourceRange => a.beg \in Nat /\ a.end \in Nat
      /\ b \in SourceRange => b.beg \in Nat /\ b.end \in Nat
  BY DEF SourceRange
<1>7. c.f = r.f /\ c.k = r.k /\ H.beg < c.end /\ c.beg < H.end
      /\ ~(H.beg <= c.beg /\ c.end <= H.end)
  BY <1>1, <1>4 DEF Overlap, Encloses
<1>8. r.beg < c.end /\ c.beg < r.end => r.beg <= c.beg /\ c.end <= r.end
  BY <1>7 DEF Cuts, Overlap, Encloses
<1>9. Covered(V, Begin(r)) =>
        (a.beg < c.end /\ c.beg < a.end => a.beg <= c.beg /\ c.end <= a.end)
  BY <1>2, <1>5, <1>7 DEF Cuts, Overlap, Encloses
<1>10. Covered(V, last) =>
         (b.beg < c.end /\ c.beg < b.end => b.beg <= c.beg /\ c.end <= b.end)
  BY <1>3, <1>5, <1>7 DEF Cuts, Overlap, Encloses
<1>11. CASE Covered(V, Begin(r)) /\ Covered(V, last)
  BY <1>1, <1>2, <1>3, <1>6, <1>7, <1>8, <1>9, <1>10, <1>11
<1>12. CASE Covered(V, Begin(r)) /\ ~Covered(V, last)
  BY <1>1, <1>2, <1>6, <1>7, <1>8, <1>9, <1>12
<1>13. CASE ~Covered(V, Begin(r)) /\ Covered(V, last)
  BY <1>1, <1>3, <1>6, <1>7, <1>8, <1>10, <1>13
<1>14. CASE ~Covered(V, Begin(r)) /\ ~Covered(V, last)
  BY <1>1, <1>6, <1>7, <1>8, <1>14
<1> QED BY <1>11, <1>12, <1>13, <1>14

\* Marking a range that is excused.
LEMMA CodeWhole ==
  ASSUME NEW h, Good(h), NEW W, NEW D, AllBands(D), Whole(h.verts, W, D),
         NEW r \in SourceRange, Excused(h.verts, W, D, r)
  PROVE  Whole(Code(h, r).verts, W, D)
<1> DEFINE V == h.verts
           V2 == Code(h, r).verts
<1>1. V \in SUBSET SourceRange /\ NoOverlap(V) /\ r.k \in Nat
  BY DEF Good, IsGraph, SourceRange
<1>2. V2 \in SUBSET SourceRange /\ \A v \in V : \E w \in V2 : Encloses(w, v)
  BY CodeGood DEF Good, IsGraph, Keeps
<1>3. ASSUME NEW x, x.k \in Nat, Excused(V, W, D, x) PROVE Excused(V2, W, D, x)
  <2> HIDE DEF V, V2
  <2> QED BY <1>1, <1>2, <1>3, ExcusedGrows DEF AllBands
<1>4. \A v \in V2 : v \in V \/ \E j \in 0 .. r.k : v = Hull(V, InBand(r, j))
  BY DEF Code, CodeIn
<1>5. \A j \in 0 .. r.k : Hull(V, InBand(r, j)) \in V2
  BY DEF Code, CodeIn
<1>6. \A v \in V : v \in SourceRange /\ v.k \in Nat /\ Excused(V, W, D, v)
  BY <1>1 DEF Whole, SourceRange
<1> HIDE DEF V, V2
<1>7. ASSUME NEW j \in 0 .. r.k PROVE Excused(V2, W, D, Hull(V, InBand(r, j)))
  <2> DEFINE R == InBand(r, j)
             H == Hull(V, R)
  <2>1. j \in Nat /\ R \in SourceRange /\ R.k = j
    BY <1>1, InBandIsRange
  <2> HIDE DEF R
  <2>2. H.k = j /\ Encloses(H, R)
    BY <1>1, <2>1, HullEncloses
  <2> SUFFICES ASSUME NEW c \in D, Cuts(H, c)
               PROVE  \E k \in Nat : /\ j <= k /\ InBand(c, k) \in W
                                     /\ \A i \in j + 1 .. k :
                                          \E v \in V2 : Overlap(v, InBand(c, i))
    BY <2>2 DEF Excused, R
  <2>3. c \in SourceRange
    BY DEF AllBands
  <2>4. Cuts(R, c) \/ \E v \in V : v.k = j /\ Cuts(v, c)
    BY <1>1, <2>1, <2>3, HullCuts
  <2>5. CASE \E v \in V : v.k = j /\ Cuts(v, c)
    <3>1. PICK v \in V : v.k = j /\ Cuts(v, c)
      BY <2>5
    <3>2. Excused(V2, W, D, v)
      BY <1>3, <1>6
    <3> QED BY <3>1, <3>2 DEF Excused
  <2>6. CASE Cuts(R, c)
    <3> DEFINE d == InBand(c, r.k)
    <3>1. d \in D /\ c.k = j /\ InBand(c, j) = c /\ InBand(r, r.k) = r
      BY <1>1, <2>1, <2>3, <2>6, InOneBand DEF AllBands, Cuts, Overlap
    <3>2. \A i \in Nat : /\ Overlap(InBand(r, i), InBand(c, i)) <=>
                              r.f = c.f /\ r.beg < c.end /\ c.beg < r.end
                         /\ Encloses(InBand(r, i), InBand(c, i)) <=>
                              r.f = c.f /\ r.beg <= c.beg /\ c.end <= r.end
                         /\ InBand(d, i) = InBand(c, i)
      BY <1>1, <2>3, InOneBand
    <3>3. Cuts(r, d)
      BY <1>1, <2>1, <2>6, <3>1, <3>2 DEF Cuts, R
    <3>4. PICK k \in Nat : /\ r.k <= k /\ InBand(d, k) \in W
                           /\ \A i \in r.k + 1 .. k : \E v \in V : Overlap(v, InBand(d, i))
      BY <3>1, <3>3 DEF Excused, V
    <3>5. ASSUME NEW i \in j + 1 .. k PROVE \E v \in V2 : Overlap(v, InBand(c, i))
      <4>1. i \in Nat /\ InBand(c, i) \in SourceRange /\ InBand(r, i) \in SourceRange
        BY <2>1, <2>3, InBandIsRange
      <4>2. CASE i \in r.k + 1 .. k
        <5>1. PICK v \in V : Overlap(v, InBand(d, i))
          BY <3>4, <4>2
        <5>2. PICK w \in V2 : Encloses(w, v)
          BY <1>2
        <5>3. v \in SourceRange /\ w \in SourceRange /\ InBand(d, i) = InBand(c, i)
          BY <1>1, <1>2, <3>2, <4>1
        <5> QED BY <4>1, <5>1, <5>2, <5>3, OverlapEnclosing
      <4>3. CASE i \in 0 .. r.k
        <5>1. Overlap(InBand(r, i), InBand(c, i))
          BY <2>1, <2>6, <3>1, <3>2, <4>1 DEF Cuts, R
        <5>2. Hull(V, InBand(r, i)) \in V2 /\ Encloses(Hull(V, InBand(r, i)), InBand(r, i))
          BY <1>1, <1>5, <4>1, <4>3, HullEncloses
        <5> QED BY <1>2, <4>1, <5>1, <5>2, OverlapEnclosing
      <4> QED BY <1>1, <2>1, <4>1, <4>2, <4>3
    <3>6. j <= k /\ InBand(c, k) \in W
      BY <1>1, <2>1, <3>2, <3>4
    <3> QED BY <3>5, <3>6
  <2> QED BY <2>4, <2>5, <2>6
<1>8. \A v \in V2 : Excused(V2, W, D, v)
  BY <1>3, <1>4, <1>6, <1>7
<1> QED BY <1>8 DEF Whole, V2

\* Marking two ranges, one after the other.
LEMMA CodesWhole ==
  ASSUME NEW h, Good(h), NEW W, NEW D, AllBands(D), Whole(h.verts, W, D),
         NEW r \in SourceRange, Excused(h.verts, W, D, r),
         NEW s \in SourceRange, Excused(h.verts, W, D, s)
  PROVE  /\ Whole(Code(Code(h, r), s).verts, W, D)
         /\ Good(Code(h, r)) /\ Good(Code(Code(h, r), s))
<1>1. Good(Code(h, r)) /\ Keeps(h, Code(h, r)) /\ Whole(Code(h, r).verts, W, D)
  BY CodeGood, CodeWhole
<1>2. /\ h.verts \in SUBSET SourceRange /\ Code(h, r).verts \in SUBSET SourceRange
      /\ \A v \in h.verts : \E w \in Code(h, r).verts : Encloses(w, v)
      /\ s.k \in Nat
  BY <1>1 DEF Good, IsGraph, Keeps, SourceRange
<1>3. \A c \in D, k \in Nat : InBand(c, k) \in D
  BY DEF AllBands
<1>4. Excused(Code(h, r).verts, W, D, s)
  BY <1>2, <1>3, ExcusedGrows
<1> QED BY <1>1, <1>4, CodeGood, CodeWhole

LEMMA UsesWhole ==
  ASSUME NEW h, Good(h), NEW W, NEW D, AllBands(D), Whole(h.verts, W, D),
         NEW s \in SourceRange, Excused(h.verts, W, D, s)
  PROVE  /\ \A x : Whole(UseIfUserExists(h, x, s).verts, W, D)
         /\ \A r \in SourceRange : Excused(h.verts, W, D, r) =>
              /\ Whole(Use(h, r, s).verts, W, D)
              /\ \A m \in FollowUsersOf(h, r, s) : Whole(m.verts, W, D)
<1>1. \A m, e : IsGraph(m) => AddEdge(m, e).verts = m.verts
  BY DEF AddEdge, IsGraph
<1>2. \A m, E, t : IsGraph(m) => PutEdges(m, E, t).verts = m.verts
  BY DEF PutEdges, IsGraph
<1>3. ASSUME NEW x PROVE Whole(UseIfUserExists(h, x, s).verts, W, D)
  <2> DEFINE m == Code(h, s)
  <2>1. Whole(m.verts, W, D) /\ IsGraph(m)
    BY CodeGood, CodeWhole DEF Good
  <2>2. \/ UseIfUserExists(h, x, s) = m
        \/ \E e : UseIfUserExists(h, x, s) = AddEdge(m, e)
    BY DEF UseIfUserExists
  <2> HIDE DEF m
  <2> QED BY <1>1, <2>1, <2>2
<1>4. ASSUME NEW r \in SourceRange, Excused(h.verts, W, D, r)
      PROVE  Whole(Use(h, r, s).verts, W, D)
  <2> DEFINE m == Code(Code(h, r), s)
             a == At(m.verts, Begin(r))
             b == At(m.verts, Begin(s))
  <2>1. Whole(m.verts, W, D) /\ IsGraph(m)
    BY <1>4, CodesWhole DEF Good
  <2>2. Use(h, r, s) = IF a = b THEN m ELSE AddEdge(DelEdge(m, <<b, a>>), <<a, b>>)
    BY DEF Use
  <2>3. AddEdge(DelEdge(m, <<b, a>>), <<a, b>>).verts = m.verts
    <3>1. m = [verts |-> m.verts, edge |-> m.edge, incs |-> m.incs]
      BY <2>1 DEF IsGraph
    <3> HIDE DEF m
    <3> QED BY <3>1 DEF AddEdge, DelEdge
  <2> QED BY <2>1, <2>2, <2>3
<1>5. ASSUME NEW r \in SourceRange, Excused(h.verts, W, D, r), NEW n \in FollowUsersOf(h, r, s)
      PROVE  Whole(n.verts, W, D)
  <2> DEFINE m == Code(Code(h, s), r)
  <2>1. Whole(m.verts, W, D) /\ IsGraph(m)
    BY <1>5, CodesWhole DEF Good
  <2>2. n = m \/ \E E : n = PutEdges(m, E, "FOLLOWS")
    BY <1>5 DEF FollowUsersOf
  <2> HIDE DEF m
  <2> QED BY <1>2, <2>1, <2>2
<1> QED BY <1>3, <1>4, <1>5

\* In every band of it a range is inside a piece of code.
Marked(V, r) == \A j \in 0 .. r.k : \E v \in V : Encloses(v, InBand(r, j))

LEMMA UseMarks ==
  ASSUME NEW h, Good(h), NEW r \in SourceRange, NEW s \in SourceRange
  PROVE  Marked(Use(h, r, s).verts, s)
<1> DEFINE m == Code(Code(h, r), s)
           a == At(m.verts, Begin(r))
           b == At(m.verts, Begin(s))
<1>1. Good(Code(h, r)) /\ IsGraph(m) /\ s.k \in Nat
  BY CodeGood DEF Good, SourceRange
<1>2. \A j \in 0 .. s.k : \E v \in m.verts : Encloses(v, InBand(s, j))
  BY <1>1, CodeVerts DEF Code, Good
<1>3. Use(h, r, s) = IF a = b THEN m ELSE AddEdge(DelEdge(m, <<b, a>>), <<a, b>>)
  BY DEF Use
<1>4. AddEdge(DelEdge(m, <<b, a>>), <<a, b>>).verts = m.verts
  <2>1. m = [verts |-> m.verts, edge |-> m.edge, incs |-> m.incs]
    BY <1>1 DEF IsGraph
  <2> HIDE DEF m
  <2> QED BY <2>1 DEF AddEdge, DelEdge
<1> QED BY <1>2, <1>3, <1>4 DEF Marked

\* The text of a range that was marked, in band 0, is excused when the range is.
LEMMA LowestExcused ==
  ASSUME NEW V \in SUBSET SourceRange, NEW W, NEW D, AllBands(D), NEW r \in SourceRange,
         Excused(V, W, D, r), Marked(V, r)
  PROVE  Excused(V, W, D, InBand(r, 0))
<1>1. InBand(r, 0) \in SourceRange /\ InBand(r, 0).k = 0 /\ r.k \in Nat
  BY InBandIsRange DEF SourceRange
<1> SUFFICES ASSUME NEW c \in D, Cuts(InBand(r, 0), c)
             PROVE  \E k \in Nat : /\ 0 <= k /\ InBand(c, k) \in W
                                   /\ \A i \in 1 .. k : \E v \in V : Overlap(v, InBand(c, i))
  BY <1>1 DEF Excused
<1>2. c \in SourceRange
  BY DEF AllBands
<1> DEFINE d == InBand(c, r.k)
<1>3. d \in D /\ c.k = 0 /\ InBand(c, 0) = c /\ InBand(r, r.k) = r
  BY <1>1, <1>2, InOneBand DEF AllBands, Cuts, Overlap
<1>4. \A i \in Nat : /\ Overlap(InBand(r, i), InBand(c, i)) <=>
                          r.f = c.f /\ r.beg < c.end /\ c.beg < r.end
                     /\ Encloses(InBand(r, i), InBand(c, i)) <=>
                          r.f = c.f /\ r.beg <= c.beg /\ c.end <= r.end
                     /\ InBand(d, i) = InBand(c, i)
  BY <1>1, <1>2, InOneBand
<1>5. Cuts(r, d)
  BY <1>1, <1>3, <1>4 DEF Cuts
<1>6. PICK k \in Nat : /\ r.k <= k /\ InBand(d, k) \in W
                       /\ \A i \in r.k + 1 .. k : \E v \in V : Overlap(v, InBand(d, i))
  BY <1>3, <1>5 DEF Excused
<1>7. ASSUME NEW i \in 1 .. k PROVE \E v \in V : Overlap(v, InBand(c, i))
  <2>1. i \in Nat /\ InBand(c, i) \in SourceRange /\ InBand(r, i) \in SourceRange
    BY <1>2, InBandIsRange
  <2>2. CASE i \in r.k + 1 .. k
    BY <1>4, <1>6, <2>1, <2>2
  <2>3. CASE i \in 0 .. r.k
    <3>1. Overlap(InBand(r, i), InBand(c, i))
      BY <1>3, <1>4, <2>1 DEF Cuts
    <3>2. \E v \in V : Encloses(v, InBand(r, i))
      BY <2>3 DEF Marked
    <3> QED BY <2>1, <3>1, <3>2, OverlapEnclosing
  <2> QED BY <1>1, <2>1, <2>2, <2>3
<1> QED BY <1>4, <1>6, <1>7

\* Two ranges of a file are apart, or the first is strictly inside the second, or encloses it.
Nests(r, c) ==
  r.f = c.f => \/ r.end <= c.beg \/ c.end <= r.beg
               \/ c.beg < r.beg /\ r.end < c.end
               \/ r.beg <= c.beg /\ c.end <= r.end

\* A conditional that was to be joined is joined in all bands in which pieces reach into it,
\* and then none of them waits for it any more.
LEMMA EndifWhole ==
  ASSUME NEW h, Good(h), NEW W, NEW D, AllBands(D), Whole(h.verts, W, D),
         NEW r \in SourceRange, \A c \in D : Nests(r, c)
  PROVE  Whole(CodeIfExists(h, r).verts, W \ {r}, D)
<1> DEFINE V == h.verts
           V2 == CodeIfExists(h, r).verts
           bands == {j \in 0 .. r.k : \A i \in j .. r.k : \E v \in V : Overlap(v, InBand(r, i))}
           U == W \ {r}
<1>1. V \in SUBSET SourceRange /\ NoOverlap(V) /\ r.k \in Nat
  BY DEF Good, IsGraph, SourceRange
<1>2. /\ V2 \in SUBSET SourceRange /\ \A v \in V : \E w \in V2 : Encloses(w, v)
      /\ NoOverlap(V2)
  BY CodeIfExistsGood DEF Good, IsGraph, Keeps
<1>3. \A v \in V2 : v \in V \/ \E j \in bands : v = Hull(V, InBand(r, j))
  BY DEF CodeIfExists, CodeIn
<1>4. \A j \in bands : Hull(V, InBand(r, j)) \in V2 /\ j \in Nat
  BY DEF CodeIfExists, CodeIn
<1>5. \A v \in V : v \in SourceRange /\ v.k \in Nat /\ Excused(V, W, D, v)
  BY <1>1 DEF Whole, SourceRange
<1>6. \A j \in bands : j \in 0 .. r.k /\ \E v \in V : Overlap(v, InBand(r, j))
  BY <1>1
<1>7. ASSUME NEW j \in 0 .. r.k, \A i \in j .. r.k : \E v \in V : Overlap(v, InBand(r, i))
      PROVE  j \in bands
  BY <1>7
<1> HIDE DEF V, V2, bands
<1> DEFINE There(c, j) == \E k \in Nat : /\ j <= k /\ InBand(c, k) \in U
                                         /\ \A i \in j + 1 .. k :
                                              \E v \in V2 : Overlap(v, InBand(c, i))
\* A piece that waits for another conditional still does.
<1>8. ASSUME NEW c \in D, NEW v \in V, Cuts(v, c), \A k \in Nat : InBand(c, k) # r
      PROVE  There(c, v.k)
  <2>1. PICK k \in Nat : /\ v.k <= k /\ InBand(c, k) \in W
                         /\ \A i \in v.k + 1 .. k : \E w \in V : Overlap(w, InBand(c, i))
    BY <1>5, <1>8 DEF Excused
  <2>2. ASSUME NEW i \in v.k + 1 .. k PROVE \E w \in V2 : Overlap(w, InBand(c, i))
    <3>1. PICK w \in V : Overlap(w, InBand(c, i))
      BY <2>1
    <3>2. i \in Nat /\ InBand(c, i) \in SourceRange
      BY <1>5 DEF AllBands
    <3> QED BY <1>1, <1>2, <3>1, <3>2, OverlapEnclosing
  <2> QED BY <1>8, <2>1, <2>2
<1>9. ASSUME NEW c \in D, NEW j \in bands, Cuts(Hull(V, InBand(r, j)), c) PROVE There(c, j)
  <2> DEFINE R == InBand(r, j)
             H == Hull(V, R)
  <2>1. R \in SourceRange /\ R.k = j /\ R.f = r.f /\ R.beg = r.beg /\ R.end = r.end
    BY <1>4, InBandIsRange
  <2> HIDE DEF R
  <2>2. c \in SourceRange /\ c.k \in Nat
    BY DEF AllBands, SourceRange
  <2>3. H \in SourceRange /\ H.k = j /\ Encloses(H, R) /\ Overlap(H, c) /\ ~Encloses(H, c)
    BY <1>1, <1>9, <2>1, HullEncloses DEF Cuts, R
  <2>4. ~Encloses(R, c)
    BY <2>1, <2>2, <2>3 DEF Encloses, SourceRange
  <2>5. \A k \in Nat : InBand(c, k) # r
    <3> SUFFICES ASSUME NEW k \in Nat, InBand(c, k) = r PROVE FALSE
      OBVIOUS
    <3>1. c.f = r.f /\ c.beg = r.beg /\ c.end = r.end /\ c.k = j
      BY <2>2, <2>3, InBandIsRange DEF Overlap
    <3>2. r.beg \in Nat /\ r.end \in Nat
      BY DEF SourceRange
    <3> QED BY <2>1, <2>4, <3>1, <3>2 DEF Encloses
  <2>6. CASE \E v \in V : v.k = j /\ Cuts(v, c)
    BY <1>8, <2>5, <2>6
  <2>7. CASE Cuts(R, c)
    <3>1. R.f = c.f /\ R.k = c.k /\ c.beg < r.beg /\ r.end < c.end
      <4>1. Nests(r, c)
        OBVIOUS
      <4>2. R.f = c.f /\ R.k = c.k /\ R.beg < c.end /\ c.beg < R.end
        BY <2>7 DEF Cuts, Overlap
      <4>3. ~(R.beg <= c.beg /\ c.end <= R.end)
        BY <2>4, <4>2 DEF Encloses
      <4>4. r.beg \in Nat /\ r.end \in Nat /\ c.beg \in Nat /\ c.end \in Nat
        BY <2>2 DEF SourceRange
      <4> QED BY <2>1, <4>1, <4>2, <4>3, <4>4 DEF Nests
    <3>2. PICK v \in V : Overlap(v, R)
      BY <1>6 DEF R
    <3>3. v \in SourceRange /\ v.k = j
      BY <1>5, <2>1, <3>2 DEF Overlap
    <3>4. Overlap(v, c)
      BY <2>1, <2>2, <3>1, <3>2, <3>3 DEF Overlap, SourceRange
    <3>5. ~Encloses(v, c)
      <4> SUFFICES ASSUME Encloses(v, c) PROVE FALSE
        OBVIOUS
      <4>1. Encloses(v, R)
        BY <2>1, <2>2, <3>1, <3>3 DEF Encloses, SourceRange
      <4>2. H = v
        BY <1>1, <2>1, <4>1, HullOfEnclosed
      <4> QED BY <2>3, <4>2
    <3> QED BY <1>8, <2>5, <3>3, <3>4, <3>5 DEF Cuts
  <2> QED BY <1>1, <1>9, <2>1, <2>2, <2>6, <2>7, HullCuts DEF R
\* A piece left alone waits no longer for this one.
<1>10. ASSUME NEW c \in D, NEW x \in V, x \in V2, Cuts(x, c) PROVE There(c, x.k)
  <2>1. PICK k \in Nat : /\ x.k <= k /\ InBand(c, k) \in W
                         /\ \A i \in x.k + 1 .. k : \E w \in V : Overlap(w, InBand(c, i))
    BY <1>5, <1>10 DEF Excused
  <2>2. c \in SourceRange /\ x \in SourceRange /\ c.k = x.k /\ x.k \in Nat
    BY <1>5, <1>10 DEF AllBands, Cuts, Overlap
  <2>3. ASSUME NEW i \in x.k + 1 .. k PROVE \E w \in V2 : Overlap(w, InBand(c, i))
    <3>1. PICK w \in V : Overlap(w, InBand(c, i))
      BY <2>1
    <3>2. i \in Nat /\ InBand(c, i) \in SourceRange
      BY <1>5 DEF AllBands
    <3> QED BY <1>1, <1>2, <3>1, <3>2, OverlapEnclosing
  <2>4. InBand(c, k) # r
    <3> SUFFICES ASSUME InBand(c, k) = r PROVE FALSE
      OBVIOUS
    <3>1. r.k = k
      BY <2>2, InBandIsRange
    <3>2. \A i \in Nat : InBand(r, i) = InBand(c, i)
      BY <2>2, InOneBand
    <3>3. InBand(c, c.k) = c
      BY <2>2, InOneBand
    <3>4. ASSUME NEW i \in x.k .. r.k PROVE \E w \in V : Overlap(w, InBand(r, i))
      <4>1. i \in Nat /\ (i = x.k \/ i \in x.k + 1 .. k)
        BY <2>2, <3>1
      <4>2. CASE i = x.k
        BY <1>10, <2>2, <3>2, <3>3, <4>2 DEF Cuts
      <4>3. CASE i \in x.k + 1 .. k
        BY <2>1, <3>2, <4>1, <4>3
      <4> QED BY <4>1, <4>2, <4>3
    <3>5. x.k \in bands
      BY <1>1, <1>7, <2>1, <2>2, <3>1, <3>4
    <3> DEFINE H == Hull(V, InBand(r, x.k))
    <3>6. H \in V2 /\ InBand(r, x.k) = c
      BY <1>4, <2>2, <3>2, <3>3, <3>5
    <3>7. Encloses(H, c) /\ H \in SourceRange
      BY <1>1, <1>2, <2>2, <3>6, HullEncloses
    <3>8. Overlap(H, x)
      <4>1. Overlap(c, x)
        BY <1>10 DEF Cuts, Overlap
      <4> HIDE DEF H
      <4> QED BY <2>2, <3>7, <4>1, OverlapEnclosing
    <3>9. H = x
      BY <1>2, <1>10, <3>6, <3>8 DEF NoOverlap
    <3> QED BY <1>10, <3>7, <3>9 DEF Cuts
  <2> QED BY <2>1, <2>3, <2>4
<1>11. ASSUME NEW x \in V2 PROVE Excused(V2, U, D, x)
  <2> SUFFICES ASSUME NEW c \in D, Cuts(x, c) PROVE There(c, x.k)
    BY DEF Excused
  <2>1. CASE x \in V
    BY <1>10, <2>1
  <2>2. CASE \E j \in bands : x = Hull(V, InBand(r, j))
    <3>1. PICK j \in bands : x = Hull(V, InBand(r, j))
      BY <2>2
    <3>2. InBand(r, j) \in SourceRange /\ InBand(r, j).k = j
      BY <1>4, InBandIsRange
    <3>3. x.k = j
      BY <1>1, <3>1, <3>2, HullEncloses
    <3> HIDE DEF There
    <3> QED BY <1>9, <3>1, <3>3
  <2> QED BY <1>3, <2>1, <2>2
<1> QED BY <1>11 DEF Whole, V2

-----------------------------------------------------------------------------
(* The conditionals of the texts, and those that were seen.                *)

IfSpan(t, c) == IsIf(t[c.f], c.beg) /\ c.end = Match(t[c.f], c.beg) + 1

\* In all bands; those around an #include are left out.
Conditionals(t) == {c \in SourceRange :
                      /\ IfSpan(t, c)
                      /\ \A i \in c.beg .. c.end - 1 : t[c.f][i + 1].op # "include"}

\* The ranges of the conditionals that were seen in inclusions that have a band.
IfsSeen(t, fl, st, at, bd) ==
  {[f |-> fl[r.n], k |-> bd[r.n], beg |-> r.beg, end |-> r.end] :
     r \in {s \in PieceSet : /\ s.n \in DOMAIN bd /\ IfRange(t, fl, s)
                             /\ SeenIf(t, fl, st, at, s.n, s.beg)}}

LEMMA ConditionalsBands ==
  ASSUME NEW t
  PROVE  AllBands(Conditionals(t))
<1>1. Conditionals(t) \subseteq SourceRange
  BY DEF Conditionals
<1>2. ASSUME NEW c \in Conditionals(t), NEW k \in Nat PROVE InBand(c, k) \in Conditionals(t)
  <2>1. c \in SourceRange
    BY <1>1
  <2>2. /\ InBand(c, k) \in SourceRange /\ InBand(c, k).f = c.f
        /\ InBand(c, k).beg = c.beg /\ InBand(c, k).end = c.end
    BY <2>1, InBandIsRange
  <2> QED BY <2>2 DEF Conditionals, IfSpan
<1> QED BY <1>1, <1>2 DEF AllBands

LEMMA ConditionalsNest ==
  ASSUME NEW t \in Texts, NEW r \in SourceRange, IfSpan(t, r), NEW c \in SourceRange, IfSpan(t, c)
  PROVE  Nests(r, c)
<1> SUFFICES ASSUME r.f = c.f
             PROVE  \/ r.end <= c.beg \/ c.end <= r.beg
                    \/ c.beg < r.beg /\ r.end < c.end
                    \/ r.beg <= c.beg /\ c.end <= r.end
  BY DEF Nests
<1> DEFINE x == t[c.f]
           p == r.beg
           q == c.beg
<1>1. c.f \in Files /\ p \in Nat /\ q \in Nat
  BY DEF SourceRange
<1>2. Len(x) \in Nat /\ Balanced(x)
  BY <1>1, TextParts
<1>3. /\ IsIf(x, p) /\ r.end = Match(x, p) + 1
      /\ IsIf(x, q) /\ c.end = Match(x, q) + 1
  BY DEF IfSpan
<1> HIDE DEF x, p, q
<1>4. Match(x, p) \in Nat /\ Match(x, q) \in Nat
  BY <1>2, <1>3, MatchCloses
<1>5. CASE p = q
  BY <1>1, <1>3, <1>4, <1>5 DEF p, q
<1>6. CASE p < q
  <2>1. q <= Match(x, p) => Match(x, q) < Match(x, p)
    BY <1>2, <1>3, <1>6, Nested
  <2> QED BY <1>1, <1>3, <1>4, <1>6, <2>1 DEF p, q
<1>7. CASE q < p
  <2>1. p <= Match(x, q) => Match(x, p) < Match(x, q)
    BY <1>2, <1>3, <1>7, Nested
  <2> QED BY <1>1, <1>3, <1>4, <1>7, <2>1 DEF p, q
<1> QED BY <1>1, <1>5, <1>6, <1>7

\* The range of a piece all of whose conditionals were seen, in an inclusion that has a band.
LEMMA TouchedExcused ==
  ASSUME NEW t \in Texts, NEW fl, NEW st, NEW at, NEW bd, NEW r \in PieceSet, r.beg < r.end,
         r.n \in DOMAIN bd, fl[r.n] \in Files, bd[r.n] \in Nat, TouchedIn(t, fl, st, at, r),
         NEW V, NEW D \in SUBSET Conditionals(t),
         NEW x, x.f = fl[r.n], x.k = bd[r.n], x.beg = r.beg, x.end = r.end
  PROVE  Excused(V, IfsSeen(t, fl, st, at, bd), D, x)
<1> SUFFICES ASSUME NEW c \in D, Cuts(x, c)
             PROVE  \E k \in Nat : /\ x.k <= k /\ InBand(c, k) \in IfsSeen(t, fl, st, at, bd)
                                   /\ \A i \in x.k + 1 .. k : \E v \in V : Overlap(v, InBand(c, i))
  BY DEF Excused
<1>1. c \in SourceRange /\ IfSpan(t, c) /\ c.beg \in Nat /\ c.end \in Nat /\ c.k \in Nat
  BY DEF Conditionals, SourceRange
<1>2. /\ c.f = fl[r.n] /\ c.k = bd[r.n] /\ r.beg < c.end /\ c.beg < r.end
      /\ ~(r.beg <= c.beg /\ c.end <= r.end)
  BY DEF Cuts, Overlap, Encloses
<1>3. IsIf(t[fl[r.n]], c.beg) /\ c.end = Match(t[fl[r.n]], c.beg) + 1
  BY <1>1, <1>2 DEF IfSpan
<1>4. Match(t[fl[r.n]], c.beg) \in Nat
  BY <1>3, TextParts, MatchCloses
<1>5. r.beg \in Nat /\ r.end \in Nat /\ r.n \in Nat
  BY DEF PieceSet
<1>6. InIf(t[fl[r.n]], c.beg, r.beg) \/ InIf(t[fl[r.n]], c.beg, r.end - 1)
  BY <1>1, <1>2, <1>3, <1>4, <1>5 DEF InIf
<1>7. SeenIf(t, fl, st, at, r.n, c.beg)
  BY <1>6 DEF TouchedIn
<1> DEFINE s == Piece(r.n, c.beg, c.end)
<1>8. s \in PieceSet /\ s.n = r.n /\ s.beg = c.beg /\ s.end = c.end
  BY <1>1, <1>5 DEF Piece, PieceSet
<1>9. IfRange(t, fl, s)
  BY <1>3, <1>8 DEF IfRange
<1>10. c = [f |-> fl[s.n], k |-> bd[s.n], beg |-> s.beg, end |-> s.end]
  BY <1>1, <1>2, <1>8 DEF SourceRange
<1> HIDE DEF s
<1>11. c \in IfsSeen(t, fl, st, at, bd)
  BY <1>7, <1>8, <1>9, <1>10 DEF IfsSeen
<1>12. InBand(c, c.k) = c
  BY <1>1, InOneBand
<1> QED BY <1>1, <1>2, <1>11, <1>12

\* What was seen, and has a band, stays so.
LEMMA IfsSeenGrow ==
  ASSUME NEW t, NEW fl, NEW st, NEW at, NEW bd, NEW fl2, NEW st2, NEW at2, NEW bd2,
         Onward(fl, st, fl2, st2), KeepsIfs(t, fl, st, at, fl2, st2, at2),
         DOMAIN bd \subseteq DOMAIN fl,
         \A n \in DOMAIN bd : n \in DOMAIN bd2 /\ bd2[n] = bd[n]
  PROVE  IfsSeen(t, fl, st, at, bd) \subseteq IfsSeen(t, fl2, st2, at2, bd2)
<1> SUFFICES ASSUME NEW r \in PieceSet, r.n \in DOMAIN bd, IfRange(t, fl, r),
                    SeenIf(t, fl, st, at, r.n, r.beg)
             PROVE  [f |-> fl[r.n], k |-> bd[r.n], beg |-> r.beg, end |-> r.end]
                      \in IfsSeen(t, fl2, st2, at2, bd2)
  BY DEF IfsSeen
<1>1. fl2[r.n] = fl[r.n] /\ r.n \in DOMAIN bd2 /\ bd2[r.n] = bd[r.n]
  BY DEF Onward
<1>2. IfRange(t, fl2, r)
  BY <1>1 DEF IfRange
<1>3. SeenIf(t, fl2, st2, at2, r.n, r.beg)
  BY DEF KeepsIfs, IfRange
<1> QED BY <1>1, <1>2, <1>3 DEF IfsSeen

-----------------------------------------------------------------------------
(* The graph and the uses put off, with respect to conditionals.           *)

Excusable(V, W, D) == {x \in SourceRange : Excused(V, W, D, x)}

UseLists == {"defined", "ifndef", "ifdef"}

Excusing(W, D) ==
  /\ Whole(g.verts, W, D)
  /\ phase \in {"collect"} \cup UseLists =>
       \A list \in UseLists : extra[list] \in Seq(Pos \X Excusable(g.verts, W, D))

EndifsOf(t) == extra.endif \in Seq({r \in SourceRange : IfSpan(t, r)})

AtIncludes(t, I) == \A x \in I : t[x[1].f][x[1].p + 1].op = "include"

LEMMA LateExcusable ==
  ASSUME NEW V \in SUBSET SourceRange, NEW V2 \in SUBSET SourceRange,
         \A v \in V : \E w \in V2 : Encloses(w, v),
         NEW D, AllBands(D), NEW D2 \in SUBSET D, NEW W, NEW W2,
         \A c \in D2 : c \in W => c \in W2,
         \A c \in D2, k \in Nat : InBand(c, k) \in D2
  PROVE  /\ Seq(Pos \X Excusable(V, W, D)) \subseteq Seq(Pos \X Excusable(V2, W2, D2))
         /\ \A x \in SourceRange : Excused(V, W, D, x) => Excused(V2, W2, D2, x)
<1>1. ASSUME NEW x \in SourceRange, Excused(V, W, D, x) PROVE Excused(V2, W2, D2, x)
  <2>1. x.k \in Nat
    BY DEF SourceRange
  <2> QED BY <1>1, <2>1, ExcusedGrows
<1>2. Pos \X Excusable(V, W, D) \subseteq Pos \X Excusable(V2, W2, D2)
  BY <1>1 DEF Excusable
<1> QED BY <1>1, <1>2, SeqOfMore

\* The same graph, with more to be joined or fewer conditionals to mind.
LEMMA ExcusingStays ==
  ASSUME Inv, NEW W, NEW D, AllBands(D), Excusing(W, D), NEW D2 \in SUBSET D, NEW W2,
         \A c \in D2 : c \in W => c \in W2,
         \A c \in D2, k \in Nat : InBand(c, k) \in D2
  PROVE  Excusing(W2, D2)
<1> DEFINE V == g.verts
<1>1. V \in SUBSET SourceRange /\ \A v \in V : \E w \in V : Encloses(w, v)
  <2>1. V \in SUBSET SourceRange
    BY InvIsGood DEF IsGraph
  <2>2. \A v \in V : Encloses(v, v)
    BY <2>1 DEF Encloses, SourceRange
  <2> QED BY <2>1, <2>2
<1>2. Whole(V, W, D) /\ (phase \in {"collect"} \cup UseLists =>
        \A list \in UseLists : extra[list] \in Seq(Pos \X Excusable(V, W, D)))
  BY DEF Excusing
<1> HIDE DEF V
<1>3. /\ Seq(Pos \X Excusable(V, W, D)) \subseteq Seq(Pos \X Excusable(V, W2, D2))
      /\ \A x \in SourceRange : Excused(V, W, D, x) => Excused(V, W2, D2, x)
  BY <1>1, LateExcusable
<1>4. Whole(V, W2, D2)
  BY <1>1, <1>2, <1>3 DEF Whole
<1>5. phase \in {"collect"} \cup UseLists =>
        \A list \in UseLists : extra[list] \in Seq(Pos \X Excusable(V, W2, D2))
  BY <1>2, <1>3
<1> QED BY <1>4, <1>5 DEF Excusing, V

\* A call with ranges that are excused.
LEMMA CallExcusing ==
  ASSUME Inv, NEW W, NEW D, AllBands(D), Excusing(W, D),
         NEW call, Make(call), call.op \notin {"ask", "skip"},
         NEW user \in SourceRange, NEW usee \in SourceRange,
         user = RangeOf(call.user), usee = RangeOf(call.usee),
         call.op # "endif" => Excused(g.verts, W, D, user) /\ Excused(g.verts, W, D, usee),
         call.op = "defined" => Excused(g.verts, W, D, InBand(usee, 0))
  PROVE  /\ phase = "collect" /\ phase' = "collect"
         /\ Whole(g'.verts, W, D)
         /\ \A list \in UseLists : extra'[list] \in Seq(Pos \X Excusable(g'.verts, W, D))
<1>1. /\ phase = "collect" /\ phase' = "collect"
      /\ \/ /\ \/ g' = Code(g, user) \/ g' = Use(g, user, usee)
               \/ g' \in FollowUsersOf(g, user, usee)
            /\ extra' = extra /\ call.op # "endif"
         \/ g' = g /\ extra' = extra
         \/ /\ g' = g
            /\ \E list \in UseLists : \E r \in {usee, InBand(usee, 0)} :
                 /\ extra' = [extra EXCEPT ![list] = Append(@, <<Begin(user), r>>)]
                 /\ Excused(g.verts, W, D, r)
         \/ g' = g /\ extra' = [extra EXCEPT !.endif = Append(@, user)]
  BY DEF Make, Call, AddCode, UseCode, Follow, GlobalCode, StaticCode, SymbolCode,
         Inclusion, Conditional, Endif, UseLists
<1> DEFINE V == g.verts
           S == Seq(Pos \X Excusable(V, W, D))
<1>2. Good(g) /\ IsGraph(g) /\ Whole(V, W, D) /\ \A list \in UseLists : extra[list] \in S
  BY <1>1, InvIsGood DEF Excusing
<1>3. extra = [defined |-> extra.defined, ifndef |-> extra.ifndef, ifdef |-> extra.ifdef,
               endif |-> extra.endif]
  BY DEF Inv, TypeOK
<1>4. CASE g' = g
  <2>1. \A list \in UseLists : extra'[list] \in S
    <3>1. CASE extra' = extra
      BY <1>2, <3>1
    <3>2. CASE \E list \in UseLists : \E r \in {usee, InBand(usee, 0)} :
                 /\ extra' = [extra EXCEPT ![list] = Append(@, <<Begin(user), r>>)]
                 /\ Excused(g.verts, W, D, r)
      <4>1. PICK list \in UseLists : \E r \in {usee, InBand(usee, 0)} :
                 /\ extra' = [extra EXCEPT ![list] = Append(@, <<Begin(user), r>>)]
                 /\ Excused(g.verts, W, D, r)
        BY <3>2
      <4>2. PICK r \in {usee, InBand(usee, 0)} :
                 /\ extra' = [extra EXCEPT ![list] = Append(@, <<Begin(user), r>>)]
                 /\ Excused(g.verts, W, D, r)
        BY <4>1
      <4>3. r \in SourceRange
        BY InBandIsRange
      <4>4. Begin(user) \in Pos
        BY DEF Begin, Pos, SourceRange
      <4>5. <<Begin(user), r>> \in Pos \X Excusable(V, W, D)
        BY <4>2, <4>3, <4>4 DEF Excusable
      <4> DEFINE y == Append(extra[list], <<Begin(user), r>>)
      <4>6. y \in S /\ extra' = [extra EXCEPT ![list] = y]
        BY <1>2, <4>2, <4>5
      <4> HIDE DEF y, S
      <4>7. \A other \in UseLists : extra'[other] = IF other = list THEN y ELSE extra[other]
        BY <1>3, <4>6 DEF UseLists
      <4> QED BY <1>2, <4>6, <4>7
    <3>3. CASE extra' = [extra EXCEPT !.endif = Append(@, user)]
      <4> DEFINE y == Append(extra.endif, user)
      <4>1. extra' = [extra EXCEPT !.endif = y]
        BY <3>3
      <4> HIDE DEF y, S
      <4>2. \A list \in UseLists : extra'[list] = extra[list]
        BY <1>3, <4>1 DEF UseLists
      <4> QED BY <1>2, <4>2
    <3>4. \/ extra' = extra
          \/ \E list \in UseLists : \E r \in {usee, InBand(usee, 0)} :
                 /\ extra' = [extra EXCEPT ![list] = Append(@, <<Begin(user), r>>)]
                 /\ Excused(g.verts, W, D, r)
          \/ extra' = [extra EXCEPT !.endif = Append(@, user)]
      BY <1>1
    <3> QED BY <3>1, <3>2, <3>3, <3>4
  <2> QED BY <1>1, <1>2, <1>4, <2>1
<1>5. CASE /\ \/ g' = Code(g, user) \/ g' = Use(g, user, usee)
              \/ g' \in FollowUsersOf(g, user, usee)
           /\ extra' = extra /\ call.op # "endif"
  <2>1. Whole(g'.verts, W, D)
    <3>1. Excused(V, W, D, user) /\ Excused(V, W, D, usee)
      BY <1>5
    <3> QED BY <1>2, <1>5, <3>1, CodeWhole, UsesWhole
  <2>2. Good(g') /\ Keeps(g, g')
    BY <1>2, <1>5, CodeGood, UseGood, FollowUsersOfGood
  <2> DEFINE V2 == g'.verts
  <2>3. /\ V \in SUBSET SourceRange /\ V2 \in SUBSET SourceRange
        /\ \A v \in V : \E w \in V2 : Encloses(w, v)
    BY <1>2, <2>2 DEF Good, IsGraph, Keeps
  <2>4. \A c \in D, k \in Nat : InBand(c, k) \in D
    BY DEF AllBands
  <2> HIDE DEF V, V2
  <2>5. S \subseteq Seq(Pos \X Excusable(V2, W, D))
    BY <2>3, <2>4, LateExcusable
  <2>6. \A list \in UseLists : extra'[list] \in Seq(Pos \X Excusable(V2, W, D))
    <3>1. \A list \in UseLists : extra'[list] \in S
      BY <1>2, <1>5
    <3> HIDE DEF S
    <3> QED BY <2>5, <3>1
  <2> QED BY <1>1, <2>1, <2>6 DEF V2
<1> QED BY <1>1, <1>4, <1>5

\* finalize and the fix-up of static functions, up to the loop over the #endif's.
LEMMA FinalizeExcusing ==
  ASSUME Inv, NEW W, NEW D, AllBands(D), Excusing(W, D), phase # "collect",
         FinalizeStep, ~ProcessEndif
  PROVE  /\ Whole(g'.verts, W, D)
         /\ phase' \in {"collect"} \cup UseLists =>
              \A list \in UseLists : extra'[list] \in Seq(Pos \X Excusable(g'.verts, W, D))
         /\ extra'.endif = extra.endif /\ phase' # "collect"
<1> DEFINE V == g.verts
           S == Seq(Pos \X Excusable(V, W, D))
<1>1. Good(g) /\ IsGraph(g) /\ Whole(V, W, D)
  BY InvIsGood DEF Excusing
<1>2. extra = [defined |-> extra.defined, ifndef |-> extra.ifndef, ifdef |-> extra.ifdef,
               endif |-> extra.endif]
  BY DEF Inv, TypeOK
<1>3. ASSUME NEW list \in UseLists, ExtraUse(list)
      PROVE  /\ Whole(g'.verts, W, D)
             /\ \A other \in UseLists : extra'[other] \in Seq(Pos \X Excusable(g'.verts, W, D))
             /\ extra'.endif = extra.endif /\ phase' # "collect"
  <2>1. /\ phase = list /\ phase' = phase /\ extra[list] # <<>>
        /\ g' = UseIfUserExists(g, Head(extra[list])[1], Head(extra[list])[2])
        /\ extra' = [extra EXCEPT ![list] = Tail(@)]
    BY <1>3 DEF ExtraUse
  <2>2. \A other \in UseLists : extra[other] \in S
    BY <2>1 DEF Excusing
  <2>3. Head(extra[list]) \in Pos \X Excusable(V, W, D) /\ Tail(extra[list]) \in S
    BY <2>1, <2>2
  <2> DEFINE s == Head(extra[list])[2]
             x == Head(extra[list])[1]
             y == Tail(extra[list])
             V2 == g'.verts
  <2>4. /\ s \in SourceRange /\ Excused(V, W, D, s) /\ x \in Pos
        /\ y \in S /\ extra' = [extra EXCEPT ![list] = y] /\ g' = UseIfUserExists(g, x, s)
    BY <2>1, <2>3 DEF Excusable
  <2> HIDE DEF s, x, y
  <2>5. Whole(V2, W, D) /\ Good(g') /\ Keeps(g, g')
    BY <1>1, <2>4, UsesWhole, UseIfUserExistsGood
  <2>6. /\ V \in SUBSET SourceRange /\ V2 \in SUBSET SourceRange
        /\ \A v \in V : \E w \in V2 : Encloses(w, v)
    BY <1>1, <2>5 DEF Good, IsGraph, Keeps
  <2>7. \A c \in D, k \in Nat : InBand(c, k) \in D
    BY DEF AllBands
  <2> HIDE DEF V, V2
  <2>8. S \subseteq Seq(Pos \X Excusable(V2, W, D))
    BY <2>6, <2>7, LateExcusable
  <2> HIDE DEF S
  <2>9. /\ \A other \in UseLists : extra'[other] = IF other = list THEN y ELSE extra[other]
        /\ extra'.endif = extra.endif
    BY <1>2, <2>4 DEF UseLists
  <2>10. \A other \in UseLists : extra'[other] \in Seq(Pos \X Excusable(V2, W, D))
    BY <2>2, <2>4, <2>8, <2>9
  <2> QED BY <2>1, <2>5, <2>9, <2>10 DEF V2
<1>4. ASSUME UNCHANGED <<g, extra>>, phase' # "collect",
             phase' \in UseLists => phase \in UseLists
      PROVE  /\ Whole(g'.verts, W, D)
             /\ phase' \in {"collect"} \cup UseLists =>
                  \A list \in UseLists : extra'[list] \in Seq(Pos \X Excusable(g'.verts, W, D))
             /\ extra'.endif = extra.endif /\ phase' # "collect"
  BY <1>4 DEF Excusing
<1>5. ProcessInclusions \/ FixupStaticFunctions =>
        /\ g'.verts = g.verts /\ UNCHANGED extra /\ phase' \in {"endif", "done"}
  <2>1. g = [verts |-> g.verts, edge |-> g.edge, incs |-> g.incs]
    BY <1>1 DEF IsGraph
  <2>2. \A E, t : PutEdges(g, E, t).verts = g.verts
    BY <2>1 DEF PutEdges
  <2>3. ProcessInclusions => g'.verts = g.verts /\ UNCHANGED extra /\ phase' = "endif"
    BY <2>1 DEF ProcessInclusions
  <2>4. FixupStaticFunctions => g'.verts = g.verts /\ UNCHANGED extra /\ phase' = "done"
    BY <2>2 DEF FixupStaticFunctions
  <2> QED BY <2>3, <2>4
<1>6. \A list \in UseLists : ExtraUsesDone(list) =>
        /\ UNCHANGED <<g, extra>> /\ phase' # "collect"
        /\ phase' \in UseLists => phase \in UseLists
  BY DEF ExtraUsesDone, Following, UseLists
<1>7. FinalizeDone => UNCHANGED <<g, extra>> /\ phase' = "fixup"
  BY DEF FinalizeDone
<1>8. \/ \E list \in UseLists : ExtraUse(list) \/ ExtraUsesDone(list)
      \/ ProcessInclusions \/ FixupStaticFunctions \/ FinalizeDone
  BY DEF FinalizeStep, Finalize, UseLists
<1>9. CASE ProcessInclusions \/ FixupStaticFunctions
  BY <1>1, <1>5, <1>9 DEF UseLists
<1>10. CASE FinalizeDone
  <2>1. phase' # "collect" /\ phase' \notin UseLists
    BY <1>7, <1>10 DEF UseLists
  <2> QED BY <1>4, <1>7, <1>10, <2>1
<1>11. CASE \E list \in UseLists : ExtraUse(list) \/ ExtraUsesDone(list)
  BY <1>3, <1>4, <1>6, <1>11
<1> QED BY <1>8, <1>9, <1>10, <1>11

Waiting(s) == {s[i] : i \in DOMAIN s}

LEMMA RestWaits ==
  ASSUME NEW S, NEW s \in Seq(S), s # <<>>
  PROVE  /\ Head(s) \in S /\ Tail(s) \in Seq(S)
         /\ \A c \in Waiting(s) : c = Head(s) \/ c \in Waiting(Tail(s))
<1>1. Head(s) \in S /\ Tail(s) \in Seq(S) /\ Head(s) = s[1]
  OBVIOUS
<1>2. ASSUME NEW i \in DOMAIN s, i # 1 PROVE s[i] \in Waiting(Tail(s))
  <2>1. i - 1 \in DOMAIN Tail(s) /\ Tail(s)[i - 1] = s[i]
    BY <1>2
  <2> QED BY <2>1 DEF Waiting
<1> QED BY <1>1, <1>2 DEF Waiting

\* The loop over the #endif's: of a range that is left out because of an #include in it
\* no conditional in D is.
LEMMA EndifExcusing ==
  ASSUME Inv, NEW t \in Texts, EndifsOf(t), AtIncludes(t, fileIncs),
         NEW D \in SUBSET Conditionals(t), AllBands(D), Excusing(Waiting(extra.endif), D),
         ProcessEndif
  PROVE  /\ Whole(g'.verts, Waiting(extra'.endif), D)
         /\ extra'.endif \in Seq({r \in SourceRange : IfSpan(t, r)})
         /\ phase' = "endif"
<1> DEFINE E == {r \in SourceRange : IfSpan(t, r)}
           r == Head(extra.endif)
           W == Waiting(extra.endif)
           W2 == Waiting(extra'.endif)
           V2 == g'.verts
<1>1. /\ phase' = "endif" /\ extra.endif # <<>>
      /\ extra' = [extra EXCEPT !.endif = Tail(@)]
      /\ \/ g' = g /\ \E i \in fileIncs : Within(i[1], r)
         \/ g' = CodeIfExists(g, r)
  BY DEF ProcessEndif
<1>2. /\ Good(g) /\ Whole(g.verts, W, D)
      /\ extra = [defined |-> extra.defined, ifndef |-> extra.ifndef, ifdef |-> extra.ifdef,
                  endif |-> extra.endif]
  BY InvIsGood DEF Excusing, Inv, TypeOK
<1>3. extra'.endif = Tail(extra.endif)
  BY <1>1, <1>2
<1>4. extra.endif \in Seq(E)
  BY DEF EndifsOf
<1>5. r \in E /\ extra'.endif \in Seq(E) /\ \A c \in W : c = r \/ c \in W2
  <2> HIDE DEF E
  <2> QED BY <1>1, <1>3, <1>4, RestWaits
<1>6. r \in SourceRange /\ IfSpan(t, r)
  BY <1>5
<1> HIDE DEF r, W, W2, V2
<1>7. ASSUME NEW V \in SUBSET SourceRange, NEW U, Whole(V, U, D),
             \A c \in D : c \in U => c \in W2
      PROVE  Whole(V, W2, D)
  <2>1. \A v \in V : \E w \in V : Encloses(w, v)
    <3>1. \A v \in V : Encloses(v, v)
      BY DEF Encloses, SourceRange
    <3> QED BY <3>1
  <2>2. \A c \in D, k \in Nat : InBand(c, k) \in D
    BY DEF AllBands
  <2>3. \A x \in SourceRange : Excused(V, U, D, x) => Excused(V, W2, D, x)
    BY <1>7, <2>1, <2>2, LateExcusable
  <2> QED BY <1>7, <2>3 DEF Whole
<1>8. CASE g' = g /\ \E i \in fileIncs : Within(i[1], r)
  <2>1. PICK i \in fileIncs : Within(i[1], r)
    BY <1>8
  <2>2. i[1] \in Pos
    BY DEF Inv, TypeOK
  <2>3. i[1].f = r.f /\ i[1].p \in r.beg .. r.end - 1 /\ t[r.f][i[1].p + 1].op = "include"
    <3>1. i[1].f = r.f /\ r.beg <= i[1].p /\ i[1].p < r.end
      BY <2>1 DEF Within
    <3>2. i[1].p \in Nat /\ r.beg \in Nat /\ r.end \in Nat
      BY <1>6, <2>2 DEF Pos, SourceRange
    <3> QED BY <3>1, <3>2 DEF AtIncludes
  <2>4. r \notin D
    BY <2>3 DEF Conditionals
  <2>5. g.verts \in SUBSET SourceRange
    BY <1>2 DEF Good, IsGraph
  <2>6. \A c \in D : c \in W => c \in W2
    BY <1>5, <2>4
  <2> QED BY <1>1, <1>2, <1>5, <1>7, <1>8, <2>5, <2>6 DEF W2, V2
<1>9. CASE g' = CodeIfExists(g, r)
  <2>1. \A c \in D : Nests(r, c)
    BY <1>6, ConditionalsNest DEF Conditionals
  <2>2. Whole(V2, W \ {r}, D)
    BY <1>2, <1>6, <1>9, <2>1, EndifWhole DEF V2
  <2>3. V2 \in SUBSET SourceRange
    BY <1>2, <1>6, <1>9, CodeIfExistsGood DEF Good, IsGraph, V2
  <2>4. \A c \in D : c \in W \ {r} => c \in W2
    BY <1>5
  <2> QED BY <1>1, <1>5, <1>7, <2>2, <2>3, <2>4 DEF W2, V2
<1> QED BY <1>1, <1>8, <1>9

\* What calls do to the ranges of #endif's and to the #include's.
LEMMA CallNotes ==
  ASSUME Inv, NEW call, Make(call), call.op \notin {"ask", "skip"},
         NEW user, user = RangeOf(call.user),
         NEW E, extra.endif \in Seq(E), call.op = "endif" => user \in E
  PROVE  /\ extra'.endif \in Seq(E)
         /\ \A j \in DOMAIN extra.endif : /\ j \in DOMAIN extra'.endif
                                          /\ extra'.endif[j] = extra.endif[j]
         /\ call.op = "endif" => \E j \in DOMAIN extra'.endif : extra'.endif[j] = user
         /\ \/ UNCHANGED <<inclusions, fileIncs>>
            \/ /\ call.op = "inclusion" /\ UNCHANGED fileIncs
               /\ inclusions' = inclusions \cup {<<Begin(user), call.what>>}
<1>1. extra = [defined |-> extra.defined, ifndef |-> extra.ifndef, ifdef |-> extra.ifdef,
               endif |-> extra.endif]
  BY DEF Inv, TypeOK
<1>2. \/ UNCHANGED <<inclusions, fileIncs>>
      \/ /\ call.op = "inclusion" /\ UNCHANGED fileIncs
         /\ inclusions' = inclusions \cup {<<Begin(user), call.what>>}
  BY DEF Make, Call, AddCode, UseCode, Follow, GlobalCode, StaticCode, SymbolCode,
         Inclusion, Conditional, Endif
<1>3. \/ UNCHANGED extra /\ call.op # "endif"
      \/ /\ call.op # "endif"
         /\ \E list \in UseLists : \E y : extra' = [extra EXCEPT ![list] = y]
      \/ call.op = "endif" /\ extra' = [extra EXCEPT !.endif = Append(@, user)]
  <2>1. call.op = "endif" => extra' = [extra EXCEPT !.endif = Append(@, user)]
    BY DEF Make, Endif
  <2>2. call.op \in {"code", "use", "follow", "global", "static", "inclusion"}
          => UNCHANGED extra
    BY DEF Make, Call, AddCode, UseCode, Follow, GlobalCode, StaticCode, SymbolCode, Inclusion
  <2>3. call.op \in {"defined", "ifndef", "ifdef"}
          => \E list \in UseLists : \E y : extra' = [extra EXCEPT ![list] = y]
    BY DEF Make, Conditional, UseLists
  <2>4. call.op \in {"code", "use", "follow", "global", "static", "inclusion", "defined",
                     "ifndef", "ifdef", "endif"}
    BY DEF Make
  <2> QED BY <2>1, <2>2, <2>3, <2>4
<1>4. CASE UNCHANGED extra /\ call.op # "endif"
  BY <1>2, <1>4
<1>5. CASE /\ call.op # "endif"
           /\ \E list \in UseLists : \E y : extra' = [extra EXCEPT ![list] = y]
  <2>1. PICK list \in UseLists : \E y : extra' = [extra EXCEPT ![list] = y]
    BY <1>5
  <2>2. PICK y : extra' = [extra EXCEPT ![list] = y]
    BY <2>1
  <2>3. extra'.endif = extra.endif
    BY <1>1, <2>2 DEF UseLists
  <2> QED BY <1>2, <1>5, <2>3
<1>6. CASE call.op = "endif" /\ extra' = [extra EXCEPT !.endif = Append(@, user)]
  <2>1. extra'.endif = Append(extra.endif, user)
    <3> DEFINE y == Append(extra.endif, user)
    <3>1. extra' = [extra EXCEPT !.endif = y]
      BY <1>6
    <3> HIDE DEF y
    <3>2. extra'.endif = y
      BY <1>1, <3>1
    <3> QED BY <3>2 DEF y
  <2>2. PICK s \in Seq(E) : s = extra.endif
    OBVIOUS
  <2>3. /\ Append(s, user) \in Seq(E)
        /\ \A j \in DOMAIN s : j \in DOMAIN Append(s, user) /\ Append(s, user)[j] = s[j]
        /\ Len(s) + 1 \in DOMAIN Append(s, user) /\ Append(s, user)[Len(s) + 1] = user
    BY <1>6
  <2> QED BY <1>2, <2>1, <2>2, <2>3
<1> QED BY <1>3, <1>4, <1>5, <1>6

-----------------------------------------------------------------------------
(* Conditionals, in the plugin.                                            *)

\* The guard of a header, in some inclusion of its file.
Guarded(c) == \E m \in DOMAIN file : file[m] = c.f /\ IsGuard(Piece(m, c.beg, c.end))

Unguarded == {c \in Conditionals(text) : ~Guarded(c)}

\* What is noted of the end of a conditional reaches the collector.
EndsNoted ==
  handled /\ phase = "collect" =>
    \A i \in DOMAIN atEnd.endif :
      LET r == atEnd.endif[i]
      IN \/ IsGuard(r)
         \/ \E j \in DOMAIN todo : todo[j].op = "endif" /\ todo[j].user = r
         \/ r.n \in DOMAIN band /\ \E j \in DOMAIN extra.endif : extra.endif[j] = RangeOf(r)

\* `defined` is called after the definition was marked.
DefinedMarked ==
  \A i \in DOMAIN todo : todo[i].op = "defined" =>
    \/ i = 1 /\ todo[1].usee.n \in DOMAIN band /\ Marked(g.verts, RangeOf(todo[1].usee))
    \/ i > 1 /\ todo[i - 1].op = "use" /\ todo[i - 1].usee = todo[i].usee

ConditionInv ==
  /\ phase = "collect" => Excusing(IfsSeen(text, file, stack, atEnd, band), Conditionals(text))
  /\ phase # "collect" => Excusing(Waiting(extra.endif), Unguarded) /\ handled /\ todo = <<>>
  /\ phase \in {"fixup", "done"} => extra.endif = <<>>
  /\ EndifsOf(text) /\ AtIncludes(text, inclusions \cup fileIncs)
  /\ EndsNoted
  /\ DefinedMarked

LEMMA UnguardedBands == /\ Unguarded \subseteq Conditionals(text)
                        /\ AllBands(Unguarded)
                        /\ \A c \in Unguarded, k \in Nat : InBand(c, k) \in Unguarded
<1>1. AllBands(Conditionals(text))
  BY ConditionalsBands
<1>2. \A c \in Conditionals(text), k \in Nat :
        /\ InBand(c, k) \in Conditionals(text)
        /\ InBand(c, k).f = c.f /\ InBand(c, k).beg = c.beg /\ InBand(c, k).end = c.end
  <2> SUFFICES ASSUME NEW c \in Conditionals(text), NEW k \in Nat
               PROVE  /\ InBand(c, k) \in Conditionals(text)
                      /\ InBand(c, k).f = c.f /\ InBand(c, k).beg = c.beg
                      /\ InBand(c, k).end = c.end
    OBVIOUS
  <2>1. InBand(c, k) \in Conditionals(text)
    BY <1>1 DEF AllBands
  <2>2. c = [f |-> c.f, k |-> c.k, beg |-> c.beg, end |-> c.end]
    BY DEF Conditionals, SourceRange
  <2>3. InBand(c, k) = [f |-> c.f, k |-> k, beg |-> c.beg, end |-> c.end]
    BY <2>2 DEF InBand
  <2> QED BY <2>1, <2>3
<1>3. ASSUME NEW c, NEW d, d.f = c.f, d.beg = c.beg, d.end = c.end, ~Guarded(c)
      PROVE  ~Guarded(d)
  BY <1>3 DEF Guarded
<1>4. Unguarded \subseteq Conditionals(text)
  BY DEF Unguarded
<1>5. ASSUME NEW c \in Unguarded, NEW k \in Nat PROVE InBand(c, k) \in Unguarded
  <2>1. c \in Conditionals(text) /\ ~Guarded(c)
    BY DEF Unguarded
  <2>2. InBand(c, k) \in Conditionals(text) /\ ~Guarded(InBand(c, k))
    BY <1>2, <1>3, <2>1
  <2> QED BY <2>2 DEF Unguarded
<1> QED BY <1>1, <1>4, <1>5 DEF AllBands

\* What it takes for these to hold after a step.
LEMMA DefinedNext ==
  ASSUME \A i \in DOMAIN todo' : \A x : x = todo'[i].usee /\ todo'[i].op = "defined" =>
           \/ i = 1 /\ x.n \in DOMAIN band' /\ Marked(g'.verts, RangeOf(x)')
           \/ i > 1 /\ todo'[i - 1].op = "use" /\ todo'[i - 1].usee = x
  PROVE  DefinedMarked'
BY DEF DefinedMarked, RangeOf, Band

LEMMA EndsNext ==
  ASSUME handled' /\ phase' = "collect" =>
           \A i \in DOMAIN atEnd'.endif : \A r : r = atEnd'.endif[i] =>
             \/ IsGuard(r)'
             \/ \E j \in DOMAIN todo' : todo'[j].op = "endif" /\ todo'[j].user = r
             \/ r.n \in DOMAIN band' /\ \E j \in DOMAIN extra'.endif : extra'.endif[j] = RangeOf(r)'
  PROVE  EndsNoted'
BY DEF EndsNoted, RangeOf, Band, IsGuard

LEMMA RestOfCalls ==
  ASSUME Calling, todo # <<>>, todo' = Tail(todo)
  PROVE  /\ Head(todo) = todo[1] /\ 1 \in DOMAIN todo
         /\ \A i \in DOMAIN todo' : /\ i \in Nat /\ i >= 1 /\ i + 1 \in DOMAIN todo
                                    /\ todo'[i] = todo[i + 1]
         /\ \A j \in DOMAIN todo : j # 1 => \E i \in DOMAIN todo' : j = i + 1
<1> DEFINE S == Calls(text, file, stack, atEnd)
<1>1. todo \in Seq(S)
  BY DEF Calling
<1> HIDE DEF S
<1>2. Len(todo) \in Nat /\ Len(todo) > 0 /\ DOMAIN todo = 1 .. Len(todo)
  BY <1>1
<1>3. Len(todo') = Len(todo) - 1 /\ DOMAIN todo' = 1 .. Len(todo) - 1 /\ Head(todo) = todo[1]
  BY <1>1
<1>4. \A i \in DOMAIN todo' : i \in Nat /\ todo'[i] = todo[i + 1]
  BY <1>1
<1>5. \A j \in DOMAIN todo : j # 1 => j - 1 \in DOMAIN todo' /\ j = (j - 1) + 1
  BY <1>2, <1>3
<1> QED BY <1>2, <1>3, <1>4, <1>5

LEMMA DefinedPerform ==
  ASSUME PluginInv, DefinedMarked, Perform
  PROVE  DefinedMarked'
<1> DEFINE c == Head(todo)
<1>1. /\ todo # <<>> /\ Make(c) /\ todo' = Tail(todo)
      /\ Calling /\ Reading /\ Banded /\ Asking /\ Good(g)
  BY InvIsGood DEF Perform, PluginInv, Lexing
<1>2. /\ c = todo[1] /\ 1 \in DOMAIN todo
      /\ \A i \in DOMAIN todo' : /\ i \in Nat /\ i >= 1 /\ i + 1 \in DOMAIN todo
                                 /\ todo'[i] = todo[i + 1]
  BY <1>1, RestOfCalls
<1> HIDE DEF c
<1>3. ASSUME NEW i \in DOMAIN todo', NEW x, x = todo'[i].usee, todo'[i].op = "defined"
      PROVE  \/ i = 1 /\ x.n \in DOMAIN band' /\ Marked(g'.verts, RangeOf(x)')
             \/ i > 1 /\ todo'[i - 1].op = "use" /\ todo'[i - 1].usee = x
  <2>1. /\ i \in Nat /\ i >= 1 /\ i + 1 \in DOMAIN todo /\ todo'[i] = todo[i + 1]
        /\ i + 1 > 1 /\ i + 1 # 1 /\ (i + 1) - 1 = i
    BY <1>2
  <2>2. todo[i].op = "use" /\ todo[i].usee = x
    BY <1>3, <2>1 DEF DefinedMarked
  <2>3. CASE i = 1
    <3>1. c.op = "use" /\ c.usee = x
      BY <1>2, <2>2, <2>3
    <3>2. /\ RangeOf(c.user) \in SourceRange /\ RangeOf(c.usee) \in SourceRange
          /\ c.usee.n \in DOMAIN band'
      BY <1>1, NextCall, OneAsked DEF c
    <3>3. g' = Use(g, RangeOf(c.user), RangeOf(c.usee))
      BY <1>1, <3>1 DEF Make, UseCode
    <3>4. Marked(g'.verts, RangeOf(c.usee))
      BY <1>1, <3>2, <3>3, UseMarks
    <3>5. RangeOf(x)' = RangeOf(x)
      BY <1>1, <3>1, <3>2, RangeKept
    <3> QED BY <2>3, <3>1, <3>2, <3>4, <3>5
  <2>4. CASE i # 1
    <3>1. i > 1 /\ i - 1 \in DOMAIN todo' /\ (i - 1) + 1 = i
      <4>1. DOMAIN todo' = 1 .. Len(todo')
        <5> DEFINE S == Calls(text, file, stack, atEnd)
        <5>1. todo \in Seq(S)
          BY <1>1 DEF Calling
        <5> HIDE DEF S
        <5>2. todo' \in Seq(S)
          BY <1>1, <5>1
        <5> QED BY <5>2
      <4> QED BY <2>1, <2>4, <4>1
    <3> QED BY <1>2, <2>2, <3>1
  <2> QED BY <2>3, <2>4
<1> QED BY <1>3, DefinedNext

LEMMA EndsPerform ==
  ASSUME PluginInv, ConditionInv, Perform, phase = "collect"
  PROVE  EndsNoted'
<1> DEFINE c == Head(todo)
<1>1. /\ todo # <<>> /\ Make(c) /\ todo' = Tail(todo) /\ UNCHANGED <<atEnd, guards, handled>>
      /\ Calling /\ Reading /\ Banded /\ Asking /\ Inv
  BY DEF Perform, PluginInv, Lexing, clang
<1>2. /\ c = todo[1]
      /\ \A j \in DOMAIN todo : j # 1 => \E i \in DOMAIN todo' : j = i + 1
      /\ \A i \in DOMAIN todo' : todo'[i] = todo[i + 1]
  BY <1>1, RestOfCalls
<1>3. /\ \A j \in DOMAIN extra.endif : j \in DOMAIN extra'.endif
                                        /\ extra'.endif[j] = extra.endif[j]
      /\ c.op = "endif" => \E j \in DOMAIN extra'.endif : extra'.endif[j] = RangeOf(c.user)
  <2>1. CASE c.op \in {"ask", "skip"}
    <3>1. UNCHANGED vars
      BY <1>1, <2>1 DEF Make
    <3> QED BY <2>1, <3>1 DEF vars
  <2>2. CASE c.op \notin {"ask", "skip"}
    <3>1. extra.endif \in Seq(SourceRange) /\ RangeOf(c.user) \in SourceRange
      BY <1>1, NextCall DEF Inv, TypeOK
    <3> HIDE DEF c
    <3> QED BY <1>1, <2>2, <3>1, CallNotes
  <2> QED BY <2>1, <2>2
<1>4. /\ c.user.n \in DOMAIN band' /\ DOMAIN band \subseteq DOMAIN band'
  BY <1>1, OneAsked
<1>5. \A r : r.n \in DOMAIN band' => RangeOf(r)' = RangeOf(r)
  BY <1>1, RangeKept
<1> HIDE DEF c
<1>6. ASSUME NEW i \in DOMAIN atEnd'.endif, NEW r, r = atEnd'.endif[i], handled'
      PROVE  \/ IsGuard(r)'
             \/ \E j \in DOMAIN todo' : todo'[j].op = "endif" /\ todo'[j].user = r
             \/ r.n \in DOMAIN band' /\ \E j \in DOMAIN extra'.endif : extra'.endif[j] = RangeOf(r)'
  <2>1. \/ IsGuard(r)
        \/ \E j \in DOMAIN todo : todo[j].op = "endif" /\ todo[j].user = r
        \/ r.n \in DOMAIN band /\ \E j \in DOMAIN extra.endif : extra.endif[j] = RangeOf(r)
    BY <1>1, <1>6 DEF ConditionInv, EndsNoted
  <2>2. CASE IsGuard(r)
    BY <1>1, <2>2 DEF IsGuard
  <2>3. ASSUME NEW j \in DOMAIN todo, todo[j].op = "endif", todo[j].user = r
        PROVE  \/ \E k \in DOMAIN todo' : todo'[k].op = "endif" /\ todo'[k].user = r
               \/ r.n \in DOMAIN band'
                  /\ \E k \in DOMAIN extra'.endif : extra'.endif[k] = RangeOf(r)'
    BY <1>2, <1>3, <1>4, <1>5, <2>3
  <2>4. CASE r.n \in DOMAIN band /\ \E j \in DOMAIN extra.endif : extra.endif[j] = RangeOf(r)
    BY <1>3, <1>4, <1>5, <2>4
  <2> QED BY <2>1, <2>2, <2>3, <2>4
<1> QED BY <1>6, EndsNext

\* A call into the collector.
LEMMA ConditionPerform ==
  ASSUME PluginInv, ConditionInv, Perform, Moving
  PROVE  ConditionInv'
<1> DEFINE c == Head(todo)
           D == Conditionals(text)
           W == IfsSeen(text, file, stack, atEnd, band)
<1>1. /\ todo # <<>> /\ Make(c) /\ todo' = Tail(todo)
      /\ UNCHANGED <<text, file, stack, atEnd, guards, handled>>
  BY DEF Perform, clang
<1>2. /\ Calling /\ Reading /\ Banded /\ Asking /\ Inv /\ text \in Texts
      /\ AllBands(D) /\ \A d \in D, k \in Nat : InBand(d, k) \in D
  BY ConditionalsBands DEF PluginInv, Lexing, Reading, AllBands
<1>3. phase = "collect" /\ Excusing(W, D)
  BY <1>1 DEF ConditionInv
<1>4. EndsNoted' /\ DefinedMarked'
  BY <1>3, EndsPerform, DefinedPerform DEF ConditionInv
<1>5. PICK W2 : W2 = IfsSeen(text, file, stack, atEnd, band')
  OBVIOUS
<1>6. /\ DOMAIN band \subseteq DOMAIN band' /\ \A n \in DOMAIN band' : band'[n] = Band(n)
      /\ c.user.n \in DOMAIN band' /\ c.usee.n \in DOMAIN band'
  BY <1>2, OneAsked
<1>7. W \subseteq W2
  <2>1. /\ Onward(file, stack, file, stack)
        /\ KeepsIfs(text, file, stack, atEnd, file, stack, atEnd)
    BY <1>1 DEF Moving
  <2>2. \A n \in DOMAIN band : n \in DOMAIN band' /\ band'[n] = band[n]
    BY <1>6 DEF Band
  <2>3. DOMAIN band \subseteq DOMAIN file
    BY <1>2 DEF Banded
  <2> QED BY <1>5, <2>1, <2>2, <2>3, IfsSeenGrow
<1> HIDE DEF W, D, c
<1>8. Excusing(W2, D)
  BY <1>2, <1>3, <1>7, ExcusingStays
<1>9. /\ phase' = "collect" /\ Whole(g'.verts, W2, D)
      /\ \A list \in UseLists : extra'[list] \in Seq(Pos \X Excusable(g'.verts, W2, D))
      /\ EndifsOf(text)' /\ AtIncludes(text, inclusions \cup fileIncs)'
  <2>1. EndifsOf(text) /\ AtIncludes(text, inclusions \cup fileIncs)
    BY DEF ConditionInv
  <2>2. CASE c.op \in {"ask", "skip"}
    <3>1. UNCHANGED <<g, extra, phase, inclusions, fileIncs>>
      BY <1>1, <2>2 DEF Make, vars
    <3>2. EndifsOf(text)' /\ AtIncludes(text, inclusions \cup fileIncs)'
      BY <1>1, <2>1, <3>1 DEF EndifsOf, AtIncludes
    <3> QED BY <1>3, <1>8, <3>1, <3>2 DEF Excusing
  <2>3. CASE c.op \notin {"ask", "skip"}
    <3>1. /\ CallIn(text, file, stack, atEnd, c)
          /\ RangeOf(c.user) \in SourceRange /\ RangeOf(c.usee) \in SourceRange
      BY <1>1, <1>2, NextCall DEF c
    <3>2. ASSUME NEW r, r.n \in DOMAIN band', LexedIn(text, file, stack, r),
                 TouchedIn(text, file, stack, atEnd, r)
          PROVE  Excused(g.verts, W2, D, RangeOf(r))
      <4>1. /\ r \in PieceSet /\ r.beg < r.end /\ r.n \in DOMAIN file /\ file[r.n] \in Files
        BY <1>2, <3>2 DEF LexedIn, Reading
      <4>2. band'[r.n] = Band(r.n) /\ Band(r.n) \in Nat
        BY <1>2, <1>6, <3>2, BandIsNat
      <4> DEFINE x == RangeOf(r)
      <4>3. x.f = file[r.n] /\ x.k = band'[r.n] /\ x.beg = r.beg /\ x.end = r.end
        BY <4>2 DEF RangeOf
      <4>4. D \subseteq Conditionals(text)
        BY DEF D
      <4> HIDE DEF x
      <4>5. Excused(g.verts, IfsSeen(text, file, stack, atEnd, band'), D, x)
        BY <1>2, <3>2, <4>1, <4>2, <4>3, <4>4, TouchedExcused
      <4> QED BY <1>5, <4>5 DEF x
    <3>3. c.op # "endif" => /\ Excused(g.verts, W2, D, RangeOf(c.user))
                            /\ Excused(g.verts, W2, D, RangeOf(c.usee))
      BY <1>6, <2>3, <3>1, <3>2 DEF CallIn
    <3>4. c.op = "defined" => Excused(g.verts, W2, D, InBand(RangeOf(c.usee), 0))
      <4>1. c = todo[1] /\ 1 \in DOMAIN todo
        BY <1>1, <1>2, RestOfCalls DEF c
      <4>2. c.op = "defined" => Marked(g.verts, RangeOf(c.usee))
        BY <4>1 DEF ConditionInv, DefinedMarked
      <4>3. g.verts \subseteq SourceRange
        BY <1>2, InvIsGood DEF IsGraph
      <4> QED BY <1>2, <3>1, <3>3, <4>2, <4>3, LowestExcused
    <3> DEFINE user == RangeOf(c.user)
               usee == RangeOf(c.usee)
               E == {r \in SourceRange : IfSpan(text, r)}
    <3>5. user.f = file[c.user.n] /\ user.beg = c.user.beg /\ user.end = c.user.end
      BY DEF RangeOf
    <3>6. c.op = "endif" => user \in E
      BY <3>1, <3>5 DEF CallIn, IfRange, IfSpan
    <3>7. /\ user \in SourceRange /\ usee \in SourceRange
          /\ user = RangeOf(c.user) /\ usee = RangeOf(c.usee)
      BY <3>1
    <3>8. c.op # "endif" => Excused(g.verts, W2, D, user) /\ Excused(g.verts, W2, D, usee)
      BY <3>3
    <3>9. c.op = "defined" => Excused(g.verts, W2, D, InBand(usee, 0))
      BY <3>4
    <3>10. extra.endif \in Seq(E)
      BY <2>1 DEF EndifsOf
    <3> HIDE DEF user, usee, E
    <3>11. /\ phase' = "collect" /\ Whole(g'.verts, W2, D)
           /\ \A list \in UseLists : extra'[list] \in Seq(Pos \X Excusable(g'.verts, W2, D))
      BY <1>1, <1>2, <1>8, <2>3, <3>7, <3>8, <3>9, CallExcusing
    <3>12. /\ extra'.endif \in Seq(E)
           /\ \/ UNCHANGED <<inclusions, fileIncs>>
              \/ /\ c.op = "inclusion" /\ UNCHANGED fileIncs
                 /\ inclusions' = inclusions \cup {<<Begin(user), c.what>>}
      BY <1>1, <1>2, <2>3, <3>6, <3>7, <3>10, CallNotes
    <3>13. EndifsOf(text)'
      BY <1>1, <3>12 DEF EndifsOf, E
    <3>14. c.op = "inclusion" => text[Begin(user).f][Begin(user).p + 1].op = "include"
      BY <3>1, <3>5 DEF CallIn, Begin
    <3>15. AtIncludes(text, inclusions \cup fileIncs)'
      <4> SUFFICES ASSUME NEW x \in inclusions' \cup fileIncs'
                   PROVE  text[x[1].f][x[1].p + 1].op = "include"
        BY <1>1 DEF AtIncludes
      <4>1. x \in inclusions \cup fileIncs \/ (c.op = "inclusion" /\ x = <<Begin(user), c.what>>)
        BY <3>12
      <4> QED BY <2>1, <3>14, <4>1 DEF AtIncludes
    <3> QED BY <3>11, <3>13, <3>15
  <2> QED BY <2>2, <2>3
<1>10. W2 = IfsSeen(text, file, stack, atEnd, band)' /\ D = Conditionals(text)'
  BY <1>1, <1>5 DEF D
<1>11. Excusing(IfsSeen(text, file, stack, atEnd, band), Conditionals(text))'
  BY <1>9, <1>10 DEF Excusing
<1> QED BY <1>4, <1>9, <1>11 DEF ConditionInv

\* Once finalize runs clang has read everything, and no call is left to be made.
LEMMA AfterCollect ==
  ASSUME Lexing, handled, todo = <<>>, [PluginNext]_pluginVars
  PROVE  FinalizeRuns \/ UNCHANGED pluginVars
<1>1. stack = <<>> /\ Len(stack) = 0 /\ expanding = <<>>
  BY DEF Lexing, Reading, Expanding
<1> QED
  BY <1>1 DEF PluginNext, Perform, MacroDefined, MacroUndefined, MacroExpands, NestedMacroExpands,
              If, Else, EndifSeen, InclusionDirective, FileChanged, DeclBegins, DeclRefers,
              DeclEnds, EndOfMain, HandleTranslationUnit, Lexes

\* When clang is at the end of everything, the range of every conditional that was seen and is
\* no guard is among those to be joined.
LEMMA AllWait ==
  ASSUME PluginInv, ConditionInv, handled, todo = <<>>, phase = "collect"
  PROVE  \A c \in Unguarded :
           c \in IfsSeen(text, file, stack, atEnd, band) => c \in Waiting(extra.endif)
<1> SUFFICES ASSUME NEW c \in Unguarded, c \in IfsSeen(text, file, stack, atEnd, band)
             PROVE  c \in Waiting(extra.endif)
  OBVIOUS
<1>1. Reading /\ Banded /\ stack = <<>> /\ DOMAIN stack = {} /\ EndsNoted
  <2>1. Reading /\ Banded /\ stack = <<>> /\ EndsNoted
    BY DEF PluginInv, Lexing, Reading, ConditionInv
  <2> QED BY <2>1
<1>2. PICK r \in PieceSet :
        /\ r.n \in DOMAIN band /\ IfRange(text, file, r)
        /\ SeenIf(text, file, stack, atEnd, r.n, r.beg)
        /\ c = [f |-> file[r.n], k |-> band[r.n], beg |-> r.beg, end |-> r.end]
  BY DEF IfsSeen
<1>3. PICK i \in DOMAIN atEnd.endif :
        atEnd.endif[i] = Piece(r.n, r.beg, Match(text[file[r.n]], r.beg) + 1)
  BY <1>1, <1>2 DEF SeenIf
<1>4. r = Piece(r.n, r.beg, r.end) /\ atEnd.endif[i] = r
  <2>1. r = Piece(r.n, r.beg, r.end)
    BY DEF PieceSet, Piece
  <2>2. r.end = Match(text[file[r.n]], r.beg) + 1
    BY <1>2 DEF IfRange
  <2> QED BY <1>3, <2>1, <2>2
<1>5. c = RangeOf(r) /\ c.f = file[r.n] /\ c.beg = r.beg /\ c.end = r.end
  BY <1>2 DEF RangeOf, Band
<1>6. ~IsGuard(r)
  <2>1. IsGuard(r) => Guarded(c)
    BY <1>1, <1>2, <1>4, <1>5 DEF Guarded, Banded
  <2> QED BY <2>1 DEF Unguarded
<1>7. ~\E j \in DOMAIN todo : todo[j].op = "endif" /\ todo[j].user = r
  OBVIOUS
<1>8. \E j \in DOMAIN extra.endif : extra.endif[j] = RangeOf(r)
  BY <1>1, <1>4, <1>6, <1>7 DEF EndsNoted
<1> QED BY <1>5, <1>8 DEF Waiting

LEMMA ConditionFinalize ==
  ASSUME PluginInv, ConditionInv, FinalizeRuns
  PROVE  ConditionInv'
<1> DEFINE D == Unguarded
<1>1. /\ FinalizeStep /\ todo = <<>> /\ handled
      /\ UNCHANGED <<text, file, stack, atEnd, guards, band, todo, handled>>
  BY DEF FinalizeRuns, clang, plugin
<1>2. /\ Inv /\ Banded /\ text \in Texts /\ D \subseteq Conditionals(text) /\ AllBands(D)
      /\ \A c \in D, k \in Nat : InBand(c, k) \in D
  BY UnguardedBands DEF PluginInv, Lexing, Reading
<1>3. /\ EndifsOf(text) /\ AtIncludes(text, inclusions \cup fileIncs)
      /\ AtIncludes(text, fileIncs)
  BY DEF ConditionInv, AtIncludes
<1>4. UNCHANGED Unguarded
  BY <1>1 DEF Unguarded, Guarded, IsGuard
<1>5. AtIncludes(text, inclusions \cup fileIncs)'
  <2>1. \/ UNCHANGED <<inclusions, fileIncs>>
        \/ inclusions' = inclusions /\ fileIncs' = fileIncs \cup inclusions
    BY <1>1 DEF FinalizeStep, Finalize, ExtraUse, ExtraUsesDone, ProcessInclusions, ProcessEndif,
                FinalizeDone, FixupStaticFunctions
  <2> QED BY <1>1, <1>3, <2>1 DEF AtIncludes
<1>6. phase' # "collect"
  BY <1>1 DEF FinalizeStep, Finalize, ExtraUse, ExtraUsesDone, ProcessInclusions, ProcessEndif,
              FinalizeDone, FixupStaticFunctions, Following
<1>7. EndsNoted' /\ DefinedMarked'
  <2>1. DOMAIN todo' = {}
    BY <1>1
  <2> QED BY <1>6, <2>1 DEF EndsNoted, DefinedMarked
<1>8. phase = "collect" => Excusing(Waiting(extra.endif), D)
  <2> SUFFICES ASSUME phase = "collect" PROVE Excusing(Waiting(extra.endif), D)
    OBVIOUS
  <2> DEFINE E == Conditionals(text)
             W == IfsSeen(text, file, stack, atEnd, band)
             W2 == Waiting(extra.endif)
  <2>1. Excusing(W, E) /\ AllBands(E)
    BY ConditionalsBands DEF ConditionInv
  <2>2. \A c \in D : c \in W => c \in W2
    BY <1>1, AllWait
  <2>3. D \in SUBSET E
    BY <1>2
  <2> HIDE DEF D, E, W, W2
  <2>4. Excusing(W2, D)
    BY <1>2, <2>1, <2>2, <2>3, ExcusingStays
  <2> QED BY <2>4 DEF W2
<1>9. Excusing(Waiting(extra.endif), D)
  BY <1>8 DEF ConditionInv
<1> HIDE DEF D
<1>10. /\ Whole(g'.verts, Waiting(extra'.endif), D)
       /\ phase' \in {"collect"} \cup UseLists =>
            \A list \in UseLists :
              extra'[list] \in Seq(Pos \X Excusable(g'.verts, Waiting(extra'.endif), D))
       /\ extra'.endif \in Seq({r \in SourceRange : IfSpan(text, r)})
       /\ phase' \in {"fixup", "done"} => extra'.endif = <<>>
  <2>1. CASE phase = "collect"
    <3>1. UNCHANGED <<g, extra>> /\ phase' = "defined" /\ phase \in {"collect"} \cup UseLists
      BY <1>1, <2>1 DEF FinalizeStep, Finalize, ExtraUse, ExtraUsesDone, ProcessInclusions,
                        ProcessEndif, FinalizeDone, FixupStaticFunctions
    <3> QED BY <1>3, <1>9, <3>1 DEF Excusing, EndifsOf
  <2>2. CASE phase # "collect" /\ ~ProcessEndif
    <3>1. PICK W : W = Waiting(extra.endif)
      OBVIOUS
    <3>2. /\ Whole(g'.verts, W, D)
          /\ phase' \in {"collect"} \cup UseLists =>
               \A list \in UseLists : extra'[list] \in Seq(Pos \X Excusable(g'.verts, W, D))
          /\ extra'.endif = extra.endif
      BY <1>1, <1>2, <1>9, <2>2, <3>1, FinalizeExcusing
    <3>3. phase' \in {"fixup", "done"} => extra.endif = <<>>
      <4>1. phase' \in {"fixup", "done"} =>
              phase \in {"fixup", "done"} \/ (phase = "endif" /\ extra.endif = <<>>)
        BY <1>1, <2>2 DEF FinalizeStep, Finalize, ExtraUse, ExtraUsesDone, ProcessInclusions,
                          FinalizeDone, FixupStaticFunctions, Following
      <4> QED BY <4>1 DEF ConditionInv
    <3> QED BY <1>3, <3>1, <3>2, <3>3 DEF EndifsOf
  <2>3. CASE ProcessEndif
    <3>1. /\ Whole(g'.verts, Waiting(extra'.endif), D)
          /\ extra'.endif \in Seq({r \in SourceRange : IfSpan(text, r)})
          /\ phase' = "endif"
      BY <1>2, <1>3, <1>9, <2>3, EndifExcusing
    <3>2. phase' \notin {"collect"} \cup UseLists /\ phase' \notin {"fixup", "done"}
      BY <3>1 DEF UseLists
    <3> QED BY <3>1, <3>2
  <2> QED BY <2>1, <2>2, <2>3
<1>11. Excusing(Waiting(extra.endif), Unguarded)'
  BY <1>4, <1>10 DEF Excusing, D
<1>12. EndifsOf(text)'
  BY <1>1, <1>10 DEF EndifsOf
<1> QED BY <1>1, <1>5, <1>6, <1>7, <1>10, <1>11, <1>12 DEF ConditionInv

\* The last of the calls at the end are those for the #endif's.
LEMMA EndsAtEnd ==
  ASSUME Late, HandleTranslationUnit
  PROVE  EndsNoted'
<1> DEFINE conditions(list) == [i \in DOMAIN atEnd[list] |->
                                 CallAtEnd(list, atEnd[list][i].user, atEnd[list][i].usee)]
           a == conditions("ifndef")
           b == conditions("ifdef")
           e == [i \in DOMAIN atEnd.endif |->
                  CallAtEnd("endif", atEnd.endif[i], atEnd.endif[i])]
           U == Uses(text, file, stack, atEnd)
           E == Ends(text, file, stack)
<1>1. UNCHANGED <<atEnd, guards, band, extra>> /\ todo' = a \o b \o e
  BY DEF HandleTranslationUnit, clang, vars
<1>2. atEnd.ifndef \in Seq(U) /\ atEnd.ifdef \in Seq(U) /\ atEnd.endif \in Seq(E)
  <2> DEFINE B == Seq(U)
             C == Seq(E)
  <2>1. atEnd \in [ifndef : B, ifdef : B, endif : C]
    BY DEF Late
  <2> HIDE DEF B, C
  <2>2. atEnd.ifndef \in B /\ atEnd.ifdef \in B /\ atEnd.endif \in C
    BY <2>1
  <2> QED BY <2>2 DEF B, C
<1> HIDE DEF U, E
<1>3. ASSUME NEW S, NEW s \in Seq(S), NEW f, f = [i \in DOMAIN s |-> f[i]]
      PROVE  f \in Seq({f[i] : i \in DOMAIN s}) /\ DOMAIN f = DOMAIN s
  <2>1. Len(s) \in Nat /\ DOMAIN s = 1 .. Len(s)
    BY SeqParts
  <2>2. f \in [1 .. Len(s) -> {f[i] : i \in DOMAIN s}] /\ DOMAIN f = DOMAIN s
    BY <1>3, <2>1
  <2> QED BY <2>1, <2>2
<1>4. \E A, B, C : /\ a \in Seq(A) /\ b \in Seq(B) /\ e \in Seq(C)
                   /\ DOMAIN e = DOMAIN atEnd.endif
  <2>1. /\ a = [i \in DOMAIN atEnd.ifndef |-> a[i]]
        /\ b = [i \in DOMAIN atEnd.ifdef |-> b[i]]
        /\ e = [i \in DOMAIN atEnd.endif |-> e[i]]
    OBVIOUS
  <2> HIDE DEF a, b, e
  <2>2. \E A : a \in Seq(A)
    BY <1>2, <1>3, <2>1, Zenon
  <2>3. \E B : b \in Seq(B)
    BY <1>2, <1>3, <2>1, Zenon
  <2>4. \E C : e \in Seq(C) /\ DOMAIN e = DOMAIN atEnd.endif
    BY <1>2, <1>3, <2>1, Zenon
  <2> QED BY <2>2, <2>3, <2>4
<1>5. \A i \in DOMAIN atEnd.endif : e[i] = CallAtEnd("endif", atEnd.endif[i], atEnd.endif[i])
  OBVIOUS
<1> HIDE DEF a, b, e
<1>6. \A i \in DOMAIN e : \E j \in DOMAIN todo' : todo'[j] = e[i]
  <2>1. PICK A, B, C : a \in Seq(A) /\ b \in Seq(B) /\ e \in Seq(C)
    BY <1>4
  <2> DEFINE T == (A \cup B) \cup C
             h == a \o b
  <2>2. a \in Seq(T) /\ b \in Seq(T) /\ e \in Seq(T)
    <3>1. A \subseteq T /\ B \subseteq T /\ C \subseteq T
      OBVIOUS
    <3> HIDE DEF T
    <3>2. Seq(A) \subseteq Seq(T) /\ Seq(B) \subseteq Seq(T) /\ Seq(C) \subseteq Seq(T)
      BY <3>1, SeqOfMore
    <3> QED BY <2>1, <3>2
  <2> HIDE DEF T
  <2>3. h \in Seq(T) /\ todo' = h \o e
    BY <1>1, <2>2, SomeCalls
  <2> HIDE DEF h
  <2>4. ASSUME NEW i \in DOMAIN e
        PROVE  Len(h) + i \in DOMAIN (h \o e) /\ (h \o e)[Len(h) + i] = e[i]
    BY <2>2, <2>4
  <2> QED BY <2>3, <2>4
<1>7. ASSUME NEW i \in DOMAIN atEnd'.endif, NEW r, r = atEnd'.endif[i]
      PROVE  \/ IsGuard(r)'
             \/ \E j \in DOMAIN todo' : todo'[j].op = "endif" /\ todo'[j].user = r
  <2>1. i \in DOMAIN e /\ e[i] = CallAtEnd("endif", r, r)
    BY <1>1, <1>4, <1>5, <1>7
  <2>2. IsGuard(r) \/ (e[i].op = "endif" /\ e[i].user = r)
    BY <2>1 DEF CallAtEnd, CallOf
  <2>3. IsGuard(r) => IsGuard(r)'
    BY <1>1 DEF IsGuard
  <2> QED BY <1>6, <2>1, <2>2, <2>3
<1> QED BY <1>7, EndsNext

\* Only #if defined() leads to a call about the lowest band, after one that marks what it is
\* about.
LEMMA DefinedStands ==
  ASSUME PluginInv, DefinedMarked, Moving, Lexing', [PluginNext]_pluginVars, todo = <<>>
  PROVE  DefinedMarked'
<1>1. DOMAIN todo = {}
  OBVIOUS
<1>2. CASE AllPlain'
  BY <1>2 DEF AllPlain, DefinedMarked
<1>3. CASE UNCHANGED todo
  BY <1>1, <1>3 DEF DefinedMarked
<1>4. CASE MacroDefined
  <2>1. \A i \in DOMAIN todo' : todo'[i].op # "defined"
    BY <1>4 DEF MacroDefined, CodeCall, CallOf
  <2> QED BY <2>1 DEF DefinedMarked
<1>5. CASE If
  <2> DEFINE usee == macro[Item.arg]
             d == CallOf("defined", This, usee, None)
  <2>1. todo' = ConditionCalls(Item.op, usee)
    BY <1>5 DEF If
  <2>2. ASSUME NEW i \in DOMAIN todo', NEW x, x = todo'[i].usee, todo'[i].op = "defined"
        PROVE  i > 1 /\ todo'[i - 1].op = "use" /\ todo'[i - 1].usee = x
    <3>1. CASE todo' = <<UseCall(This, usee), d>>
      <4>1. i \in {1, 2} /\ todo'[1] = UseCall(This, usee) /\ todo'[2] = d
        BY <3>1
      <4>2. /\ UseCall(This, usee).op = "use" /\ UseCall(This, usee).usee = usee
            /\ d.usee = usee
        BY DEF UseCall, CallOf
      <4>3. i = 2 /\ x = usee
        BY <2>2, <4>1, <4>2
      <4> QED BY <4>1, <4>2, <4>3
    <3>2. CASE todo' # <<UseCall(This, usee), d>>
      <4>1. todo' = <<>> \/ todo' = <<Ask(This)>> \/ todo' = <<UseCall(This, usee)>>
        <5>1. \/ todo' = <<>> \/ todo' = <<Ask(This)>>
              \/ todo' = <<UseCall(This, usee)>> \o <<>>
              \/ todo' = <<UseCall(This, usee)>> \o <<d>>
          BY <2>1 DEF ConditionCalls
        <5> QED BY <3>2, <5>1
      <4> QED BY <2>2, <4>1 DEF Ask, UseCall, CallOf
    <3> QED BY <3>1, <3>2
  <2> QED BY <2>2, DefinedNext
<1>6. ~Perform
  BY DEF Perform
<1> QED BY <1>2, <1>3, <1>4, <1>5, <1>6, AskingStep DEF PluginInv

\* Every other step leaves the collector as it is.
LEMMA ConditionStands ==
  ASSUME PluginInv, Lexing', ConditionInv, Moving, [PluginNext]_pluginVars, UNCHANGED vars,
         ~Perform, ~FinalizeRuns
  PROVE  ConditionInv'
<1> DEFINE D == Conditionals(text)
           W == IfsSeen(text, file, stack, atEnd, band)
<1>1. CASE UNCHANGED pluginVars
  <2>1. /\ UNCHANGED <<text, file, stack, atEnd, band, guards, handled, todo>>
        /\ UNCHANGED <<g, phase, extra, inclusions, fileIncs>>
    BY <1>1 DEF pluginVars, clang, plugin, vars
  <2>2. EndsNoted' /\ DefinedMarked'
    <3>1. EndsNoted /\ DefinedMarked
      BY DEF ConditionInv
    <3>2. \A r : /\ RangeOf(r)' = RangeOf(r)
                 /\ IsGuard(r) => IsGuard(r)'
      BY <2>1 DEF RangeOf, Band, IsGuard
    <3>3. EndsNoted'
      <4>1. ASSUME NEW i \in DOMAIN atEnd'.endif, NEW r, r = atEnd'.endif[i],
                   handled', phase' = "collect"
            PROVE  \/ IsGuard(r)'
                   \/ \E j \in DOMAIN todo' : todo'[j].op = "endif" /\ todo'[j].user = r
                   \/ /\ r.n \in DOMAIN band'
                      /\ \E j \in DOMAIN extra'.endif : extra'.endif[j] = RangeOf(r)'
        BY <2>1, <3>1, <3>2, <4>1 DEF EndsNoted
      <4> QED BY <4>1, EndsNext
    <3>4. DefinedMarked'
      <4>1. ASSUME NEW i \in DOMAIN todo', NEW x, x = todo'[i].usee, todo'[i].op = "defined"
            PROVE  \/ i = 1 /\ x.n \in DOMAIN band' /\ Marked(g'.verts, RangeOf(x)')
                   \/ i > 1 /\ todo'[i - 1].op = "use" /\ todo'[i - 1].usee = x
        BY <2>1, <3>1, <3>2, <4>1 DEF DefinedMarked
      <4> QED BY <4>1, DefinedNext
    <3> QED BY <3>3, <3>4
  <2>3. UNCHANGED Unguarded
    BY <2>1 DEF Unguarded, Guarded, IsGuard
  <2>4. /\ Excusing(W, D) => Excusing(W, D)'
        /\ Excusing(Waiting(extra.endif), Unguarded) => Excusing(Waiting(extra.endif), Unguarded)'
    BY <2>1, <2>3 DEF Excusing
  <2> QED BY <2>1, <2>2, <2>4 DEF ConditionInv, EndifsOf, AtIncludes
<1>2. CASE ~UNCHANGED pluginVars
  <2>1. UNCHANGED band /\ todo = <<>> /\ ~handled /\ phase = "collect"
    BY <1>2, OnlyCallsAsk, AfterCollect DEF PluginInv, ConditionInv
  <2>2. UNCHANGED <<g, phase, extra, inclusions, fileIncs>> /\ UNCHANGED text
    BY DEF vars, Moving
  <2>3. PICK W2 : W2 = IfsSeen(text, file', stack', atEnd', band')
    OBVIOUS
  <2>4. W \subseteq W2
    <3>1. DOMAIN band \subseteq DOMAIN file
      BY DEF PluginInv, Banded
    <3> QED BY <2>1, <2>3, <3>1, IfsSeenGrow DEF Moving
  <2>5. Inv /\ AllBands(D) /\ Excusing(W, D) /\ \A d \in D, k \in Nat : InBand(d, k) \in D
    BY <2>1, ConditionalsBands DEF PluginInv, ConditionInv, AllBands
  <2> HIDE DEF W, D
  <2>6. Excusing(W2, D)
    BY <2>4, <2>5, ExcusingStays
  <2>7. W2 = IfsSeen(text, file, stack, atEnd, band)' /\ D = Conditionals(text)'
    BY <2>2, <2>3 DEF D
  <2>8. Excusing(IfsSeen(text, file, stack, atEnd, band), Conditionals(text))'
    BY <2>2, <2>6, <2>7 DEF Excusing
  <2>9. DefinedMarked'
    BY <2>1, DefinedStands DEF ConditionInv
  <2>10. EndsNoted'
    <3>1. handled' => HandleTranslationUnit
      BY <1>2, <2>1 DEF PluginNext, MacroDefined, MacroUndefined, MacroExpands, NestedMacroExpands,
                  If, Else, EndifSeen, InclusionDirective, FileChanged, DeclBegins, DeclRefers,
                  DeclEnds, EndOfMain, plugin
    <3>2. HandleTranslationUnit => EndsNoted'
      BY EndsAtEnd DEF PluginInv, Lexing
    <3>3. ~handled' => EndsNoted'
      BY DEF EndsNoted
    <3> QED BY <3>1, <3>2, <3>3
  <2> QED BY <2>1, <2>2, <2>8, <2>9, <2>10 DEF ConditionInv, EndifsOf, AtIncludes
<1> QED BY <1>1, <1>2

LEMMA ConditionStep ==
  ASSUME PluginInv, ConditionInv, [PluginNext]_pluginVars
  PROVE  ConditionInv'
<1>1. Lexing /\ Lexing' /\ Moving /\ Banded
  BY LexingStep DEF PluginInv
<1>2. \/ Perform
      \/ FinalizeRuns
      \/ UNCHANGED vars
  BY <1>1, CollectorMoves
<1> QED BY <1>1, <1>2, ConditionPerform, ConditionFinalize, ConditionStands

LEMMA ConditionInit == PluginInit => ConditionInv
<1> SUFFICES ASSUME PluginInit PROVE ConditionInv
  OBVIOUS
<1>1. /\ g.verts = {} /\ todo = <<>> /\ ~handled /\ phase = "collect" /\ inclusions = {}
      /\ extra = [defined |-> <<>>, ifndef |-> <<>>, ifdef |-> <<>>, endif |-> <<>>]
      /\ fileIncs = {}
  BY DEF PluginInit, Init, EmptyGraph
<1>2. EndsNoted /\ DefinedMarked
  <2>1. DOMAIN todo = {}
    BY <1>1
  <2> QED BY <1>1, <2>1 DEF EndsNoted, DefinedMarked
<1>3. EndifsOf(text) /\ AtIncludes(text, inclusions \cup fileIncs)
  <2>1. extra.endif = <<>>
    BY <1>1
  <2> QED BY <1>1, <2>1, SomeCalls DEF EndifsOf, AtIncludes
<1>4. ASSUME NEW W, NEW D PROVE Excusing(W, D)
  <2> DEFINE S == Seq(Pos \X Excusable(g.verts, W, D))
  <2>1. <<>> \in S
    BY SomeCalls
  <2> HIDE DEF S
  <2>2. \A list \in UseLists : extra[list] \in S
    BY <1>1, <2>1 DEF UseLists
  <2> QED BY <1>1, <2>2 DEF Excusing, Whole, S
<1> QED BY <1>1, <1>2, <1>3, <1>4 DEF ConditionInv

\* In the end nothing waits, so no piece reaches into a conditional without enclosing it.
LEMMA ConditionsInTheEnd ==
  ASSUME PluginInv, ConditionInv
  PROVE  ConditionalsAreWhole
<1> SUFFICES ASSUME phase = "done", NEW n \in DOMAIN file, NEW p \in DOMAIN text[file[n]],
                    text[file[n]][p].op \in Ifs
             PROVE  LET t == text[file[n]]
                        r == Piece(n, p - 1, Match(t, p - 1) + 1)
                    IN \/ \E m \in DOMAIN file :
                            file[m] = file[n] /\ IsGuard(Piece(m, r.beg, r.end))
                       \/ \E i \in r.beg .. r.end - 1 : t[i + 1].op = "include"
                       \/ \A v \in g.verts : Overlap(v, RangeOf(r)) => Encloses(v, RangeOf(r))
  BY DEF ConditionalsAreWhole
<1> DEFINE t == text[file[n]]
           r == Piece(n, p - 1, Match(t, p - 1) + 1)
           c == RangeOf(r)
<1>1. /\ Reading /\ Banded /\ text \in Texts /\ n \in Nat /\ file[n] \in Files
  BY StackParts DEF PluginInv, Lexing, Reading
<1>2. /\ Len(t) \in Nat /\ DOMAIN t = 1 .. Len(t) /\ Len(t) <= Size[file[n]] /\ Balanced(t)
  BY <1>1, TextParts
<1>3. IsIf(t, p - 1) /\ p - 1 \in Nat /\ (p - 1) + 1 = p
  BY <1>2 DEF IsIf
<1>4. Match(t, p - 1) \in p .. Len(t) - 1 /\ Match(t, p - 1) \in Nat
  BY <1>2, <1>3, MatchCloses
<1>5. /\ r.n = n /\ r.beg = p - 1 /\ r.end = Match(t, p - 1) + 1
      /\ r.beg \in Nat /\ r.end \in Nat /\ r.beg < r.end /\ r.end <= Size[file[n]]
  <2>1. Size[file[n]] \in Nat
    BY <1>1, SizeAssumption
  <2> DEFINE m == Match(t, p - 1)
  <2>2. r = [n |-> n, beg |-> p - 1, end |-> m + 1]
    BY DEF Piece
  <2>3. r.n = n /\ r.beg = p - 1 /\ r.end = m + 1
    BY <2>2
  <2>4. m \in Nat /\ m >= p /\ m <= Len(t) - 1 /\ p \in Nat /\ p - 1 \in Nat
    BY <1>2, <1>3, <1>4
  <2> HIDE DEF r, m, t
  <2> QED BY <1>2, <2>1, <2>3, <2>4 DEF m
<1>6. c = [f |-> file[n], k |-> Band(n), beg |-> r.beg, end |-> r.end] /\ Band(n) \in Nat
  BY <1>1, <1>5, BandIsNat DEF RangeOf
<1>7. c \in SourceRange /\ c.f = file[n] /\ c.k = Band(n) /\ c.beg = r.beg /\ c.end = r.end
  BY <1>1, <1>5, <1>6 DEF SourceRange
<1>8. IfSpan(text, c)
  BY <1>3, <1>5, <1>7 DEF IfSpan
<1> HIDE DEF c, r
<1>9. c \in Unguarded => \A v \in g.verts : Overlap(v, c) => Encloses(v, c)
  <2>1. Whole(g.verts, Waiting(extra.endif), Unguarded) /\ extra.endif = <<>>
    BY DEF ConditionInv, Excusing
  <2>2. Waiting(extra.endif) = {}
    BY <2>1 DEF Waiting
  <2> QED BY <2>1, <2>2 DEF Whole, Excused, Cuts
<1>10. Guarded(c) => \E m \in DOMAIN file : file[m] = file[n] /\ IsGuard(Piece(m, r.beg, r.end))
  BY <1>7 DEF Guarded
<1>11. c \notin Conditionals(text) => \E i \in r.beg .. r.end - 1 : t[i + 1].op = "include"
  BY <1>7, <1>8 DEF Conditionals
<1> QED BY <1>9, <1>10, <1>11 DEF Unguarded, c, r

\* No piece of code begins or ends inside a conditional, but for guards of headers and
\* conditionals around an #include: pieces are joined across every conditional that code is
\* in, in every inclusion of its file, even when code<true> marks the text of one inclusion in
\* all those before it; and no piece is marked later that reaches into a conditional again.
THEOREM ConditionalsStayWhole == PluginSpec => []ConditionalsAreWhole
<1>1. PluginInit => ConditionInv
  BY ConditionInit
<1>2. PluginInv /\ ConditionInv /\ [PluginNext]_pluginVars => ConditionInv'
  BY ConditionStep
<1>3. PluginInv /\ ConditionInv => ConditionalsAreWhole
  BY ConditionsInTheEnd
<1> QED BY <1>1, <1>2, <1>3, PluginInvariance, PTL DEF PluginSpec

-----------------------------------------------------------------------------
(* The users of a definition that is replaced.                             *)

\* Code at x leads to code at y, or is one piece with it.
Leading(h, x, y) ==
  \E a, b \in h.verts : Within(x, a) /\ Within(y, b) /\ (a = b \/ <<a, b>> \in DOMAIN h.edge)

Together(h, x, y) == \E a \in h.verts : Within(x, a) /\ Within(y, a)

\* The piece at y uses that at x.
Turned(h, U, x, y) == \E w \in U : Together(h, w[2], x) /\ Together(h, w[1], y)

\* Every use has its edge, unless a use in the other direction has replaced it.
Directed(h, U) == \A u \in U : Leading(h, u[1], u[2]) \/ Turned(h, U, u[1], u[2])

\* What NextDefinitionFollows asks of x, which uses the definition at d, and of the next
\* definition, at e.
Follows(h, U, x, d, e) == Connected(h, x, e) \/ Together(h, x, d) \/ Turned(h, U, x, d)

\* Larger pieces and more uses keep this.
LEMMA TogetherKept ==
  ASSUME NEW h, NEW h2, h.verts \subseteq SourceRange, h2.verts \subseteq SourceRange,
         \A v \in h.verts : \E w \in h2.verts : Encloses(w, v),
         NEW U \in SUBSET (Pos \X Pos), NEW U2, U \subseteq U2,
         NEW x \in Pos, NEW y \in Pos
  PROVE  /\ Together(h, x, y) => Together(h2, x, y)
         /\ Turned(h, U, x, y) => Turned(h2, U2, x, y)
<1>1. ASSUME NEW u \in Pos, NEW v \in Pos, Together(h, u, v)
      PROVE  Together(h2, u, v)
  <2>1. PICK a \in h.verts : Within(u, a) /\ Within(v, a) BY <1>1 DEF Together
  <2>2. PICK b \in h2.verts : Encloses(b, a) BY <2>1
  <2>3. a \in SourceRange /\ b \in SourceRange BY <2>1, <2>2
  <2>4. Within(u, b) /\ Within(v, b) BY <2>1, <2>2, <2>3, WithinEnclosing
  <2> QED BY <2>2, <2>4 DEF Together
<1>2. ASSUME Turned(h, U, x, y)
      PROVE  Turned(h2, U2, x, y)
  <2>1. PICK w \in U : Together(h, w[2], x) /\ Together(h, w[1], y) BY <1>2 DEF Turned
  <2>2. w[1] \in Pos /\ w[2] \in Pos /\ w \in U2 BY <2>1
  <2>3. Together(h2, w[2], x) /\ Together(h2, w[1], y) BY <1>1, <2>1, <2>2
  <2> QED BY <2>2, <2>3 DEF Turned
<1> QED BY <1>1, <1>2

LEMMA FollowsKept ==
  ASSUME NEW h, NEW h2, IsGraph(h), IsGraph(h2),
         \A v \in h.verts : \E w \in h2.verts : Encloses(w, v),
         \A a, b \in Pos : Connected(h, a, b) => Connected(h2, a, b),
         NEW U \in SUBSET (Pos \X Pos), NEW U2, U \subseteq U2,
         NEW x \in Pos, NEW d \in Pos, NEW e \in Pos, Follows(h, U, x, d, e)
  PROVE  Follows(h2, U2, x, d, e)
<1>1. h.verts \subseteq SourceRange /\ h2.verts \subseteq SourceRange BY DEF IsGraph
<1> QED BY <1>1, TogetherKept DEF Follows

\* Marking code moves the edges along.
LEMMA CodeDirected ==
  ASSUME NEW h, Good(h), NEW r \in SourceRange, NEW U \in SUBSET (Pos \X Pos), Directed(h, U)
  PROVE  Directed(Code(h, r), U)
<1> DEFINE bands == 0 .. r.k
           k == Code(h, r)
           M(v) == Moved(h.verts, r, bands, v)
<1>1. bands \in SUBSET Nat BY DEF SourceRange
<1>2. k = CodeIn(h, r, bands) BY DEF Code
<1> HIDE DEF bands, k
<1>3. IsGraph(h) /\ NoOverlap(h.verts) /\ h.verts \in SUBSET SourceRange BY DEF Good, IsGraph
<1>4. \A v \in h.verts : M(v) \in k.verts BY <1>1, <1>2, <1>3, CodeVerts
<1>5. \A v \in h.verts : M(v) \in SourceRange /\ Encloses(M(v), v) BY <1>1, <1>3, MovedEncloses
<1>6. \A e \in DOMAIN h.edge : M(e[1]) = M(e[2]) \/ <<M(e[1]), M(e[2])>> \in DOMAIN k.edge
  BY <1>1, <1>2, <1>3, CodeEdges
<1>7. Good(k) /\ \A v \in h.verts : \E w \in k.verts : Encloses(w, v)
  BY <1>4, <1>5, CodeGood DEF k
<1>8. k.verts \subseteq SourceRange BY <1>7 DEF Good, IsGraph
<1> HIDE DEF M
<1>9. ASSUME NEW x \in Pos, NEW y \in Pos, Leading(h, x, y)
      PROVE  Leading(k, x, y)
  <2>1. PICK a \in h.verts, b \in h.verts :
           Within(x, a) /\ Within(y, b) /\ (a = b \/ <<a, b>> \in DOMAIN h.edge)
    BY <1>9 DEF Leading
  <2>2. a \in SourceRange /\ b \in SourceRange BY <1>3, <2>1
  <2>3. Within(x, M(a)) /\ Within(y, M(b)) BY <1>5, <2>1, <2>2, WithinEnclosing
  <2>4. M(a) = M(b) \/ <<M(a), M(b)>> \in DOMAIN k.edge BY <1>6, <2>1
  <2> QED BY <1>4, <2>1, <2>3, <2>4 DEF Leading
<1>10. ASSUME NEW u \in U
       PROVE  Leading(k, u[1], u[2]) \/ Turned(k, U, u[1], u[2])
  <2>1. u[1] \in Pos /\ u[2] \in Pos BY <1>10
  <2>2. Leading(h, u[1], u[2]) \/ Turned(h, U, u[1], u[2]) BY <1>10 DEF Directed
  <2> QED BY <1>3, <1>7, <1>8, <1>9, <2>1, <2>2, TogetherKept
<1> QED BY <1>10 DEF Directed, k

\* A use that turns an edge around is itself one in the other direction.
LEMMA UseDirected ==
  ASSUME NEW h, Good(h), NEW r \in SourceRange, NEW s \in SourceRange,
         NEW U \in SUBSET (Pos \X Pos), Directed(h, U)
  PROVE  Directed(Use(h, r, s), U \cup {<<Begin(r), Begin(s)>>})
<1> DEFINE c == Code(h, r)
           m == Code(c, s)
           a == At(m.verts, Begin(r))
           b == At(m.verts, Begin(s))
           use == <<Begin(r), Begin(s)>>
           U2 == U \cup {use}
           k == Use(h, r, s)
<1>1. Good(c) /\ Keeps(h, c) /\ Covered(c.verts, Begin(r)) BY CodeGood
<1>2. Good(m) /\ Keeps(c, m) /\ Covered(m.verts, Begin(s)) BY <1>1, CodeGood
<1>3. IsGraph(c) /\ IsGraph(m) /\ NoOverlap(m.verts) /\ m.verts \in SUBSET SourceRange
  BY <1>1, <1>2 DEF Good, IsGraph
<1>4. Begin(r) \in Pos /\ Begin(s) \in Pos BY DEF Begin, Pos, SourceRange
<1>5. Covered(m.verts, Begin(r)) BY <1>1, <1>2, <1>3, <1>4, KeepsCovered
<1>6. /\ a \in m.verts /\ Within(Begin(r), a)
      /\ b \in m.verts /\ Within(Begin(s), b)
  BY <1>2, <1>5, AtFinds
<1>7. Directed(c, U) BY CodeDirected
<1>8. Directed(m, U) BY <1>1, <1>7, CodeDirected
<1>9. k = IF a = b THEN m ELSE AddEdge(DelEdge(m, <<b, a>>), <<a, b>>) BY DEF Use
<1> HIDE DEF c, m, a, b, k
<1>10. /\ k.verts = m.verts
       /\ a # b => DOMAIN k.edge = (DOMAIN m.edge \ {<<b, a>>}) \cup {<<a, b>>}
       /\ a = b => k = m
  <2>1. m = [verts |-> m.verts, edge |-> m.edge, incs |-> m.incs] BY <1>3 DEF IsGraph
  <2>2. CASE a = b BY <1>9, <2>2
  <2>3. CASE a # b
    <3>1. k = AddEdge(DelEdge(m, <<b, a>>), <<a, b>>) BY <1>9, <2>3
    <3> QED BY <2>1, <2>3, <3>1 DEF AddEdge, DelEdge
  <2> QED BY <2>2, <2>3
<1>11. use \in U2 /\ use[1] = Begin(r) /\ use[2] = Begin(s) OBVIOUS
<1> HIDE DEF use, U2
<1>12. Leading(k, Begin(r), Begin(s)) BY <1>6, <1>10 DEF Leading
<1>13. ASSUME NEW u \in U
       PROVE  Leading(k, u[1], u[2]) \/ Turned(k, U2, u[1], u[2])
  <2>1. u[1] \in Pos /\ u[2] \in Pos BY <1>13
  <2>2. CASE Turned(m, U, u[1], u[2])
    <3>1. PICK w \in U : Together(m, w[2], u[1]) /\ Together(m, w[1], u[2]) BY <2>2 DEF Turned
    <3>2. w \in U2 BY DEF U2
    <3>3. Together(k, w[2], u[1]) /\ Together(k, w[1], u[2]) BY <1>10, <3>1 DEF Together
    <3> QED BY <3>2, <3>3 DEF Turned
  <2>3. CASE Leading(m, u[1], u[2])
    <3>1. PICK v \in m.verts, w \in m.verts :
             Within(u[1], v) /\ Within(u[2], w) /\ (v = w \/ <<v, w>> \in DOMAIN m.edge)
      BY <2>3 DEF Leading
    <3>2. CASE v = w \/ <<v, w>> \in DOMAIN k.edge BY <1>10, <3>1, <3>2 DEF Leading
    <3>3. CASE v # w /\ <<v, w>> \notin DOMAIN k.edge
      <4>1. v = b /\ w = a BY <1>10, <3>1, <3>3
      <4>2. Together(k, use[2], u[1]) /\ Together(k, use[1], u[2])
        BY <1>6, <1>10, <1>11, <3>1, <4>1 DEF Together
      <4> QED BY <1>11, <4>2 DEF Turned
    <3> QED BY <3>2, <3>3
  <2> QED BY <1>8, <2>2, <2>3 DEF Directed
<1>14. \A u \in U2 : u \in U \/ u = use BY DEF U2
<1>15. Directed(k, U2) BY <1>11, <1>12, <1>13, <1>14 DEF Directed
<1> QED BY <1>15 DEF k, U2, use

\* follow_users_of reaches every user of the definition, but for those that its own piece uses.
LEMMA FollowReaches ==
  ASSUME NEW h, Good(h), NEW d \in SourceRange, NEW e \in SourceRange,
         NEW U \in SUBSET (Pos \X Pos), Directed(h, U), NEW k \in FollowUsersOf(h, d, e)
  PROVE  /\ Directed(k, U)
         /\ \A x : <<x, Begin(d)>> \in U => Follows(k, U, x, Begin(d), Begin(e))
<1> DEFINE c == Code(h, e)
           m == Code(c, d)
           n == At(m.verts, Begin(e))
           o == At(m.verts, Begin(d))
           followed == {s \in m.verts : <<s, o>> \in DOMAIN m.edge
                                          /\ <<s, n>> \notin DOMAIN m.edge}
<1>1. Good(c) /\ Keeps(h, c) /\ Covered(c.verts, Begin(e)) BY CodeGood
<1>2. Good(m) /\ Keeps(c, m) /\ Covered(m.verts, Begin(d)) BY <1>1, CodeGood
<1>3. IsGraph(c) /\ IsGraph(m) /\ NoOverlap(m.verts) /\ m.verts \in SUBSET SourceRange
  BY <1>1, <1>2 DEF Good, IsGraph
<1>4. Begin(d) \in Pos /\ Begin(e) \in Pos BY DEF Begin, Pos, SourceRange
<1>5. Covered(m.verts, Begin(e)) BY <1>1, <1>2, <1>3, <1>4, KeepsCovered
<1>6. /\ n \in m.verts /\ Within(Begin(e), n)
      /\ o \in m.verts /\ Within(Begin(d), o)
  BY <1>2, <1>5, AtFinds
<1>7. Directed(c, U) BY CodeDirected
<1>8. Directed(m, U) BY <1>1, <1>7, CodeDirected
<1>9. PICK S \in {followed, followed \cup {n}} :
         k = IF n = o THEN m ELSE PutEdges(m, {<<n, s>> : s \in S}, "FOLLOWS")
  BY DEF FollowUsersOf
<1> DEFINE E == {<<n, s>> : s \in S}
<1>10. followed \subseteq S BY <1>9
<1>11. \A s \in m.verts : <<s, o>> \in DOMAIN m.edge =>
         <<s, n>> \in DOMAIN m.edge \/ <<n, s>> \in E
  BY <1>10
<1> HIDE DEF c, m, n, o, followed, E
<1>12. k = IF n = o THEN m ELSE PutEdges(m, E, "FOLLOWS") BY <1>9 DEF E
<1>13. /\ k.verts = m.verts
       /\ n = o \/ DOMAIN k.edge = DOMAIN m.edge \cup E
       /\ n = o => k = m
  <2>1. m = [verts |-> m.verts, edge |-> m.edge, incs |-> m.incs] BY <1>3 DEF IsGraph
  <2>2. CASE n = o BY <1>12, <2>2
  <2>3. CASE n # o
    <3>1. k = PutEdges(m, E, "FOLLOWS") BY <1>12, <2>3
    <3> QED BY <2>1, <2>3, <3>1 DEF PutEdges
  <2> QED BY <2>2, <2>3
<1>14. DOMAIN m.edge \subseteq DOMAIN k.edge BY <1>13
<1>15. Directed(k, U)
  BY <1>8, <1>13, <1>14 DEF Directed, Leading, Turned, Together
<1>16. ASSUME NEW x, <<x, Begin(d)>> \in U
       PROVE  Follows(k, U, x, Begin(d), Begin(e))
  <2> DEFINE u == <<x, Begin(d)>>
  <2>1. x \in Pos BY <1>16
  <2>2. u \in U /\ u[1] = x /\ u[2] = Begin(d) BY <1>16
  <2> HIDE DEF u
  <2>3. Leading(m, x, Begin(d)) \/ Turned(m, U, x, Begin(d)) BY <1>8, <2>2 DEF Directed
  <2>4. CASE Turned(m, U, x, Begin(d))
    <3>1. Turned(k, U, x, Begin(d)) BY <1>13, <2>4 DEF Turned, Together
    <3> QED BY <3>1 DEF Follows
  <2>5. CASE Leading(m, x, Begin(d))
    <3>1. PICK v \in m.verts, w \in m.verts :
             Within(x, v) /\ Within(Begin(d), w) /\ (v = w \/ <<v, w>> \in DOMAIN m.edge)
      BY <2>5 DEF Leading
    <3>2. w = o BY <1>3, <1>4, <1>6, <3>1, AtUnique
    <3>3. CASE v = w
      <4>1. Together(k, x, Begin(d)) BY <1>13, <3>1, <3>3 DEF Together
      <4> QED BY <4>1 DEF Follows
    <3>4. CASE v # w
      <4>1. <<v, o>> \in DOMAIN m.edge BY <3>1, <3>2, <3>4
      <4>2. <<v, n>> \in DOMAIN k.edge \/ <<n, v>> \in DOMAIN k.edge
        BY <1>11, <1>13, <1>14, <3>1, <4>1
      <4>3. Connected(k, x, Begin(e)) BY <1>6, <1>13, <3>1, <4>2 DEF Connected
      <4> QED BY <4>3 DEF Follows
    <3> QED BY <3>3, <3>4
  <2> QED BY <2>3, <2>4, <2>5
<1> QED BY <1>15, <1>16

-----------------------------------------------------------------------------
(* The collector's steps, with respect to uses.                            *)

\* Uses put off, of a definition only if it, in some inclusion, was used at once as well.
MadeAtOnce(t, U) ==
  {l \in LaterUse : t[l[2].f][l[2].beg + 1].op = "define" =>
                      \E u \in U : u[1] = l[1] /\ u[2].f = l[2].f /\ u[2].p = l[2].beg}

\* What one call does to the uses, and to what follows a definition.
LEMMA CallUses ==
  ASSUME Inv, Directed(g, uses), NEW call, Make(call), call.op \notin {"ask", "skip"},
         NEW user \in SourceRange, NEW usee \in SourceRange,
         user = RangeOf(call.user), usee = RangeOf(call.usee),
         NEW t, \A list \in UseLists : extra[list] \in Seq(MadeAtOnce(t, uses)),
         call.op \in UseLists =>
           (t[usee.f][usee.beg + 1].op = "define" =>
              \E u \in uses : u[1] = Begin(user) /\ u[2].f = usee.f /\ u[2].p = usee.beg)
  PROVE  /\ phase = "collect" /\ phase' = "collect"
         /\ uses' = IF call.op = "use" THEN uses \cup {<<Begin(user), Begin(usee)>>} ELSE uses
         /\ Directed(g', uses')
         /\ call.op = "follow" =>
              \A x : <<x, Begin(user)>> \in uses => Follows(g', uses', x, Begin(user), Begin(usee))
         /\ \A list \in UseLists : extra'[list] \in Seq(MadeAtOnce(t, uses'))
<1>1. /\ phase = "collect" /\ phase' = "collect"
      /\ \/ /\ g' = Code(g, user) /\ extra' = extra /\ uses' = uses
            /\ call.op \notin {"use", "follow"}
         \/ /\ g' = Use(g, user, usee) /\ extra' = extra /\ call.op = "use"
            /\ uses' = uses \cup {<<Begin(user), Begin(usee)>>}
         \/ /\ g' \in FollowUsersOf(g, user, usee) /\ extra' = extra /\ uses' = uses
            /\ call.op = "follow"
         \/ g' = g /\ extra' = extra /\ uses' = uses /\ call.op \notin {"use", "follow"}
         \/ /\ g' = g /\ uses' = uses /\ call.op \in UseLists
            /\ \E list \in UseLists : \E r \in {usee, InBand(usee, 0)} :
                 extra' = [extra EXCEPT ![list] = Append(@, <<Begin(user), r>>)]
         \/ /\ g' = g /\ uses' = uses /\ call.op \notin {"use", "follow"}
            /\ extra' = [extra EXCEPT !.endif = Append(@, user)]
  BY DEF Make, Call, AddCode, UseCode, Follow, GlobalCode, StaticCode, SymbolCode,
         Inclusion, Conditional, Endif, UseLists
<1>2. Good(g) /\ uses \in SUBSET (Pos \X Pos) BY InvIsGood DEF Inv, TypeOK
<1>3. uses \subseteq uses' BY <1>1
<1>4. extra = [defined |-> extra.defined, ifndef |-> extra.ifndef, ifdef |-> extra.ifdef,
               endif |-> extra.endif]
  BY DEF Inv, TypeOK
<1>5. uses' = IF call.op = "use" THEN uses \cup {<<Begin(user), Begin(usee)>>} ELSE uses
  <2>1. "use" \notin UseLists BY DEF UseLists
  <2> QED BY <1>1, <2>1
<1>6. Directed(g', uses')
  <2>1. CASE g' = Code(g, user) /\ uses' = uses BY <1>2, <2>1, CodeDirected
  <2>2. CASE g' = Use(g, user, usee) /\ uses' = uses \cup {<<Begin(user), Begin(usee)>>}
    BY <1>2, <2>2, UseDirected
  <2>3. CASE g' \in FollowUsersOf(g, user, usee) /\ uses' = uses BY <1>2, <2>3, FollowReaches
  <2>4. CASE g' = g /\ uses' = uses BY <2>4
  <2> QED BY <1>1, <2>1, <2>2, <2>3, <2>4
<1>7. ASSUME call.op = "follow", NEW x, <<x, Begin(user)>> \in uses
      PROVE  Follows(g', uses', x, Begin(user), Begin(usee))
  <2>1. "follow" \notin UseLists BY DEF UseLists
  <2>2. g' \in FollowUsersOf(g, user, usee) /\ uses' = uses BY <1>1, <1>7, <2>1
  <2> QED BY <1>2, <1>7, <2>2, FollowReaches
<1>8. ASSUME NEW other \in UseLists
      PROVE  extra'[other] \in Seq(MadeAtOnce(t, uses'))
  <2> DEFINE S == MadeAtOnce(t, uses)
             S2 == MadeAtOnce(t, uses')
  <2>1. S \subseteq S2 BY <1>3 DEF MadeAtOnce
  <2>2. Seq(S) \subseteq Seq(S2) BY <2>1, SeqOfMore
  <2>3. extra[other] \in Seq(S) OBVIOUS
  <2>4. CASE extra' = extra BY <2>2, <2>3, <2>4
  <2>5. CASE /\ uses' = uses /\ call.op \in UseLists
             /\ \E list \in UseLists : \E r \in {usee, InBand(usee, 0)} :
                  extra' = [extra EXCEPT ![list] = Append(@, <<Begin(user), r>>)]
    <3>1. PICK list \in UseLists : \E r \in {usee, InBand(usee, 0)} :
                  extra' = [extra EXCEPT ![list] = Append(@, <<Begin(user), r>>)]
      BY <2>5
    <3>2. PICK r \in {usee, InBand(usee, 0)} :
                  extra' = [extra EXCEPT ![list] = Append(@, <<Begin(user), r>>)]
      BY <3>1
    <3>3. r \in SourceRange /\ r.f = usee.f /\ r.beg = usee.beg
      <4>1. 0 \in Nat OBVIOUS
      <4> QED BY <4>1, InBandIsRange
    <3>4. Begin(user) \in Pos BY DEF Begin, Pos, SourceRange
    <3> DEFINE l == <<Begin(user), r>>
    <3>5. l \in LaterUse BY <3>3, <3>4 DEF LaterUse
    <3>6. l[1] = Begin(user) /\ l[2] = r OBVIOUS
    <3> HIDE DEF l
    <3>7. l \in S BY <2>5, <3>3, <3>5, <3>6 DEF MadeAtOnce
    <3>8. extra[list] \in Seq(S) OBVIOUS
    <3> DEFINE y == Append(extra[list], l)
    <3> HIDE DEF S
    <3>9. y \in Seq(S) BY <3>7, <3>8
    <3>10. extra' = [extra EXCEPT ![list] = y] BY <3>2 DEF l
    <3> HIDE DEF y
    <3>11. extra'[other] = IF other = list THEN y ELSE extra[other]
      BY <1>4, <3>10 DEF UseLists
    <3>12. extra'[other] \in Seq(S) BY <2>3, <3>9, <3>11
    <3> QED BY <2>2, <3>12
  <2>6. CASE extra' = [extra EXCEPT !.endif = Append(@, user)]
    <3> DEFINE y == Append(extra.endif, user)
    <3>1. extra' = [extra EXCEPT !.endif = y] BY <2>6
    <3> HIDE DEF y
    <3>2. extra'[other] = extra[other] BY <1>4, <3>1 DEF UseLists
    <3> QED BY <2>2, <2>3, <3>2
  <2> QED BY <1>1, <2>4, <2>5, <2>6
<1> QED BY <1>1, <1>5, <1>6, <1>7, <1>8

\* finalize adds uses that were put off.
LEMMA FinalizeUses ==
  ASSUME Inv, FinalizeStep,
         NEW t, \A list \in UseLists : extra[list] \in Seq(MadeAtOnce(t, uses))
  PROVE  /\ phase' # "collect" /\ (phase = "collect" => UNCHANGED <<g, uses, extra>>)
         /\ uses \subseteq uses'
         /\ \A u \in uses' : u \in uses \/
              (t[u[2].f][u[2].p + 1].op = "define" =>
                 \E w \in uses : w[1] = u[1] /\ w[2].f = u[2].f /\ w[2].p = u[2].p)
         /\ \A list \in UseLists : extra'[list] \in Seq(MadeAtOnce(t, uses'))
<1> DEFINE S == MadeAtOnce(t, uses)
           S2 == MadeAtOnce(t, uses')
<1>1. CASE \E list \in UseLists : ExtraUse(list)
  <2>1. PICK list \in UseLists : ExtraUse(list) BY <1>1
  <2> DEFINE l == Head(extra[list])
  <2>2. extra[list] \in Seq(S) /\ extra[list] # <<>> BY <2>1 DEF ExtraUse
  <2>3. l \in S /\ Tail(extra[list]) \in Seq(S)
    <3> HIDE DEF S
    <3> QED BY <2>2
  <2>4. /\ phase = list /\ phase' = list /\ list # "collect"
        /\ uses' = uses \/ uses' = uses \cup {<<l[1], Begin(l[2])>>}
        /\ extra' = [extra EXCEPT ![list] = Tail(@)]
    BY <2>1 DEF ExtraUse, UseLists
  <2>5. uses \subseteq uses' BY <2>4
  <2>6. S \subseteq S2 BY <2>5 DEF MadeAtOnce
  <2>7. Seq(S) \subseteq Seq(S2) BY <2>6, SeqOfMore
  <2>8. extra = [defined |-> extra.defined, ifndef |-> extra.ifndef, ifdef |-> extra.ifdef,
                 endif |-> extra.endif]
    BY DEF Inv, TypeOK
  <2>9. ASSUME NEW other \in UseLists
        PROVE  extra'[other] \in Seq(S2)
    <3> DEFINE y == Tail(extra[list])
    <3>1. y \in Seq(S2) /\ extra' = [extra EXCEPT ![list] = y] BY <2>3, <2>4, <2>7
    <3>2. extra[other] \in Seq(S2) BY <2>7
    <3> HIDE DEF y, S2
    <3>3. extra'[other] = IF other = list THEN y ELSE extra[other] BY <2>8, <3>1 DEF UseLists
    <3> QED BY <3>1, <3>2, <3>3
  <2>10. t[l[2].f][l[2].beg + 1].op = "define" =>
           \E w \in uses : w[1] = l[1] /\ w[2].f = l[2].f /\ w[2].p = l[2].beg
    BY <2>3 DEF MadeAtOnce
  <2>11. ASSUME NEW u \in uses', u \notin uses
         PROVE  t[u[2].f][u[2].p + 1].op = "define" =>
                  \E w \in uses : w[1] = u[1] /\ w[2].f = u[2].f /\ w[2].p = u[2].p
    <3> HIDE DEF l
    <3>1. u = <<l[1], Begin(l[2])>> BY <2>4, <2>11
    <3>2. u[1] = l[1] /\ u[2].f = l[2].f /\ u[2].p = l[2].beg BY <3>1 DEF Begin
    <3> QED BY <2>10, <3>2
  <2> QED BY <2>4, <2>5, <2>9, <2>11 DEF UseLists
<1>2. CASE \E list \in UseLists : ExtraUsesDone(list)
  <2>1. PICK list \in UseLists : ExtraUsesDone(list) BY <1>2
  <2>2. phase # "collect" /\ phase' # "collect" /\ UNCHANGED <<extra, uses>>
    BY <2>1 DEF ExtraUsesDone, UseLists, Following
  <2> QED BY <2>2
<1>3. CASE Finalize
  BY <1>3 DEF Finalize
<1>4. CASE ProcessInclusions \/ FinalizeDone \/ FixupStaticFunctions
  BY <1>4 DEF ProcessInclusions, FinalizeDone, FixupStaticFunctions
<1>5. CASE ProcessEndif
  <2>1. phase = "endif" /\ phase' = "endif" /\ uses' = uses
        /\ extra' = [extra EXCEPT !.endif = Tail(@)]
    BY <1>5 DEF ProcessEndif
  <2>2. extra = [defined |-> extra.defined, ifndef |-> extra.ifndef, ifdef |-> extra.ifdef,
                 endif |-> extra.endif]
    BY DEF Inv, TypeOK
  <2> DEFINE y == Tail(extra.endif)
  <2>3. extra' = [extra EXCEPT !.endif = y] BY <2>1
  <2> HIDE DEF y
  <2>4. \A other \in UseLists : extra'[other] = extra[other] BY <2>2, <2>3 DEF UseLists
  <2> QED BY <2>1, <2>4
<1> QED BY <1>1, <1>2, <1>3, <1>4, <1>5 DEF FinalizeStep, UseLists

\* What follows a definition still does after any step.
LEMMA FollowsStays ==
  ASSUME PluginInv, [PluginNext]_pluginVars
  PROVE  /\ uses \subseteq uses' /\ uses' \in SUBSET (Pos \X Pos)
         /\ \A x, d, e \in Pos : Follows(g, uses, x, d, e) => Follows(g', uses', x, d, e)
<1>1. Inv /\ Lexing /\ Banded BY DEF PluginInv
<1>2. PluginInv' BY PluginInvStep
<1>3. IsGraph(g) /\ IsGraph(g') /\ uses \in SUBSET (Pos \X Pos) /\ uses' \in SUBSET (Pos \X Pos)
  BY <1>1, <1>2 DEF PluginInv, Inv, TypeOK
<1>4. uses \subseteq uses'
  <2>1. CASE AnyCall
    BY <2>1 DEF AnyCall, Call, AddCode, UseCode, Follow, GlobalCode, StaticCode, SymbolCode,
                Inclusion, Conditional, Endif
  <2>2. CASE FinalizeStep
    BY <2>2 DEF FinalizeStep, Finalize, ExtraUse, ExtraUsesDone, ProcessInclusions, ProcessEndif,
                FinalizeDone, FixupStaticFunctions
  <2>3. CASE UNCHANGED vars BY <2>3 DEF vars
  <2> QED BY <1>1, <2>1, <2>2, <2>3, CollectorMoves
<1>5. Grows \/ (g'.verts = g.verts /\ g'.edge = g.edge)
  <2>1. CASE AnyCall BY <1>1, <2>1, CallGrows
  <2>2. CASE FinalizeStep
    <3>1. CASE \E list \in UseLists : ExtraUse(list) BY <1>1, <3>1, ExtraUseGrows DEF UseLists
    <3>2. CASE ProcessEndif BY <1>1, <3>2, ProcessEndifGrows
    <3>3. CASE FixupStaticFunctions BY <1>1, <3>3, FixupGrows
    <3>4. CASE ProcessInclusions
      <4>1. g = [verts |-> g.verts, edge |-> g.edge, incs |-> g.incs] BY <1>3 DEF IsGraph
      <4> QED BY <3>4, <4>1 DEF ProcessInclusions
    <3>5. CASE Finalize \/ FinalizeDone \/ \E list \in UseLists : ExtraUsesDone(list)
      BY <3>5 DEF Finalize, FinalizeDone, ExtraUsesDone
    <3> QED BY <2>2, <3>1, <3>2, <3>3, <3>4, <3>5 DEF FinalizeStep, UseLists
  <2>3. CASE UNCHANGED vars BY <2>3 DEF vars
  <2> QED BY <1>1, <2>1, <2>2, <2>3, CollectorMoves
<1>6. ASSUME NEW x \in Pos, NEW d \in Pos, NEW e \in Pos, Follows(g, uses, x, d, e)
      PROVE  Follows(g', uses', x, d, e)
  <2>1. CASE Grows
    <3>1. /\ \A v \in g.verts : \E w \in g'.verts : Encloses(w, v)
          /\ \A a, b \in Pos : Connected(g, a, b) => Connected(g', a, b)
      BY <1>1, <2>1, GrowsKeeps
    <3> QED BY <1>3, <1>4, <1>6, <3>1, FollowsKept
  <2>2. CASE g'.verts = g.verts /\ g'.edge = g.edge
    <3>1. \A a, b \in Pos : Connected(g, a, b) => Connected(g', a, b) BY <2>2 DEF Connected
    <3>2. \A v \in g.verts : Encloses(v, v)
      BY <1>3 DEF IsGraph, Encloses, SourceRange
    <3> QED BY <1>3, <1>4, <1>6, <2>2, <3>1, <3>2, FollowsKept
  <2> QED BY <1>5, <2>1, <2>2
<1> QED BY <1>3, <1>4, <1>6

-----------------------------------------------------------------------------
(* The definitions of every macro, in the order in which they were read.   *)
ItemIn(t, fl, r) == t[fl[r.n]][r.beg + 1]
LastOf(m) == history[m][Len(history[m])]

\* They are pieces that define that macro, each at a place of its own.
Recorded ==
  /\ history \in [Macros -> Seq(PieceSet)]
  /\ \A m \in Macros : \A i \in DOMAIN history[m] :
       /\ DefinitionIn(text, file, stack, atEnd, history[m][i])
       /\ ItemIn(text, file, history[m][i]).arg = m
       /\ \A j \in DOMAIN history[m] :
            history[m][i].n = history[m][j].n /\ history[m][i].beg = history[m][j].beg => i = j

\* clang knows the last of them, if any, and defs has it unless that is a copy.
LatestOf(m) ==
  /\ macro[m] # None => history[m] # <<>> /\ macro[m] = LastOf(m)
  /\ defs[m] = None => history[m] = <<>>
  /\ defs[m] # None => /\ history[m] # <<>> /\ Counterpart(defs[m], LastOf(m))
                       /\ IsCopy(m, Len(history[m])) \/ defs[m] = LastOf(m)

Latest == \A m \in Macros : LatestOf(m)

\* The latest declarations begin like declarations.
OpenDecls == \A s \in Symbols : decls[s] # None => ItemIn(text, file, decls[s]).op = "open"

\* Piece x, just read, is one more definition of m.
Appends(m, x) ==
  /\ m = Item.arg /\ x = This /\ x # None /\ x \in PieceSet
  /\ DefinitionIn(text', file', stack', atEnd', x) /\ ItemIn(text', file', x).arg = m
  /\ DOMAIN history' = Macros
  /\ \A k \in Macros : history'[k] \in Seq(PieceSet) /\ (k # m => history'[k] = history[k])
  /\ Len(history[m]) \in Nat /\ Len(history'[m]) = Len(history[m]) + 1
  /\ \A i \in 1 .. Len(history[m]) : history'[m][i] = history[m][i]
  /\ history'[m][Len(history'[m])] = x
  /\ \A k \in Macros : \A i \in DOMAIN history[k] :
       history[k][i].n = x.n => history[k][i].beg # x.beg

LEMMA ItemStays ==
  ASSUME Moving, NEW r, r.n \in DOMAIN file
  PROVE  /\ ItemIn(text', file', r) = ItemIn(text, file, r)
         /\ r.n \in DOMAIN file' /\ file'[r.n] = file[r.n]
BY DEF Moving, Onward, ItemIn

LEMMA HistoryParts ==
  ASSUME Recorded, NEW m \in Macros
  PROVE  /\ Len(history[m]) \in Nat /\ DOMAIN history[m] = 1 .. Len(history[m])
         /\ history[m] = <<>> <=> Len(history[m]) = 0
         /\ \A i \in DOMAIN history[m] :
              /\ history[m][i] \in PieceSet /\ history[m][i].n \in DOMAIN file
              /\ LexedIn(text, file, stack, history[m][i])
              /\ history[m][i].end = history[m][i].beg + 1
              /\ ItemIn(text, file, history[m][i]).op = "define"
              /\ ItemIn(text, file, history[m][i]).arg = m
<1>1. history[m] \in Seq(PieceSet) BY DEF Recorded
<1>2. Len(history[m]) \in Nat /\ DOMAIN history[m] = 1 .. Len(history[m])
      /\ (history[m] = <<>> <=> Len(history[m]) = 0)
  BY <1>1
<1>3. ASSUME NEW i \in DOMAIN history[m]
      PROVE  /\ history[m][i] \in PieceSet /\ history[m][i].n \in DOMAIN file
             /\ LexedIn(text, file, stack, history[m][i])
             /\ history[m][i].end = history[m][i].beg + 1
             /\ ItemIn(text, file, history[m][i]).op = "define"
             /\ ItemIn(text, file, history[m][i]).arg = m
  <2>1. /\ DefinitionIn(text, file, stack, atEnd, history[m][i])
        /\ ItemIn(text, file, history[m][i]).arg = m
    BY DEF Recorded
  <2> QED BY <2>1 DEF DefinitionIn, SeenIn, LexedIn, ItemIn
<1> QED BY <1>2, <1>3

LEMMA DefineAppends ==
  ASSUME Moving, Recorded, MacroDefined
  PROVE  \E m \in Macros, x \in PieceSet : Appends(m, x)
<1>1. Lexes({"define"}) /\ Advances
  BY DEF MacroDefined, Advances
<1>2. Item.op = "define" /\ Item.arg \in Macros /\ stack # <<>>
  BY <1>1, AtItem DEF Moving, ItemOK
<1>3. /\ SeenIn(text', file', stack', atEnd', This)
      /\ This = Piece(Here, P, P + 1) /\ This.n = Here /\ This.beg = P /\ This.end = P + 1
      /\ text'[file'[Here]][P + 1] = Item
  BY <1>1, AdvanceSees DEF Ifs
<1>4. PICK m \in Macros : m = Item.arg BY <1>2
<1>5. PICK x : x = This OBVIOUS
<1>6. /\ DefinitionIn(text', file', stack', atEnd', x) /\ ItemIn(text', file', x).arg = m
      /\ x \in PieceSet /\ x.n = Here /\ x.beg = P
  <2>1. x \in PieceSet BY <1>3, <1>5, SeenIsPiece
  <2> QED BY <1>2, <1>3, <1>4, <1>5, <2>1 DEF DefinitionIn, ItemIn
<1>7. x # None BY <1>6, PluginAssumption DEF PieceSet
<1>8. history' = [history EXCEPT ![m] = Append(history[m], x)]
  BY <1>4, <1>5 DEF MacroDefined
<1>9. history[m] \in Seq(PieceSet) BY DEF Recorded
<1> DEFINE y == Append(history[m], x)
<1>10. /\ y \in Seq(PieceSet) /\ Len(history[m]) \in Nat /\ Len(y) = Len(history[m]) + 1
       /\ \A i \in 1 .. Len(history[m]) : y[i] = history[m][i]
       /\ y[Len(y)] = x
  BY <1>6, <1>9
<1>11. history' = [history EXCEPT ![m] = y] BY <1>8
<1> HIDE DEF y
<1>12. /\ DOMAIN history' = Macros /\ history'[m] = y
       /\ \A k \in Macros : history'[k] \in Seq(PieceSet) /\ (k # m => history'[k] = history[k])
  BY <1>10, <1>11 DEF Recorded
<1>13. ASSUME NEW k \in Macros, NEW i \in DOMAIN history[k], history[k][i].n = x.n
       PROVE  history[k][i].beg # x.beg
  <2>1. LexedIn(text, file, stack, history[k][i]) BY HistoryParts
  <2>2. history[k][i].beg < P BY <1>2, <1>6, <1>13, <2>1, SeenIsPast DEF Moving
  <2>3. history[k][i].beg \in Nat BY HistoryParts DEF PieceSet
  <2> QED BY <1>6, <2>2, <2>3 DEF PieceSet
<1> QED BY <1>4, <1>5, <1>6, <1>7, <1>10, <1>12, <1>13 DEF Appends

\* Only this changes the definitions of a macro.
LEMMA OnlyDefineAppends ==
  ASSUME [PluginNext]_pluginVars
  PROVE  MacroDefined \/ UNCHANGED history
BY Zenon
   DEF PluginNext, pluginVars, clang, plugin, Perform, MacroUndefined, MacroExpands,
       NestedMacroExpands, If, Else, EndifSeen, InclusionDirective, FileChanged, DeclBegins,
       DeclRefers, DeclEnds, EndOfMain, HandleTranslationUnit, FinalizeRuns

LEMMA RecordedStep ==
  ASSUME Moving, Recorded, [PluginNext]_pluginVars
  PROVE  Recorded'
<1>1. ASSUME NEW m \in Macros, NEW i \in DOMAIN history[m]
      PROVE  /\ DefinitionIn(text', file', stack', atEnd', history[m][i])
             /\ ItemIn(text', file', history[m][i]).arg = m
  <2>1. DefinitionIn(text, file, stack, atEnd, history[m][i]) BY DEF Recorded
  <2>2. DefinitionIn(text', file', stack', atEnd', history[m][i]) BY <2>1, Staying
  <2>3. history[m][i].n \in DOMAIN file /\ ItemIn(text, file, history[m][i]).arg = m
    BY HistoryParts
  <2> QED BY <2>2, <2>3, ItemStays
<1>2. CASE UNCHANGED history
  BY <1>1, <1>2 DEF Recorded
<1>3. CASE MacroDefined
  <2>1. PICK m \in Macros, x \in PieceSet : Appends(m, x) BY <1>3, DefineAppends
  <2>2. history' \in [Macros -> Seq(PieceSet)]
    <3>1. history' = [k \in Macros |-> history'[k]]
      <4>1. \E y : history' = [history EXCEPT ![Item.arg] = y] BY <1>3 DEF MacroDefined
      <4> QED BY <4>1 DEF Recorded
    <3> QED BY <2>1, <3>1 DEF Appends
  <2>3. ASSUME NEW k \in Macros, NEW i \in DOMAIN history'[k]
        PROVE  /\ DefinitionIn(text', file', stack', atEnd', history'[k][i])
               /\ ItemIn(text', file', history'[k][i]).arg = k
               /\ \A j \in DOMAIN history'[k] :
                    history'[k][i].n = history'[k][j].n /\ history'[k][i].beg = history'[k][j].beg
                      => i = j
    <3>1. CASE k # m
      <4>1. history'[k] = history[k] BY <2>1, <3>1 DEF Appends
      <4> QED BY <1>1, <4>1 DEF Recorded
    <3>2. CASE k = m
      <4>1. /\ Len(history[m]) \in Nat /\ Len(history'[m]) = Len(history[m]) + 1
            /\ DOMAIN history[m] = 1 .. Len(history[m])
            /\ DOMAIN history'[m] = 1 .. Len(history[m]) + 1
        <5>1. history'[m] \in Seq(PieceSet) BY <2>1 DEF Appends
        <5>2. DOMAIN history'[m] = 1 .. Len(history'[m]) BY <5>1
        <5> QED BY <2>1, <5>2, HistoryParts DEF Appends
      <4>2. \A j \in DOMAIN history'[m] :
              \/ j \in DOMAIN history[m] /\ history'[m][j] = history[m][j]
              \/ j = Len(history[m]) + 1 /\ history'[m][j] = x
        BY <2>1, <4>1 DEF Appends
      <4>3. /\ DefinitionIn(text', file', stack', atEnd', x) /\ ItemIn(text', file', x).arg = m
            /\ \A j \in DOMAIN history[m] : history[m][j].n = x.n => history[m][j].beg # x.beg
        BY <2>1 DEF Appends
      <4>4. \A j, l \in DOMAIN history[m] :
              history[m][l].n = history[m][j].n /\ history[m][l].beg = history[m][j].beg => l = j
        BY DEF Recorded
      <4> QED BY <1>1, <3>2, <4>2, <4>3, <4>4
    <3> QED BY <3>1, <3>2
  <2> QED BY <2>2, <2>3 DEF Recorded
<1> QED BY <1>2, <1>3, OnlyDefineAppends

LEMMA LatestStays ==
  ASSUME Moving, Defining, Recorded, NEW m \in Macros, LatestOf(m),
         history'[m] = history[m], defs'[m] = defs[m], macro'[m] = None \/ macro'[m] = macro[m]
  PROVE  LatestOf(m)'
<1>1. defs[m] # None => defs[m].n \in DOMAIN file
  BY DEF Defining, SeenIn, LexedIn
<1>2. \A i \in DOMAIN history[m] : history[m][i].n \in DOMAIN file BY HistoryParts
<1>3. history[m] # <<>> => Len(history[m]) \in DOMAIN history[m] /\ Len(history[m]) > 0
  BY HistoryParts
<1>4. Counterpart(defs[m], LastOf(m)) /\ defs[m] # None /\ history[m] # <<>>
        => Counterpart(defs[m], LastOf(m))'
  BY <1>1, <1>2, <1>3, ItemStays DEF Counterpart, LastOf
<1>5. IsCopy(m, Len(history[m])) /\ history[m] # <<>> => IsCopy(m, Len(history[m]))'
  <2>1. Len(history[m]) > 1 => Len(history[m]) - 1 \in DOMAIN history[m]
    BY HistoryParts
  <2> QED BY <1>2, <1>3, <2>1, ItemStays DEF Counterpart, IsCopy
<1> QED BY <1>4, <1>5 DEF LatestOf, LastOf

LEMMA LatestDefine ==
  ASSUME Moving, Defining, Recorded, Latest, MacroDefined
  PROVE  Latest'
<1>1. PICK m \in Macros, x \in PieceSet : Appends(m, x) BY DefineAppends
<1> DEFINE redefined == defs[m] # None /\ ~Counterpart(x, defs[m])
<1>2. /\ macro' = [macro EXCEPT ![m] = x]
      /\ defs' = IF defs[m] = None \/ redefined THEN [defs EXCEPT ![m] = x] ELSE defs
  BY <1>1 DEF MacroDefined, Appends
<1> HIDE DEF redefined
<1>3. /\ macro'[m] = x
      /\ defs'[m] = IF defs[m] = None \/ redefined THEN x ELSE defs[m]
      /\ \A k \in Macros : k # m => macro'[k] = macro[k] /\ defs'[k] = defs[k]
  BY <1>2 DEF Defining
<1>4. ASSUME NEW k \in Macros, k # m
      PROVE  LatestOf(k)'
  <2>1. macro'[k] = macro[k] /\ defs'[k] = defs[k] /\ history'[k] = history[k]
    BY <1>1, <1>3, <1>4 DEF Appends
  <2> QED BY <2>1, LatestStays DEF Latest
<1>5. /\ LastOf(m)' = x /\ history'[m] # <<>> /\ Len(history'[m]) = Len(history[m]) + 1
      /\ Len(history[m]) \in Nat /\ x # None /\ x.n \in DOMAIN file'
  <2>1. history'[m] \in Seq(PieceSet) /\ Len(history'[m]) # 0 BY <1>1 DEF Appends
  <2>2. history'[m] # <<>> BY <2>1
  <2> QED BY <1>1, <2>2 DEF Appends, LastOf, DefinitionIn, SeenIn, LexedIn
<1>6. CASE defs[m] = None \/ redefined
  <2>1. defs'[m] = x /\ macro'[m] = x BY <1>3, <1>6
  <2>2. LatestOf(m)' BY <1>5, <2>1 DEF Counterpart, LatestOf
  <2> QED BY <1>4, <2>2 DEF Latest
<1>7. CASE defs[m] # None /\ ~redefined
  <2>1. Counterpart(x, defs[m]) /\ defs'[m] = defs[m] BY <1>3, <1>7 DEF redefined
  <2>2. history[m] # <<>> /\ Counterpart(defs[m], LastOf(m)) BY <1>7 DEF Latest, LatestOf
  <2>3. Len(history[m]) \in DOMAIN history[m] /\ Len(history[m]) >= 1
        /\ Len(history[m]) \in 1 .. Len(history[m])
    BY <2>2, HistoryParts
  <2>4. history'[m][Len(history'[m]) - 1] = LastOf(m) /\ history'[m][Len(history'[m])] = x
    BY <1>1, <1>5, <2>3 DEF Appends, LastOf
  <2>5. LastOf(m).n \in DOMAIN file BY <2>3, HistoryParts DEF LastOf
  <2>6. defs[m].n \in DOMAIN file BY <1>7 DEF Defining, SeenIn, LexedIn
  <2>7. x.n \in DOMAIN file
    <3>1. stack # <<>> BY DEF MacroDefined, Lexes
    <3>2. x.n = Here BY <1>1 DEF Appends, This, Piece
    <3> QED BY <3>1, <3>2, Innermost DEF Moving
  <2>8. /\ file'[x.n] = file[x.n] /\ file'[defs[m].n] = file[defs[m].n]
        /\ file'[LastOf(m).n] = file[LastOf(m).n]
    BY <2>5, <2>6, <2>7, ItemStays
  <2>9. Counterpart(defs[m], LastOf(m))'
    BY <1>5, <2>1, <2>8 DEF Counterpart
  <2>10. IsCopy(m, Len(history[m]))'
    <3>1. Len(history'[m]) > 1 BY <1>5, <2>3
    <3>2. file'[LastOf(m).n] = file'[x.n] /\ LastOf(m).beg = x.beg /\ LastOf(m).end = x.end
      BY <2>1, <2>2, <2>8 DEF Counterpart
    <3> QED BY <2>4, <3>1, <3>2 DEF Counterpart, IsCopy
  <2>11. LatestOf(m)' BY <1>3, <1>5, <1>7, <2>1, <2>9, <2>10 DEF LatestOf
  <2> QED BY <1>4, <2>11 DEF Latest
<1> QED BY <1>6, <1>7

LEMMA LatestStep ==
  ASSUME Moving, Defining, Recorded, Latest, [PluginNext]_pluginVars
  PROVE  Latest'
<1>1. CASE MacroDefined
  BY <1>1, LatestDefine
<1>2. CASE MacroUndefined
  <2>1. UNCHANGED <<history, defs>> /\ macro' = [macro EXCEPT ![Item.arg] = None]
    BY <1>2 DEF MacroUndefined, plugin
  <2>2. \A m \in Macros : macro'[m] = None \/ macro'[m] = macro[m] BY <2>1 DEF Defining
  <2> QED BY <2>1, <2>2, LatestStays DEF Latest
<1>3. CASE UNCHANGED <<history, defs, macro>>
  BY <1>3, LatestStays DEF Latest
<1> QED
  BY <1>1, <1>2, <1>3, Zenon
     DEF PluginNext, pluginVars, clang, plugin, Perform, MacroExpands, NestedMacroExpands, If,
         Else, EndifSeen, InclusionDirective, FileChanged, DeclBegins, DeclRefers, DeclEnds,
         EndOfMain, HandleTranslationUnit, FinalizeRuns

LEMMA OpenDeclsStep ==
  ASSUME Moving, Declarations, OpenDecls, [PluginNext]_pluginVars
  PROVE  OpenDecls'
<1>1. ASSUME NEW s \in Symbols, decls[s] # None
      PROVE  ItemIn(text', file', decls[s]).op = "open"
  <2>1. decls[s].n \in DOMAIN file BY <1>1 DEF Declarations, SeenIn, LexedIn
  <2> QED BY <1>1, <2>1, ItemStays DEF OpenDecls
<1>2. CASE decls' = decls
  BY <1>1, <1>2 DEF OpenDecls
<1>3. CASE DeliverEnded
  <2>1. CASE ended = None BY <1>2, <1>3, <2>1 DEF DeliverEnded
  <2>2. CASE ended # None
    <3> DEFINE r == Piece(ended.n, ended.beg, ended.end)
    <3>1. \A s \in Symbols : decls'[s] = decls[s] \/ decls'[s] = r
      BY <1>3, <2>2 DEF DeliverEnded, Declarations
    <3>2. ended.n \in DOMAIN file /\ text[file[ended.n]][ended.beg + 1].op = "open"
      BY <2>2 DEF Declarations, DeclIn
    <3>3. r.n \in DOMAIN file /\ ItemIn(text, file, r).op = "open" BY <3>2 DEF Piece, ItemIn
    <3>4. ItemIn(text', file', r).op = "open" BY <3>3, ItemStays
    <3> HIDE DEF r
    <3> QED BY <1>1, <3>1, <3>4 DEF OpenDecls
  <2> QED BY <2>1, <2>2
<1> QED
  BY <1>2, <1>3, Zenon
     DEF PluginNext, pluginVars, clang, plugin, Perform, MacroExpands, NestedMacroExpands, If,
         Else, EndifSeen, InclusionDirective, FileChanged, DeclBegins, DeclRefers, DeclEnds,
         EndOfMain, HandleTranslationUnit, FinalizeRuns, MacroDefined, MacroUndefined

-----------------------------------------------------------------------------
(* Calls that note a use of a definition note it of the latest one.        *)

\* It is no definition that was replaced.
Current(t, fl, h, r) ==
  LET m == ItemIn(t, fl, r).arg
  IN ItemIn(t, fl, r).op = "define" => h[m] # <<>> /\ r = h[m][Len(h[m])]

CurrentUses ==
  \A i \in DOMAIN todo : todo[i].op = "use" => Current(text, file, history, todo[i].usee)

\* Calls that callbacks make, other than those for conditionals.
Unconditional(t, fl, h, td) ==
  \A i \in DOMAIN td : /\ td[i].op \notin UseLists
                       /\ td[i].op = "use" => Current(t, fl, h, td[i].usee)

LEMMA CurrentMacro ==
  ASSUME Moving, Recorded, Latest, NEW m \in Macros, macro[m] # None, UNCHANGED history
  PROVE  Current(text', file', history', macro[m])
<1>1. history[m] # <<>> /\ macro[m] = history[m][Len(history[m])]
  BY DEF Latest, LatestOf, LastOf
<1>2. Len(history[m]) \in DOMAIN history[m] BY <1>1, HistoryParts
<1>3. macro[m].n \in DOMAIN file /\ ItemIn(text, file, macro[m]).arg = m
  BY <1>1, <1>2, HistoryParts
<1>4. ItemIn(text', file', macro[m]).arg = m BY <1>3, ItemStays
<1> QED BY <1>1, <1>4 DEF Current

\* A declaration refers to declarations.
LEMMA DeliverOpen ==
  ASSUME Moving, Declarations, OpenDecls, DeliverEnded, todo = <<>>
  PROVE  Unconditional(text', file', history', todo')
<1>1. CASE ended = None
  <2>1. DOMAIN todo' = {} BY <1>1 DEF DeliverEnded
  <2> QED BY <2>1 DEF Unconditional
<1>2. CASE ended # None
  <2> DEFINE d == ended
             r == Piece(d.n, d.beg, d.end)
             target(s) == IF s = d.what.s THEN r ELSE decls[s]
             other == CallOf(d.what.kind, r, r, d.what)
             symbol == IF d.what.kind = "type" THEN <<>> ELSE <<other>>
             refs == [i \in DOMAIN d.refs |-> UseCall(d.refs[i].at, target(d.refs[i].s))]
             S == {CodeCall(r), other} \cup {refs[i] : i \in DOMAIN d.refs}
  <2>1. todo' = (<<CodeCall(r)>> \o symbol) \o refs BY <1>2, Zenon DEF DeliverEnded, Deliver
  <2>2. DeclIn(text, file, stack, atEnd, decls, d) /\ SeenIn(text, file, stack, atEnd, r)
    BY <1>2 DEF Declarations
  <2>3. d.what \in DeclSet /\ d.refs \in Seq(RefSet) /\ r.n = d.n /\ r.beg = d.beg
        /\ r.n \in DOMAIN file /\ ItemIn(text, file, r).op = "open"
    BY <2>2 DEF DeclIn, Piece, ItemIn
  <2>4. ASSUME NEW i \in DOMAIN d.refs
        PROVE  refs[i].op = "use" /\ ItemIn(text', file', refs[i].usee).op = "open"
    <3> DEFINE s == d.refs[i].s
    <3>1. d.refs[i] \in RefSet BY <2>3, SeqParts
    <3>2. s \in Symbols /\ (s # d.what.s => decls[s] # None) BY <2>2, <3>1 DEF DeclIn, RefSet
    <3>3. target(s).n \in DOMAIN file /\ ItemIn(text, file, target(s)).op = "open"
      <4>1. CASE s = d.what.s BY <2>3, <4>1
      <4>2. CASE s # d.what.s
        <5>1. target(s) = decls[s] /\ decls[s] # None BY <3>2, <4>2
        <5> QED BY <3>2, <5>1 DEF Declarations, OpenDecls, SeenIn, LexedIn
      <4> QED BY <4>1, <4>2
    <3>4. ItemIn(text', file', target(s)).op = "open" BY <3>3, ItemStays
    <3> HIDE DEF target, r
    <3> QED BY <3>4 DEF UseCall, CallOf
  <2>5. /\ CodeCall(r).op = "code"
        /\ other.op \in {"global", "static", "type"}
    BY <2>3 DEF CodeCall, CallOf, DeclSet
  <2>6. CodeCall(r) \in S /\ other \in S /\ \A i \in DOMAIN d.refs : refs[i] \in S
    OBVIOUS
  <2>7. \A c \in S : c = CodeCall(r) \/ c = other \/ \E i \in DOMAIN d.refs : c = refs[i]
    OBVIOUS
  <2>8. DOMAIN refs = DOMAIN d.refs OBVIOUS
  <2> HIDE DEF S, r, other, refs
  <2>9. symbol \in Seq(S) BY <2>6, SomeCalls
  <2>10. refs \in Seq(S)
    <3>1. Len(d.refs) \in Nat /\ DOMAIN d.refs = 1 .. Len(d.refs) BY <2>3, SeqParts
    <3>2. refs \in [1 .. Len(d.refs) -> S] BY <2>6, <3>1 DEF refs
    <3> QED BY <3>1, <3>2
  <2> HIDE DEF symbol
  <2>11. <<CodeCall(r)>> \o symbol \in Seq(S) BY <2>6, <2>9, SomeCalls
  <2>12. todo' \in Seq(S) BY <2>1, <2>10, <2>11, SomeCalls
  <2>13. ASSUME NEW i \in DOMAIN todo'
         PROVE  /\ todo'[i].op \notin UseLists
                /\ todo'[i].op = "use" => ItemIn(text', file', todo'[i].usee).op = "open"
    <3>1. todo'[i] \in S BY <2>12, SeqParts
    <3> QED BY <2>4, <2>5, <2>7, <3>1 DEF UseLists
  <2> QED BY <2>13 DEF Unconditional, Current
<1> QED BY <1>1, <1>2

\* So do the other callbacks.
LEMMA CallsBegun ==
  ASSUME Moving, Defining, Expanding, Declarations, OpenDecls, Recorded, Latest, todo = <<>>,
         [PluginNext]_pluginVars
  PROVE  If \/ HandleTranslationUnit \/ Unconditional(text', file', history', todo')
<1>1. CASE UNCHANGED todo
  <2>1. DOMAIN todo' = {} BY <1>1
  <2> QED BY <2>1 DEF Unconditional
<1>2. CASE MacroDefined
  <2> DEFINE a == CodeCall(This)
             b == CallOf("follow", defs[Item.arg], This, None)
             S == {a, b}
  <2>1. todo' = <<a>> \o <<>> \/ todo' = <<a>> \o <<b>> BY <1>2 DEF MacroDefined
  <2>2. a.op = "code" /\ b.op = "follow" BY DEF CodeCall, CallOf
  <2> HIDE DEF a, b
  <2>3. a \in S /\ b \in S /\ \A c \in S : c.op \in {"code", "follow"} BY <2>2
  <2> HIDE DEF S
  <2>4. todo' \in Seq(S) BY <2>1, <2>3, SomeCalls
  <2>5. \A i \in DOMAIN todo' : todo'[i] \in S BY <2>4, SeqParts
  <2> QED BY <2>3, <2>5 DEF Unconditional, UseLists
<1>3. ASSUME NEW r, NEW m \in Macros, macro[m] # None, UNCHANGED history,
             todo' = <<UseCall(r, macro[m])>>
      PROVE  Unconditional(text', file', history', todo')
  <2>1. Current(text', file', history', macro[m]) BY <1>3, CurrentMacro
  <2> DEFINE c == UseCall(r, macro[m])
  <2>2. c.op = "use" /\ c.usee = macro[m] BY DEF UseCall, CallOf
  <2> HIDE DEF c
  <2>3. \A i \in DOMAIN todo' : todo'[i] = c BY <1>3 DEF c
  <2> QED BY <2>1, <2>2, <2>3 DEF Unconditional, UseLists
<1>4. CASE MacroExpands
  <2>1. UNCHANGED history BY <1>4 DEF MacroExpands
  <2>2. UNCHANGED todo \/ (macro[Item.arg] # None /\ todo' = <<UseCall(This, macro[Item.arg])>>)
    BY <1>4 DEF MacroExpands
  <2>3. Item.arg \in Macros
    <3>1. Lexes({"expand"}) BY <1>4 DEF MacroExpands
    <3> QED BY <3>1, AtItem DEF Moving, ItemOK
  <2> QED BY <1>1, <1>3, <2>1, <2>2, <2>3
<1>5. CASE NestedMacroExpands
  <2> DEFINE m == expanding[Len(expanding)]
  <2>1. /\ expanding # <<>> /\ UNCHANGED history
        /\ todo' = <<UseCall(Piece(Here, P - 1, P), macro[m])>>
    BY <1>5 DEF NestedMacroExpands
  <2>2. m \in Macros /\ macro[m] # None
    <3>1. expanding \in Seq(Macros) BY DEF Expanding
    <3>2. Len(expanding) \in DOMAIN expanding /\ m \in Macros BY <2>1, <3>1
    <3> QED BY <3>2 DEF Expanding
  <2> QED BY <1>3, <2>1, <2>2
<1>6. CASE EndifSeen
  <2>1. \E r : todo' = <<Ask(r)>> BY <1>6 DEF EndifSeen
  <2>2. \A i \in DOMAIN todo' : todo'[i].op = "ask" BY <2>1 DEF Ask, CallOf
  <2> QED BY <2>2 DEF Unconditional, UseLists
<1>7. CASE InclusionDirective
  <2>1. \E r, f : todo' = <<CallOf("inclusion", r, r, f)>> BY <1>7 DEF InclusionDirective
  <2>2. \A i \in DOMAIN todo' : todo'[i].op = "inclusion" BY <2>1 DEF CallOf
  <2> QED BY <2>2 DEF Unconditional, UseLists
<1>8. CASE DeliverEnded
  BY <1>8, DeliverOpen
<1> QED
  BY <1>1, <1>2, <1>4, <1>5, <1>6, <1>7, <1>8, Zenon
     DEF PluginNext, pluginVars, clang, plugin, Perform, Else, FileChanged, DeclBegins,
         DeclRefers, DeclEnds, EndOfMain, FinalizeRuns, MacroUndefined

LEMMA CallsOfCondition ==
  ASSUME If
  PROVE  \/ todo' = <<>>
         \/ todo' = <<Ask(This)>>
         \/ /\ macro[Item.arg] # None
            /\ \/ todo' = <<UseCall(This, macro[Item.arg])>>
               \/ todo' = <<UseCall(This, macro[Item.arg]),
                            CallOf("defined", This, macro[Item.arg], None)>>
<1> DEFINE usee == macro[Item.arg]
<1>1. todo' = ConditionCalls(Item.op, usee) BY DEF If
<1>2. \/ todo' = <<>>
      \/ todo' = <<Ask(This)>>
      \/ usee # None /\ todo' = <<UseCall(This, usee)>> \o <<>>
      \/ usee # None /\ todo' = <<UseCall(This, usee)>> \o <<CallOf("defined", This, usee, None)>>
  BY <1>1 DEF ConditionCalls
<1> QED BY <1>2

\* The calls at the end are those for what was put off.
LEMMA CallsForEntries ==
  ASSUME Late, HandleTranslationUnit
  PROVE  \A i \in DOMAIN todo' :
           /\ todo'[i].op \notin {"use", "follow", "defined"}
           /\ todo'[i].op \in UseLists =>
                \E list \in {"ifndef", "ifdef"} : \E j \in DOMAIN atEnd[list] :
                  todo'[i].user = atEnd[list][j].user /\ todo'[i].usee = atEnd[list][j].usee
<1> DEFINE conditions(list) == [i \in DOMAIN atEnd[list] |->
                                 CallAtEnd(list, atEnd[list][i].user, atEnd[list][i].usee)]
           ends == [i \in DOMAIN atEnd.endif |->
                     CallAtEnd("endif", atEnd.endif[i], atEnd.endif[i])]
           S == {conditions("ifndef")[i] : i \in DOMAIN atEnd.ifndef}
                  \cup {conditions("ifdef")[i] : i \in DOMAIN atEnd.ifdef}
                  \cup {ends[i] : i \in DOMAIN atEnd.endif}
           U == Uses(text, file, stack, atEnd)
           E == Ends(text, file, stack)
<1>1. todo' = (conditions("ifndef") \o conditions("ifdef")) \o ends
  BY DEF HandleTranslationUnit
<1>2. atEnd.ifndef \in Seq(U) /\ atEnd.ifdef \in Seq(U) /\ atEnd.endif \in Seq(E)
  <2> DEFINE B == Seq(U)
             C == Seq(E)
  <2>1. atEnd \in [ifndef : B, ifdef : B, endif : C] BY DEF Late
  <2> HIDE DEF B, C
  <2>2. atEnd.ifndef \in B /\ atEnd.ifdef \in B /\ atEnd.endif \in C BY <2>1
  <2> QED BY <2>2 DEF B, C
<1> HIDE DEF U, E
<1>3. ASSUME NEW list \in {"ifndef", "ifdef"}, NEW i \in DOMAIN atEnd[list]
      PROVE  /\ conditions(list)[i].op \in {list, "skip"}
             /\ conditions(list)[i].user = atEnd[list][i].user
             /\ conditions(list)[i].usee = atEnd[list][i].usee
             /\ conditions(list)[i] \in S
  <2>1. conditions(list)[i] = CallAtEnd(list, atEnd[list][i].user, atEnd[list][i].usee)
    OBVIOUS
  <2>2. conditions(list)[i] \in S OBVIOUS
  <2> HIDE DEF conditions, S
  <2> QED BY <2>1, <2>2 DEF CallAtEnd, CallOf
<1>4. ASSUME NEW i \in DOMAIN atEnd.endif
      PROVE  ends[i].op \in {"endif", "skip"} /\ ends[i] \in S
  <2>1. ends[i] = CallAtEnd("endif", atEnd.endif[i], atEnd.endif[i]) OBVIOUS
  <2>2. ends[i] \in S OBVIOUS
  <2> HIDE DEF ends, S
  <2> QED BY <2>1, <2>2 DEF CallAtEnd, CallOf
<1>5. \A c \in S : \/ \E list \in {"ifndef", "ifdef"} : \E i \in DOMAIN atEnd[list] :
                        c = conditions(list)[i]
                   \/ \E i \in DOMAIN atEnd.endif : c = ends[i]
  BY Zenon
<1>6. ASSUME NEW list \in {"ifndef", "ifdef"}
      PROVE  conditions(list) \in [DOMAIN atEnd[list] -> S]
  BY <1>3
<1>7. ends \in [DOMAIN atEnd.endif -> S]
  BY <1>4
<1> HIDE DEF conditions, ends, S
<1>8. conditions("ifndef") \in Seq(S) /\ conditions("ifdef") \in Seq(S) /\ ends \in Seq(S)
  <2>1. /\ Len(atEnd.ifndef) \in Nat /\ DOMAIN atEnd.ifndef = 1 .. Len(atEnd.ifndef)
        /\ Len(atEnd.ifdef) \in Nat /\ DOMAIN atEnd.ifdef = 1 .. Len(atEnd.ifdef)
        /\ Len(atEnd.endif) \in Nat /\ DOMAIN atEnd.endif = 1 .. Len(atEnd.endif)
    BY <1>2, SeqParts
  <2>2. /\ conditions("ifndef") \in [DOMAIN atEnd.ifndef -> S]
        /\ conditions("ifdef") \in [DOMAIN atEnd.ifdef -> S]
    BY <1>6
  <2>3. \A T : \A n \in Nat : [1 .. n -> T] \subseteq Seq(T) OBVIOUS
  <2> QED BY <1>7, <2>1, <2>2, <2>3
<1>9. todo' \in Seq(S) BY <1>1, <1>8, SomeCalls
<1>10. ASSUME NEW i \in DOMAIN todo'
       PROVE  /\ todo'[i].op \notin {"use", "follow", "defined"}
              /\ todo'[i].op \in UseLists =>
                   \E list \in {"ifndef", "ifdef"} : \E j \in DOMAIN atEnd[list] :
                     todo'[i].user = atEnd[list][j].user /\ todo'[i].usee = atEnd[list][j].usee
  <2>1. todo'[i] \in S BY <1>9, SeqParts
  <2>2. CASE \E j \in DOMAIN atEnd.endif : todo'[i] = ends[j]
    BY <1>4, <2>2 DEF UseLists
  <2>3. ASSUME NEW list \in {"ifndef", "ifdef"}, NEW j \in DOMAIN atEnd[list],
               todo'[i] = conditions(list)[j]
        PROVE  /\ todo'[i].op \notin {"use", "follow", "defined"}
               /\ todo'[i].user = atEnd[list][j].user /\ todo'[i].usee = atEnd[list][j].usee
    BY <1>3, <2>3
  <2> QED BY <1>5, <2>1, <2>2, <2>3
<1> QED BY <1>10

LEMMA CurrentUsesStep ==
  ASSUME Moving, Lexing, OpenDecls, Recorded, Latest, CurrentUses, [PluginNext]_pluginVars
  PROVE  CurrentUses'
<1> USE DEF Lexing
<1>1. ASSUME NEW i \in DOMAIN todo, todo[i].op = "use", UNCHANGED history
      PROVE  Current(text', file', history', todo[i].usee)
  <2>1. todo[i] \in Calls(text, file, stack, atEnd) BY SeqParts DEF Calling
  <2>2. todo[i].usee.n \in DOMAIN file BY <2>1 DEF Calls, CallIn, LexedIn
  <2>3. Current(text, file, history, todo[i].usee) BY <1>1 DEF CurrentUses
  <2> QED BY <1>1, <2>2, <2>3, ItemStays DEF Current
<1>2. CASE Perform
  <2>1. todo # <<>> /\ todo' = Tail(todo) /\ UNCHANGED history BY <1>2 DEF Perform
  <2>2. \A i \in DOMAIN todo' : i + 1 \in DOMAIN todo /\ todo'[i] = todo[i + 1]
    BY <2>1, RestOfCalls
  <2> QED BY <1>1, <2>1, <2>2 DEF CurrentUses
<1>3. CASE UNCHANGED pluginVars
  <2>1. UNCHANGED <<todo, history>> BY <1>3 DEF pluginVars, plugin
  <2> QED BY <1>1, <2>1 DEF CurrentUses
<1>4. CASE todo = <<>>
  <2>1. CASE Unconditional(text', file', history', todo')
    BY <2>1 DEF Unconditional, CurrentUses
  <2>2. CASE HandleTranslationUnit
    BY <2>2, CallsForEntries DEF CurrentUses
  <2>3. CASE If
    <3>1. UNCHANGED history BY <2>3 DEF If
    <3>2. Item.arg \in Macros
      <4>1. Lexes(Ifs) BY <2>3 DEF If
      <4> QED BY <4>1, AtItem DEF Moving, ItemOK
    <3>3. macro[Item.arg] # None => Current(text', file', history', macro[Item.arg])
      BY <3>1, <3>2, CurrentMacro
    <3>4. ASSUME NEW i \in DOMAIN todo', todo'[i].op = "use"
          PROVE  macro[Item.arg] # None /\ todo'[i].usee = macro[Item.arg]
      BY <2>3, <3>4, CallsOfCondition DEF UseCall, CallOf, Ask
    <3> QED BY <3>3, <3>4 DEF CurrentUses
  <2> QED BY <1>4, <2>1, <2>2, <2>3, CallsBegun
<1> QED BY <1>2, <1>3, <1>4, OnlyCallsAsk

-----------------------------------------------------------------------------
(* Uses of definitions that are put off.                                   *)

\* The code at x uses the text at p of file f, in some inclusion.
UsesText(x, f, p) == \E u \in uses : u[1] = x /\ u[2].f = f /\ u[2].p = p

\* If s is a definition, r uses it, in some inclusion.
Used(r, s) ==
  ItemIn(text, file, s).op = "define" =>
    r.n \in DOMAIN band /\ UsesText(Begin(RangeOf(r)), file[s.n], s.beg)

\* Calls that put a use off come after the use is made.
LateCallsUsed ==
  \A i \in DOMAIN todo : todo[i].op \in UseLists =>
    \/ Used(todo[i].user, todo[i].usee)
    \/ /\ i > 1 /\ todo[i - 1].op = "use"
       /\ todo[i - 1].user = todo[i].user /\ todo[i - 1].usee = todo[i].usee

LateUsed ==
  \A list \in {"ifndef", "ifdef"} : \A i \in DOMAIN atEnd[list] :
    \/ Used(atEnd[list][i].user, atEnd[list][i].usee)
    \/ \E j \in DOMAIN todo : /\ todo[j].op = "use" /\ todo[j].user = atEnd[list][i].user
                              /\ todo[j].usee = atEnd[list][i].usee

ExtraUsed ==
  /\ \A list \in UseLists : extra[list] \in Seq(MadeAtOnce(text, uses))
  /\ phase = "collect" => Directed(g, uses)

\* What it takes for these to hold after a step.
LEMMA LateCallsNext ==
  ASSUME \A i \in DOMAIN todo' : todo'[i].op \in UseLists =>
           \A r, s : r = todo'[i].user /\ s = todo'[i].usee =>
             \/ Used(r, s)'
             \/ i > 1 /\ todo'[i - 1].op = "use" /\ todo'[i - 1].user = r /\ todo'[i - 1].usee = s
  PROVE  LateCallsUsed'
BY DEF LateCallsUsed, Used, RangeOf, Band

LEMMA LateNext ==
  ASSUME \A list \in {"ifndef", "ifdef"} : \A i \in DOMAIN atEnd'[list] : \A r, s :
           r = atEnd'[list][i].user /\ s = atEnd'[list][i].usee =>
             \/ Used(r, s)'
             \/ \E j \in DOMAIN todo' : /\ todo'[j].op = "use"
                                        /\ todo'[j].user = r /\ todo'[j].usee = s
  PROVE  LateUsed'
BY DEF LateUsed, Used, RangeOf, Band

\* An inclusion keeps its band.
LEMMA BandedStays ==
  ASSUME PluginInv, [PluginNext]_pluginVars, NEW r, r.n \in DOMAIN band
  PROVE  /\ r.n \in DOMAIN band' /\ r.n \in DOMAIN file
         /\ RangeOf(r)' = RangeOf(r) /\ file'[r.n] = file[r.n]
<1>1. Moving /\ Banded /\ Asking BY PluginInvStep DEF PluginInv
<1>2. r.n \in DOMAIN file /\ file'[r.n] = file[r.n] BY <1>1 DEF Banded, Moving, Onward
<1>3. CASE Perform
  <2>1. r.n \in DOMAIN band' BY <1>1, <1>3, OneAsked
  <2> QED BY <1>1, <1>2, <1>3, <2>1, RangeKept
<1>4. CASE UNCHANGED band
  BY <1>2, <1>4 DEF RangeOf, Band
<1>5. CASE UNCHANGED pluginVars
  BY <1>4, <1>5 DEF pluginVars, plugin
<1> QED BY <1>3, <1>4, <1>5, OnlyCallsAsk

LEMMA UsedStays ==
  ASSUME PluginInv, [PluginNext]_pluginVars, NEW r, NEW s, s.n \in DOMAIN file, Used(r, s)
  PROVE  Used(r, s)'
<1>1. Moving BY PluginInvStep
<1>2. /\ ItemIn(text', file', s) = ItemIn(text, file, s) /\ file'[s.n] = file[s.n]
  BY <1>1, ItemStays
<1>3. uses \subseteq uses' BY FollowsStays
<1>4. r.n \in DOMAIN band => r.n \in DOMAIN band' /\ RangeOf(r)' = RangeOf(r)
  BY BandedStays
<1>5. ASSUME NEW x, UsesText(x, file[s.n], s.beg)
      PROVE  \E u \in uses' : u[1] = x /\ u[2].f = file'[s.n] /\ u[2].p = s.beg
  BY <1>2, <1>3, <1>5 DEF UsesText
<1>6. CASE ItemIn(text, file, s).op = "define"
  <2>1. r.n \in DOMAIN band /\ UsesText(Begin(RangeOf(r)), file[s.n], s.beg)
    BY <1>6 DEF Used
  <2>2. PICK y : y = RangeOf(r) OBVIOUS
  <2>3. RangeOf(r)' = y /\ r.n \in DOMAIN band' BY <1>4, <2>1, <2>2
  <2>4. \E u \in uses' : u[1] = Begin(y) /\ u[2].f = file'[s.n] /\ u[2].p = s.beg
    BY <1>5, <2>1, <2>2
  <2> QED BY <2>3, <2>4 DEF Used, UsesText
<1>7. CASE ItemIn(text, file, s).op # "define"
  BY <1>2, <1>7 DEF Used
<1> QED BY <1>6, <1>7

\* A use is made.
LEMMA UsePerformed ==
  ASSUME PluginInv, Perform, Head(todo).op = "use",
         NEW r, r = Head(todo).user, NEW s, s = Head(todo).usee
  PROVE  Used(r, s)'
<1>1. /\ todo # <<>> /\ Make(Head(todo)) /\ UNCHANGED file
      /\ Calling /\ Reading /\ Banded /\ Asking
  BY DEF Perform, PluginInv, Lexing, clang
<1>2. /\ r.n \in DOMAIN band' /\ s.n \in DOMAIN band' BY <1>1, OneAsked
<1>3. RangeOf(r)' = RangeOf(r) /\ RangeOf(s)' = RangeOf(s) BY <1>1, <1>2, RangeKept
<1>4. PICK y : y = RangeOf(r) OBVIOUS
<1>5. PICK z : z = RangeOf(s) OBVIOUS
<1>6. uses' = uses \cup {<<Begin(y), Begin(z)>>} BY <1>1, <1>4, <1>5 DEF Make, UseCode
<1>7. z.f = file[s.n] /\ z.beg = s.beg BY <1>5 DEF RangeOf
<1>8. <<Begin(y), Begin(z)>> \in uses' /\ Begin(z).f = file'[s.n] /\ Begin(z).p = s.beg
  BY <1>1, <1>6, <1>7 DEF Begin
<1>9. \E u \in uses' : u[1] = Begin(y) /\ u[2].f = file'[s.n] /\ u[2].p = s.beg
  BY <1>8
<1>10. RangeOf(r)' = y BY <1>3, <1>4
<1> QED BY <1>2, <1>9, <1>10 DEF Used, UsesText

\* The place of the use is in an inclusion that clang has entered.
LEMMA CallPlaces ==
  ASSUME Calling, NEW i \in DOMAIN todo
  PROVE  todo[i].user.n \in DOMAIN file /\ todo[i].usee.n \in DOMAIN file
<1>1. todo[i] \in Calls(text, file, stack, atEnd) BY SeqParts DEF Calling
<1> QED BY <1>1 DEF Calls, CallIn, LexedIn

LEMMA LatePlaces ==
  ASSUME Late, NEW list \in {"ifndef", "ifdef"}, NEW i \in DOMAIN atEnd[list]
  PROVE  /\ atEnd[list][i].user.n \in DOMAIN file /\ atEnd[list][i].usee.n \in DOMAIN file
<1> DEFINE U == Uses(text, file, stack, atEnd)
           A == Seq(U)
           B == Seq(Ends(text, file, stack))
<1>1. atEnd \in [ifndef : A, ifdef : A, endif : B] BY DEF Late
<1> HIDE DEF A, B
<1>2. atEnd[list] \in A BY <1>1
<1> HIDE DEF U
<1>3. atEnd[list][i] \in U BY <1>2, SeqParts DEF A
<1> QED BY <1>3 DEF U, Uses, LateIn, SeenIn, LexedIn

LEMMA LateCallsStep ==
  ASSUME PluginInv, OpenDecls, Recorded, Latest, LateCallsUsed, LateUsed,
         [PluginNext]_pluginVars
  PROVE  LateCallsUsed'
<1>1. Moving /\ Lexing /\ Calling /\ Late /\ Defining /\ Expanding /\ Declarations
  BY PluginInvStep DEF PluginInv, Lexing
<1>2. ASSUME NEW i \in DOMAIN todo, NEW r, NEW s, r = todo[i].user, s = todo[i].usee, Used(r, s)
      PROVE  Used(r, s)'
  <2>1. s.n \in DOMAIN file BY <1>1, <1>2, CallPlaces
  <2> QED BY <1>2, <2>1, UsedStays
<1>3. CASE UNCHANGED pluginVars
  <2>1. UNCHANGED todo BY <1>3 DEF pluginVars, plugin
  <2> QED BY <1>2, <2>1, LateCallsNext DEF LateCallsUsed
<1>4. CASE Perform
  <2>1. todo # <<>> /\ todo' = Tail(todo) BY <1>4 DEF Perform
  <2>2. /\ Head(todo) = todo[1] /\ 1 \in DOMAIN todo
        /\ \A i \in DOMAIN todo' : /\ i \in Nat /\ i >= 1 /\ i + 1 \in DOMAIN todo
                                   /\ todo'[i] = todo[i + 1]
    BY <1>1, <2>1, RestOfCalls
  <2>3. DOMAIN todo' = 1 .. Len(todo')
    <3> DEFINE S == Calls(text, file, stack, atEnd)
    <3>1. todo \in Seq(S) BY <1>1 DEF Calling
    <3> HIDE DEF S
    <3>2. todo' \in Seq(S) BY <2>1, <3>1
    <3> QED BY <3>2
  <2>4. ASSUME NEW i \in DOMAIN todo', todo'[i].op \in UseLists,
               NEW r, NEW s, r = todo'[i].user, s = todo'[i].usee
        PROVE  \/ Used(r, s)'
               \/ /\ i > 1 /\ todo'[i - 1].op = "use"
                  /\ todo'[i - 1].user = r /\ todo'[i - 1].usee = s
    <3>1. /\ i \in Nat /\ i >= 1 /\ i + 1 \in DOMAIN todo /\ (i + 1) - 1 = i
          /\ todo'[i] = todo[i + 1]
      BY <2>2
    <3>2. \/ Used(r, s)
          \/ todo[i].op = "use" /\ todo[i].user = r /\ todo[i].usee = s
      BY <2>4, <3>1 DEF LateCallsUsed
    <3>3. CASE Used(r, s) BY <1>2, <2>4, <3>1, <3>3
    <3>4. CASE todo[i].op = "use" /\ todo[i].user = r /\ todo[i].usee = s
      <4>1. CASE i = 1 BY <1>4, <2>2, <3>4, <4>1, UsePerformed
      <4>2. CASE i # 1
        <5>1. i > 1 /\ i - 1 \in DOMAIN todo' /\ (i - 1) + 1 = i BY <2>3, <3>1, <4>2
        <5> QED BY <2>2, <3>4, <5>1
      <4> QED BY <4>1, <4>2
    <3> QED BY <3>2, <3>3, <3>4
  <2> QED BY <2>4, LateCallsNext
<1>5. CASE todo = <<>>
  <2>1. CASE Unconditional(text', file', history', todo')
    BY <2>1 DEF Unconditional, LateCallsUsed
  <2>2. CASE If
    <3>1. ASSUME NEW i \in DOMAIN todo', todo'[i].op \in UseLists,
                 NEW r, NEW s, r = todo'[i].user, s = todo'[i].usee
          PROVE  /\ i > 1 /\ todo'[i - 1].op = "use"
                 /\ todo'[i - 1].user = r /\ todo'[i - 1].usee = s
      <4> DEFINE a == UseCall(This, macro[Item.arg])
                 b == CallOf("defined", This, macro[Item.arg], None)
      <4>1. todo' = <<>> \/ todo' = <<Ask(This)>> \/ todo' = <<a>> \/ todo' = <<a, b>>
        BY <2>2, CallsOfCondition
      <4>2. /\ a.op = "use" /\ a.user = This /\ a.usee = macro[Item.arg]
            /\ b.op = "defined" /\ b.user = This /\ b.usee = macro[Item.arg]
            /\ Ask(This).op = "ask"
        BY DEF UseCall, CallOf, Ask
      <4> HIDE DEF a, b
      <4>3. todo'[i] = Ask(This) \/ todo'[i] = a \/ (i = 2 /\ todo' = <<a, b>>)
        BY <3>1, <4>1
      <4>4. i = 2 /\ todo'[2] = b /\ todo'[1] = a
        <5>1. i = 2 /\ todo' = <<a, b>> BY <3>1, <4>2, <4>3 DEF UseLists
        <5> QED BY <5>1
      <4> QED BY <3>1, <4>2, <4>4
    <3> QED BY <3>1, LateCallsNext
  <2>3. CASE HandleTranslationUnit
    <3>1. ASSUME NEW i \in DOMAIN todo', todo'[i].op \in UseLists,
                 NEW r, NEW s, r = todo'[i].user, s = todo'[i].usee
          PROVE  Used(r, s)'
      <4>1. PICK list \in {"ifndef", "ifdef"} : \E j \in DOMAIN atEnd[list] :
              r = atEnd[list][j].user /\ s = atEnd[list][j].usee
        BY <1>1, <2>3, <3>1, CallsForEntries
      <4>2. Used(r, s) BY <1>5, <4>1 DEF LateUsed
      <4>3. s.n \in DOMAIN file BY <1>1, <4>1, LatePlaces
      <4> QED BY <4>2, <4>3, UsedStays
    <3> QED BY <3>1, LateCallsNext
  <2> QED BY <1>1, <1>5, <2>1, <2>2, <2>3, CallsBegun
<1> QED BY <1>3, <1>4, <1>5, OnlyCallsAsk

\* What an #if puts off.
LEMMA IfEntries ==
  ASSUME Late, If
  PROVE  \A list \in {"ifndef", "ifdef"} : \A i \in DOMAIN atEnd'[list] :
           \/ i \in DOMAIN atEnd[list] /\ atEnd'[list][i] = atEnd[list][i]
           \/ /\ Item.op # "ifdefined" /\ atEnd'[list][i].user = This
              /\ atEnd'[list][i].usee = IF macro[Item.arg] = None THEN This ELSE macro[Item.arg]
<1> DEFINE usee == macro[Item.arg]
           use == [user |-> This, usee |-> IF usee = None THEN This ELSE usee, name |-> Item.arg]
           A == Seq(Uses(text, file, stack, atEnd))
           B == Seq(Ends(text, file, stack))
<1>1. PutOff(Item.op, usee) BY DEF If
<1>2. \/ atEnd' = atEnd
      \/ /\ Item.op # "ifdefined"
         /\ \E l \in {"ifndef", "ifdef"} : atEnd' = [atEnd EXCEPT ![l] = Append(atEnd[l], use)]
  BY <1>1 DEF PutOff
<1>3. /\ use.user = This
      /\ use.usee = IF macro[Item.arg] = None THEN This ELSE macro[Item.arg]
  OBVIOUS
<1>4. atEnd \in [ifndef : A, ifdef : A, endif : B] BY DEF Late
<1> HIDE DEF A, B, use
<1>5. CASE atEnd' = atEnd BY <1>5
<1>6. ASSUME NEW l \in {"ifndef", "ifdef"}, Item.op # "ifdefined",
             atEnd' = [atEnd EXCEPT ![l] = Append(atEnd[l], use)],
             NEW list \in {"ifndef", "ifdef"}, NEW i \in DOMAIN atEnd'[list]
      PROVE  (i \in DOMAIN atEnd[list] /\ atEnd'[list][i] = atEnd[list][i])
             \/ atEnd'[list][i] = use
  <2> DEFINE y == Append(atEnd[l], use)
  <2>1. atEnd[l] \in A BY <1>4
  <2>2. \A j \in DOMAIN y : (j \in DOMAIN atEnd[l] /\ y[j] = atEnd[l][j]) \/ y[j] = use
    BY <2>1 DEF A
  <2>3. atEnd' = [atEnd EXCEPT ![l] = y] BY <1>6
  <2> HIDE DEF y
  <2>4. atEnd'[list] = IF list = l THEN y ELSE atEnd[list] BY <1>4, <2>3
  <2> QED BY <1>6, <2>2, <2>4
<1> QED BY <1>2, <1>3, <1>5, <1>6

LEMMA LateUsedStep ==
  ASSUME PluginInv, LateUsed, [PluginNext]_pluginVars
  PROVE  LateUsed'
<1>1. Moving /\ Calling /\ Late BY PluginInvStep DEF PluginInv, Lexing
<1>2. ASSUME NEW list \in {"ifndef", "ifdef"}, NEW i \in DOMAIN atEnd[list],
             NEW r, NEW s, r = atEnd[list][i].user, s = atEnd[list][i].usee
      PROVE  \/ Used(r, s)'
             \/ \E j \in DOMAIN todo : todo[j].op = "use" /\ todo[j].user = r /\ todo[j].usee = s
  <2>1. \/ Used(r, s)
        \/ \E j \in DOMAIN todo : todo[j].op = "use" /\ todo[j].user = r /\ todo[j].usee = s
    BY <1>2 DEF LateUsed
  <2>2. s.n \in DOMAIN file BY <1>1, <1>2, LatePlaces
  <2> QED BY <2>1, <2>2, UsedStays
<1>3. CASE todo = <<>> /\ ~If
  <2>1. UNCHANGED <<atEnd.ifndef, atEnd.ifdef>>
    <3>1. CASE EndifSeen
      <4> DEFINE A == Seq(Uses(text, file, stack, atEnd))
                 B == Seq(Ends(text, file, stack))
      <4>1. atEnd \in [ifndef : A, ifdef : A, endif : B] BY <1>1 DEF Late
      <4>2. \E y : atEnd' = [atEnd EXCEPT !.endif = y] BY <3>1 DEF EndifSeen
      <4> HIDE DEF A, B
      <4> QED BY <4>1, <4>2
    <3>2. CASE UNCHANGED atEnd BY <3>2
    <3> QED
      BY <1>3, <3>1, <3>2, Zenon
         DEF PluginNext, pluginVars, clang, plugin, Perform, MacroDefined, MacroUndefined,
             MacroExpands, NestedMacroExpands, Else, InclusionDirective, FileChanged, DeclBegins,
             DeclRefers, DeclEnds, EndOfMain, HandleTranslationUnit, FinalizeRuns
  <2>2. DOMAIN todo = {} BY <1>3
  <2>3. \A list \in {"ifndef", "ifdef"} : atEnd'[list] = atEnd[list] BY <2>1
  <2>4. ASSUME NEW list \in {"ifndef", "ifdef"}, NEW i \in DOMAIN atEnd'[list],
               NEW r, NEW s, r = atEnd'[list][i].user, s = atEnd'[list][i].usee
        PROVE  Used(r, s)'
    <3>1. i \in DOMAIN atEnd[list] /\ r = atEnd[list][i].user /\ s = atEnd[list][i].usee
      BY <2>3, <2>4
    <3> QED BY <1>2, <2>2, <3>1
  <2> QED BY <2>4, LateNext
<1>4. CASE Perform
  <2>1. todo # <<>> /\ todo' = Tail(todo) /\ UNCHANGED atEnd BY <1>4 DEF Perform
  <2>2. /\ Head(todo) = todo[1] /\ 1 \in DOMAIN todo
        /\ \A i \in DOMAIN todo' : todo'[i] = todo[i + 1]
        /\ \A j \in DOMAIN todo : j # 1 => \E i \in DOMAIN todo' : j = i + 1
    BY <1>1, <2>1, RestOfCalls
  <2>3. ASSUME NEW r, NEW s, NEW j \in DOMAIN todo,
               todo[j].op = "use" /\ todo[j].user = r /\ todo[j].usee = s
        PROVE  \/ Used(r, s)'
               \/ \E k \in DOMAIN todo' :
                    todo'[k].op = "use" /\ todo'[k].user = r /\ todo'[k].usee = s
    <3>1. CASE j = 1 BY <1>4, <2>2, <2>3, <3>1, UsePerformed
    <3>2. CASE j # 1 BY <2>2, <2>3, <3>2
    <3> QED BY <3>1, <3>2
  <2>4. ASSUME NEW list \in {"ifndef", "ifdef"}, NEW i \in DOMAIN atEnd'[list],
               NEW r, NEW s, r = atEnd'[list][i].user, s = atEnd'[list][i].usee
        PROVE  \/ Used(r, s)'
               \/ \E k \in DOMAIN todo' :
                    todo'[k].op = "use" /\ todo'[k].user = r /\ todo'[k].usee = s
    <3>1. i \in DOMAIN atEnd[list] /\ r = atEnd[list][i].user /\ s = atEnd[list][i].usee
      BY <2>1, <2>4
    <3> QED BY <1>2, <2>3, <3>1
  <2> QED BY <2>4, LateNext
<1>5. CASE If
  <2>1. DOMAIN todo = {} /\ Lexes(Ifs) /\ UNCHANGED file
    <3>1. todo = <<>> /\ Lexes(Ifs) /\ UNCHANGED file BY <1>5 DEF If, Lexes
    <3> QED BY <3>1
  <2>2. ItemIn(text', file', This).op # "define"
    <3>1. Item.op \in Ifs BY <1>1, <2>1, AtItem DEF Moving
    <3>2. ItemIn(text, file, This) = Item /\ UNCHANGED text
      BY <1>1 DEF ItemIn, This, Piece, Item, Moving
    <3>3. ItemIn(text', file', This) = Item BY <2>1, <3>2 DEF ItemIn
    <3> QED BY <3>1, <3>3 DEF Ifs
  <2>3. ASSUME NEW list \in {"ifndef", "ifdef"}, NEW i \in DOMAIN atEnd'[list],
               NEW r, NEW s, r = atEnd'[list][i].user, s = atEnd'[list][i].usee
        PROVE  \/ Used(r, s)'
               \/ \E k \in DOMAIN todo' :
                    todo'[k].op = "use" /\ todo'[k].user = r /\ todo'[k].usee = s
    <3>1. CASE i \in DOMAIN atEnd[list] /\ atEnd'[list][i] = atEnd[list][i]
      BY <1>2, <2>1, <2>3, <3>1
    <3>2. CASE /\ Item.op # "ifdefined" /\ r = This
               /\ s = IF macro[Item.arg] = None THEN This ELSE macro[Item.arg]
      <4>1. CASE macro[Item.arg] = None
        <5>1. ItemIn(text', file', s).op # "define" BY <2>2, <3>2, <4>1
        <5> QED BY <5>1 DEF Used
      <4>2. CASE macro[Item.arg] # None
        <5> DEFINE c == UseCall(This, macro[Item.arg])
        <5>1. todo' = <<c>> \o <<>> BY <1>5, <3>2, <4>2 DEF If, ConditionCalls
        <5>2. c.op = "use" /\ c.user = r /\ c.usee = s BY <3>2, <4>2 DEF UseCall, CallOf
        <5> HIDE DEF c
        <5>3. 1 \in DOMAIN todo' /\ todo'[1] = c BY <5>1
        <5> QED BY <5>2, <5>3
      <4> QED BY <4>1, <4>2
    <3> QED BY <1>1, <1>5, <2>3, <3>1, <3>2, IfEntries
  <2> QED BY <2>3, LateNext
<1>6. CASE UNCHANGED pluginVars
  <2>1. UNCHANGED <<todo, atEnd>> BY <1>6 DEF pluginVars, plugin
  <2>2. ASSUME NEW list \in {"ifndef", "ifdef"}, NEW i \in DOMAIN atEnd'[list],
               NEW r, NEW s, r = atEnd'[list][i].user, s = atEnd'[list][i].usee
        PROVE  \/ Used(r, s)'
               \/ \E k \in DOMAIN todo' :
                    todo'[k].op = "use" /\ todo'[k].user = r /\ todo'[k].usee = s
    BY <1>2, <2>1, <2>2
  <2> QED BY <2>2, LateNext
<1> QED BY <1>3, <1>4, <1>5, <1>6, OnlyCallsAsk

\* A call into the collector, with respect to uses.
LEMMA PerformUses ==
  ASSUME PluginInv, LateCallsUsed, ExtraUsed, Perform,
         NEW user, user = RangeOf(Head(todo).user), NEW usee, usee = RangeOf(Head(todo).usee)
  PROVE  /\ Head(todo).op \notin {"ask", "skip"} => phase = "collect" /\ phase' = "collect"
         /\ uses' = IF Head(todo).op = "use" THEN uses \cup {<<Begin(user), Begin(usee)>>} ELSE uses
         /\ Head(todo).op = "follow" =>
              \A x : <<x, Begin(user)>> \in uses => Follows(g', uses', x, Begin(user), Begin(usee))
         /\ ExtraUsed'
<1> DEFINE c == Head(todo)
<1>0. Moving /\ Inv /\ Calling /\ Reading /\ Banded
  <2>1. PluginNext BY DEF PluginNext
  <2> QED BY <2>1, PluginInvStep DEF PluginInv, Lexing
<1>1. /\ Moving /\ Inv /\ Calling /\ Reading /\ Banded /\ todo # <<>> /\ todo' = Tail(todo)
      /\ Make(c) /\ UNCHANGED text
  BY <1>0 DEF Perform, Moving
<1>2. user \in SourceRange /\ usee \in SourceRange BY <1>1, NextCall
<1>3. CASE c.op \in {"ask", "skip"}
  <2>1. UNCHANGED <<extra, uses, g, phase>> BY <1>1, <1>3 DEF Make, vars
  <2> QED BY <1>1, <1>3, <2>1 DEF ExtraUsed, MadeAtOnce
<1>4. CASE c.op \notin {"ask", "skip"}
  <2>1. phase = "collect"
    BY <1>1, <1>4 DEF Make, Call, AddCode, UseCode, Follow, GlobalCode, StaticCode, SymbolCode,
                      Inclusion, Conditional, Endif
  <2>2. Directed(g, uses) /\ \A list \in UseLists : extra[list] \in Seq(MadeAtOnce(text, uses))
    BY <2>1 DEF ExtraUsed
  <2>3. ASSUME c.op \in UseLists, text[usee.f][usee.beg + 1].op = "define"
        PROVE  \E u \in uses : u[1] = Begin(user) /\ u[2].f = usee.f /\ u[2].p = usee.beg
    <3>1. c = todo[1] /\ 1 \in DOMAIN todo BY <1>1, RestOfCalls
    <3>2. Used(c.user, c.usee) BY <2>3, <3>1 DEF LateCallsUsed
    <3>3. usee.f = file[c.usee.n] /\ usee.beg = c.usee.beg BY DEF RangeOf
    <3> HIDE DEF c
    <3>4. UsesText(Begin(user), usee.f, usee.beg) BY <2>3, <3>2, <3>3 DEF Used, ItemIn, c
    <3> QED BY <3>4 DEF UsesText
  <2>4. PICK t : t = text OBVIOUS
  <2> HIDE DEF c
  <2>5. /\ phase = "collect" /\ phase' = "collect"
        /\ uses' = IF c.op = "use" THEN uses \cup {<<Begin(user), Begin(usee)>>} ELSE uses
        /\ Directed(g', uses')
        /\ c.op = "follow" =>
             \A x : <<x, Begin(user)>> \in uses => Follows(g', uses', x, Begin(user), Begin(usee))
        /\ \A list \in UseLists : extra'[list] \in Seq(MadeAtOnce(t, uses'))
    <3>1. user = RangeOf(c.user) /\ usee = RangeOf(c.usee) BY DEF c
    <3> QED BY <1>1, <1>2, <1>4, <2>2, <2>3, <2>4, <3>1, CallUses
  <2>6. ExtraUsed' BY <1>1, <2>4, <2>5 DEF ExtraUsed, MadeAtOnce
  <2> QED BY <2>5, <2>6 DEF c
<1> QED BY <1>3, <1>4

\* An iteration of finalize's loops uses the text of a definition only from where it was used.
LEMMA FinalizedUses ==
  ASSUME PluginInv, ExtraUsed, FinalizeRuns
  PROVE  /\ uses \subseteq uses'
         /\ \A u \in uses' : u \in uses \/
              (text[u[2].f][u[2].p + 1].op = "define" => UsesText(u[1], u[2].f, u[2].p))
         /\ ExtraUsed'
<1>1. Inv /\ FinalizeStep /\ UNCHANGED text BY DEF PluginInv, FinalizeRuns, clang
<1>2. PICK t : t = text OBVIOUS
<1>3. \A list \in UseLists : extra[list] \in Seq(MadeAtOnce(t, uses)) BY <1>2 DEF ExtraUsed
<1>4. /\ phase' # "collect" /\ uses \subseteq uses'
      /\ \A u \in uses' : u \in uses \/
           (t[u[2].f][u[2].p + 1].op = "define" =>
              \E w \in uses : w[1] = u[1] /\ w[2].f = u[2].f /\ w[2].p = u[2].p)
      /\ \A list \in UseLists : extra'[list] \in Seq(MadeAtOnce(t, uses'))
  BY <1>1, <1>3, FinalizeUses
<1>5. ExtraUsed' BY <1>1, <1>2, <1>4 DEF ExtraUsed, MadeAtOnce
<1> QED BY <1>2, <1>4, <1>5 DEF UsesText

LEMMA ExtraUsedStep ==
  ASSUME PluginInv, LateCallsUsed, ExtraUsed, [PluginNext]_pluginVars
  PROVE  ExtraUsed'
<1>1. Lexing /\ Banded /\ Moving BY PluginInvStep DEF PluginInv
<1>2. CASE Perform
  BY <1>2, PerformUses
<1>3. CASE FinalizeRuns
  BY <1>3, FinalizedUses
<1>4. CASE UNCHANGED vars
  BY <1>1, <1>4 DEF vars, ExtraUsed, MadeAtOnce, Moving
<1> QED BY <1>1, <1>2, <1>3, <1>4, CollectorMoves

-----------------------------------------------------------------------------
(* Definitions that follow one another.                                    *)

FollowCall(d, e) ==
  \E i \in DOMAIN todo : todo[i].op = "follow" /\ todo[i].user = d /\ todo[i].usee = e

Settled(d, e) ==
  /\ d.n \in DOMAIN band /\ e.n \in DOMAIN band
  /\ \A x \in UsersOf(d) : \/ Follows(g, uses, x, Begin(RangeOf(d)), Begin(RangeOf(e)))
                           \/ UsesCopy(x, d)

\* Definition e comes after d, and so do its users, or the call that sees to it is still to
\* be made; unless one of the two is a copy.
AllSettled ==
  \A m \in Macros : \A i \in 1 .. Len(history[m]) - 1 : \A d, e :
    d = history[m][i] /\ e = history[m][i + 1] =>
      Counterpart(d, e) \/ IsCopy(m, i) \/ FollowCall(d, e) \/ Settled(d, e)

LEMMA UsersAre ==
  ASSUME PluginInv, NEW d
  PROVE  \A x : x \in UsersOf(d) <=> <<x, Begin(RangeOf(d))>> \in uses
<1>1. uses \in SUBSET (Pos \X Pos) BY DEF PluginInv, Inv, TypeOK
<1>2. PICK y : y = Begin(RangeOf(d)) OBVIOUS
<1>3. \A x : (\E u \in uses : u[2] = y /\ u[1] = x) <=> <<x, y>> \in uses
  <2>1. \A u \in uses : u = <<u[1], u[2]>> BY <1>1
  <2> QED BY <2>1
<1> QED BY <1>2, <1>3 DEF UsersOf

\* A later use of a replaced definition, if any, is by code that also uses a copy.
LEMMA NewUsers ==
  ASSUME PluginInv, Recorded, CurrentUses, LateCallsUsed, ExtraUsed, [PluginNext]_pluginVars,
         NEW m \in Macros, NEW i \in 1 .. Len(history[m]) - 1,
         NEW d, d = history[m][i], d.n \in DOMAIN band,
         NEW y, y = Begin(RangeOf(d)), NEW x, <<x, y>> \in uses'
  PROVE  <<x, y>> \in uses \/ UsesCopy(x, d)
<1>1. /\ Moving /\ Lexing /\ Calling /\ Banded /\ Asking /\ PluginInv'
  BY PluginInvStep DEF PluginInv, Lexing
<1>2. /\ Len(history[m]) \in Nat /\ i \in DOMAIN history[m] /\ i # Len(history[m])
      /\ Len(history[m]) \in DOMAIN history[m]
  BY HistoryParts
<1>3. /\ d.n \in DOMAIN file
      /\ ItemIn(text, file, d).op = "define" /\ ItemIn(text, file, d).arg = m
  BY <1>2, HistoryParts
<1>4. y.f = file[d.n] /\ y.k = Band(d.n) /\ y.p = d.beg BY DEF RangeOf, Begin
<1>5. CASE UNCHANGED vars BY <1>5 DEF vars
<1>6. CASE FinalizeRuns
  <2>1. \A u \in uses' : u \in uses \/
          (text[u[2].f][u[2].p + 1].op = "define" => UsesText(u[1], u[2].f, u[2].p))
    BY <1>6, FinalizedUses
  <2>2. CASE <<x, y>> \in uses BY <2>2
  <2>3. CASE UsesText(x, y.f, y.p)
    <3>1. PICK w \in uses : w[1] = x /\ w[2].f = y.f /\ w[2].p = y.p BY <2>3 DEF UsesText
    <3>2. w = <<w[1], w[2]>>
      <4>1. uses \in SUBSET (Pos \X Pos) BY DEF PluginInv, Inv, TypeOK
      <4> QED BY <4>1
    <3>3. w[2] = y => <<x, y>> \in uses BY <3>1, <3>2
    <3> QED BY <1>4, <3>1, <3>3 DEF UsesCopy
  <2>4. text[y.f][y.p + 1].op = "define" BY <1>3, <1>4 DEF ItemIn
  <2> QED BY <2>1, <2>2, <2>3, <2>4
<1>7. CASE Perform
  <2>1. PICK c : c = Head(todo) OBVIOUS
  <2>2. PICK user, usee : user = RangeOf(c.user) /\ usee = RangeOf(c.usee) OBVIOUS
  <2>3. uses' = IF c.op = "use" THEN uses \cup {<<Begin(user), Begin(usee)>>} ELSE uses
    BY <1>7, <2>1, <2>2, PerformUses
  <2>4. CASE c.op = "use" /\ Begin(usee) = y
    <3>1. /\ todo # <<>> /\ c = todo[1] /\ 1 \in DOMAIN todo /\ UNCHANGED file
      BY <1>1, <1>7, <2>1, RestOfCalls DEF Perform, clang
    <3>2. /\ c.usee.n \in DOMAIN band' /\ band'[c.usee.n] = Band(c.usee.n)
          /\ d.n \in DOMAIN band' /\ band'[d.n] = Band(d.n)
      BY <1>1, <1>7, <2>1, OneAsked
    <3>3. file[c.usee.n] = file[d.n] /\ Band(c.usee.n) = Band(d.n) /\ c.usee.beg = d.beg
      BY <1>4, <2>2, <2>4 DEF RangeOf, Begin
    <3>4. c.usee.n = d.n
      BY <1>1, <3>1, <3>2, <3>3 DEF PluginInv, Banded
    <3>5. ItemIn(text, file, c.usee) = ItemIn(text, file, d) BY <3>3, <3>4 DEF ItemIn
    <3>6. Current(text, file, history, c.usee) BY <2>4, <3>1 DEF CurrentUses
    <3>7. c.usee = history[m][Len(history[m])] BY <1>3, <3>5, <3>6 DEF Current
    <3> QED BY <1>2, <3>3, <3>4, <3>7 DEF Recorded
  <2>5. CASE ~(c.op = "use" /\ Begin(usee) = y) BY <2>3, <2>5
  <2> QED BY <2>4, <2>5
<1> QED BY <1>1, <1>5, <1>6, <1>7, CollectorMoves

LEMMA PiecePlaces ==
  ASSUME PluginInv, NEW r, LexedIn(text, file, stack, r)
  PROVE  RangeOf(r) \in SourceRange /\ Begin(RangeOf(r)) \in Pos
<1>1. RangeOf(r) \in SourceRange BY RangeIs DEF PluginInv, Lexing
<1> QED BY <1>1 DEF Begin, Pos, SourceRange

LEMMA SettledStays ==
  ASSUME PluginInv, Recorded, CurrentUses, LateCallsUsed, ExtraUsed, [PluginNext]_pluginVars,
         NEW m \in Macros, NEW i \in 1 .. Len(history[m]) - 1,
         NEW d, d = history[m][i], NEW e, e = history[m][i + 1], Settled(d, e)
  PROVE  Settled(d, e)'
<1>1. /\ i \in DOMAIN history[m] /\ i + 1 \in DOMAIN history[m] BY HistoryParts
<1>2. LexedIn(text, file, stack, d) /\ LexedIn(text, file, stack, e) BY <1>1, HistoryParts
<1>3. d.n \in DOMAIN band /\ e.n \in DOMAIN band BY DEF Settled
<1>4. PICK y : y = Begin(RangeOf(d)) OBVIOUS
<1>5. PICK z : z = Begin(RangeOf(e)) OBVIOUS
<1>6. y \in Pos /\ z \in Pos BY <1>2, <1>4, <1>5, PiecePlaces
<1>7. /\ d.n \in DOMAIN band' /\ e.n \in DOMAIN band' /\ file'[d.n] = file[d.n]
      /\ Begin(RangeOf(d))' = y /\ Begin(RangeOf(e))' = z
  BY <1>3, <1>4, <1>5, BandedStays DEF Begin
<1>8. /\ uses \subseteq uses' /\ uses \in SUBSET (Pos \X Pos)
      /\ \A x, a, b \in Pos : Follows(g, uses, x, a, b) => Follows(g', uses', x, a, b)
  BY FollowsStays DEF PluginInv, Inv, TypeOK
<1>9. ASSUME NEW x, UsesCopy(x, d)
      PROVE  UsesCopy(x, d)'
  <2>1. PICK u \in uses : u[1] = x /\ u[2] # y /\ u[2].f = file[d.n] /\ u[2].p = d.beg
    BY <1>4, <1>9 DEF UsesCopy
  <2>2. u \in uses' BY <1>8
  <2> QED BY <1>7, <2>1, <2>2 DEF UsesCopy
<1>10. ASSUME NEW x, <<x, y>> \in uses'
       PROVE  Follows(g', uses', x, y, z) \/ UsesCopy(x, d)'
  <2>1. CASE UsesCopy(x, d) BY <1>9, <2>1
  <2>2. CASE <<x, y>> \in uses
    <3>1. x \in UsersOf(d) /\ x \in Pos BY <1>4, <1>8, <2>2, UsersAre
    <3>2. Follows(g, uses, x, y, z) \/ UsesCopy(x, d) BY <1>4, <1>5, <3>1 DEF Settled
    <3> QED BY <1>6, <1>8, <1>9, <3>1, <3>2
  <2> QED BY <1>3, <1>4, <1>10, <2>1, <2>2, NewUsers
<1>11. ASSUME NEW x, x \in UsersOf(d)'
       PROVE  <<x, y>> \in uses'
  <2>1. PICK u \in uses' : u[1] = x /\ u[2] = y BY <1>7, <1>11 DEF UsersOf
  <2>2. u = <<u[1], u[2]>>
    <3>1. uses' \in SUBSET (Pos \X Pos) BY FollowsStays
    <3> QED BY <3>1
  <2> QED BY <2>1, <2>2
<1> QED BY <1>7, <1>10, <1>11 DEF Settled

\* The call that has the users followed.
LEMMA FollowSettles ==
  ASSUME PluginInv, LateCallsUsed, ExtraUsed, Perform, Head(todo).op = "follow",
         NEW d, d = Head(todo).user, NEW e, e = Head(todo).usee
  PROVE  Settled(d, e)'
<1>1. Asking /\ [PluginNext]_pluginVars BY DEF PluginInv, PluginNext
<1>2. d.n \in DOMAIN band' /\ e.n \in DOMAIN band' BY <1>1, OneAsked
<1>3. PICK user, usee : user = RangeOf(d) /\ usee = RangeOf(e) OBVIOUS
<1>4. RangeOf(d)' = user /\ RangeOf(e)' = usee BY <1>1, <1>2, <1>3, RangeKept
<1>5. /\ uses' = uses
      /\ \A x : <<x, Begin(user)>> \in uses => Follows(g', uses', x, Begin(user), Begin(usee))
  BY <1>3, PerformUses
<1>6. ASSUME NEW x, x \in UsersOf(d)'
      PROVE  Follows(g', uses', x, Begin(user), Begin(usee))
  <2>1. PICK u \in uses' : u[1] = x /\ u[2] = Begin(user) BY <1>4, <1>6 DEF UsersOf
  <2>2. u = <<u[1], u[2]>>
    <3>1. uses' \in SUBSET (Pos \X Pos) BY <1>1, FollowsStays
    <3> QED BY <3>1
  <2> QED BY <1>5, <2>1, <2>2
<1> QED BY <1>2, <1>4, <1>6 DEF Settled

\* What it takes for this to hold after a step.
LEMMA AllSettledNext ==
  ASSUME \A m \in Macros : \A i \in 1 .. Len(history'[m]) - 1 : \A d, e :
           d = history'[m][i] /\ e = history'[m][i + 1] =>
             Counterpart(d, e)' \/ IsCopy(m, i)' \/ FollowCall(d, e)' \/ Settled(d, e)'
  PROVE  AllSettled'
BY Zenon DEF AllSettled

LEMMA CopyStays ==
  ASSUME Moving, Recorded, NEW m \in Macros, NEW i \in DOMAIN history[m], IsCopy(m, i),
         \A j \in 1 .. i : history'[m][j] = history[m][j]
  PROVE  IsCopy(m, i)'
<1>1. i > 1 /\ Counterpart(history[m][i - 1], history[m][i]) BY DEF IsCopy
<1>2. i - 1 \in DOMAIN history[m] /\ i - 1 \in 1 .. i /\ i \in 1 .. i BY <1>1, HistoryParts
<1>3. PICK d, e : d = history[m][i - 1] /\ e = history[m][i] OBVIOUS
<1>4. d.n \in DOMAIN file /\ e.n \in DOMAIN file BY <1>2, <1>3, HistoryParts
<1>5. file'[d.n] = file[d.n] /\ file'[e.n] = file[e.n] BY <1>4, ItemStays
<1>6. history'[m][i - 1] = d /\ history'[m][i] = e BY <1>2, <1>3
<1> QED BY <1>1, <1>3, <1>5, <1>6 DEF Counterpart, IsCopy

\* Definitions that followed one another still do.
LEMMA PairStays ==
  ASSUME PluginInv, Recorded, CurrentUses, LateCallsUsed, ExtraUsed, AllSettled,
         [PluginNext]_pluginVars, NEW m \in Macros, NEW i \in 1 .. Len(history[m]) - 1,
         \A j \in 1 .. i + 1 : history'[m][j] = history[m][j],
         NEW d, d = history[m][i], NEW e, e = history[m][i + 1]
  PROVE  Counterpart(d, e)' \/ IsCopy(m, i)' \/ FollowCall(d, e)' \/ Settled(d, e)'
<1>1. Moving /\ Calling BY PluginInvStep DEF PluginInv, Lexing
<1>2. /\ i \in Nat /\ i >= 1 /\ i \in DOMAIN history[m] /\ i + 1 \in DOMAIN history[m]
      /\ i \in 1 .. i + 1 /\ \A j \in 1 .. i : history'[m][j] = history[m][j]
  BY HistoryParts
<1>3. Counterpart(d, e) \/ IsCopy(m, i) \/ FollowCall(d, e) \/ Settled(d, e)
  BY DEF AllSettled
<1>4. CASE Counterpart(d, e)
  <2>1. d.n \in DOMAIN file /\ e.n \in DOMAIN file BY <1>2, HistoryParts
  <2>2. file'[d.n] = file[d.n] /\ file'[e.n] = file[e.n] BY <1>1, <2>1, ItemStays
  <2> QED BY <1>4, <2>2 DEF Counterpart
<1>5. CASE IsCopy(m, i) BY <1>1, <1>2, <1>5, CopyStays
<1>6. CASE Settled(d, e) BY <1>6, SettledStays
<1>7. CASE FollowCall(d, e)
  <2>1. PICK j \in DOMAIN todo : todo[j].op = "follow" /\ todo[j].user = d /\ todo[j].usee = e
    BY <1>7 DEF FollowCall
  <2>2. CASE Perform
    <3>1. todo # <<>> /\ todo' = Tail(todo) BY <2>2 DEF Perform
    <3>2. /\ Head(todo) = todo[1]
          /\ \A k \in DOMAIN todo' : todo'[k] = todo[k + 1]
          /\ j # 1 => \E k \in DOMAIN todo' : j = k + 1
      BY <1>1, <3>1, RestOfCalls
    <3>3. CASE j = 1 BY <2>1, <2>2, <3>2, <3>3, FollowSettles
    <3>4. CASE j # 1 BY <2>1, <3>2, <3>4 DEF FollowCall
    <3> QED BY <3>3, <3>4
  <2>3. CASE UNCHANGED pluginVars
    <3>1. todo' = todo BY <2>3 DEF pluginVars, plugin
    <3> QED BY <2>1, <3>1 DEF FollowCall
  <2>4. todo # <<>> BY <2>1
  <2> QED BY <2>2, <2>3, <2>4, OnlyCallsAsk
<1> QED BY <1>3, <1>4, <1>5, <1>6, <1>7

\* A new definition that is no copy has the users of the last one follow it.
LEMMA NewPair ==
  ASSUME Moving, Recorded, Latest, MacroDefined,
         NEW m \in Macros, NEW x \in PieceSet, Appends(m, x), history[m] # <<>>,
         NEW d, d = LastOf(m), NEW l, l = Len(history[m])
  PROVE  Counterpart(d, x)' \/ IsCopy(m, l)' \/ FollowCall(d, x)'
<1>1. l \in DOMAIN history[m] BY HistoryParts
<1>2. CASE IsCopy(m, l)
  <2>1. \A j \in 1 .. l : history'[m][j] = history[m][j] BY DEF Appends
  <2> QED BY <1>1, <1>2, <2>1, CopyStays
<1>3. CASE ~IsCopy(m, l)
  <2>1. defs[m] # None /\ defs[m] = d BY <1>3 DEF Latest, LatestOf
  <2>2. m = Item.arg /\ x = This /\ UNCHANGED file BY DEF Appends, MacroDefined
  <2>3. CASE Counterpart(x, d) BY <2>2, <2>3 DEF Counterpart
  <2>4. CASE ~Counterpart(x, d)
    <3> DEFINE a == CodeCall(x)
               b == CallOf("follow", d, x, None)
    <3>1. todo' = <<a>> \o <<b>> BY <2>1, <2>2, <2>4 DEF MacroDefined
    <3>2. b.op = "follow" /\ b.user = d /\ b.usee = x BY DEF CallOf
    <3> HIDE DEF a, b
    <3>3. 2 \in DOMAIN todo' /\ todo'[2] = b BY <3>1
    <3> QED BY <3>2, <3>3 DEF FollowCall
  <2> QED BY <2>3, <2>4
<1> QED BY <1>2, <1>3

LEMMA AllSettledStep ==
  ASSUME PluginInv, Recorded, Latest, CurrentUses, LateCallsUsed, ExtraUsed, AllSettled,
         [PluginNext]_pluginVars
  PROVE  AllSettled'
<1>1. Moving BY PluginInvStep
<1>2. CASE UNCHANGED history
  <2>1. ASSUME NEW m \in Macros, NEW i \in 1 .. Len(history'[m]) - 1,
               NEW d, d = history'[m][i], NEW e, e = history'[m][i + 1]
        PROVE  Counterpart(d, e)' \/ IsCopy(m, i)' \/ FollowCall(d, e)' \/ Settled(d, e)'
    BY <1>2, <2>1, PairStays
  <2> QED BY <2>1, AllSettledNext
<1>3. CASE MacroDefined
  <2>1. PICK m \in Macros, x \in PieceSet : Appends(m, x) BY <1>1, <1>3, DefineAppends
  <2>2. ASSUME NEW k \in Macros, NEW i \in 1 .. Len(history'[k]) - 1,
               NEW d, d = history'[k][i], NEW e, e = history'[k][i + 1]
        PROVE  Counterpart(d, e)' \/ IsCopy(k, i)' \/ FollowCall(d, e)' \/ Settled(d, e)'
    <3>1. CASE k # m
      <4>1. history'[k] = history[k] BY <2>1, <3>1 DEF Appends
      <4> QED BY <2>2, <4>1, PairStays
    <3>2. CASE k = m
      <4>1. /\ Len(history[m]) \in Nat /\ Len(history'[m]) = Len(history[m]) + 1
            /\ \A j \in 1 .. Len(history[m]) : history'[m][j] = history[m][j]
            /\ history'[m][Len(history[m]) + 1] = x
        BY <2>1 DEF Appends
      <4>2. i \in Nat /\ i >= 1 /\ i <= Len(history[m]) BY <2>2, <3>2, <4>1
      <4>3. CASE i = Len(history[m])
        <5>1. history[m] # <<>> BY <4>2, <4>3
        <5>2. d = LastOf(m) /\ e = x BY <2>2, <3>2, <4>1, <4>2, <4>3 DEF LastOf
        <5> QED BY <1>1, <1>3, <2>1, <3>2, <4>3, <5>1, <5>2, NewPair
      <4>4. CASE i # Len(history[m])
        <5>1. /\ i \in 1 .. Len(history[m]) - 1
              /\ \A j \in 1 .. i + 1 : history'[m][j] = history[m][j]
          BY <4>1, <4>2, <4>4
        <5>2. d = history[m][i] /\ e = history[m][i + 1] BY <2>2, <3>2, <4>2, <5>1
        <5>3. Counterpart(d, e)' \/ IsCopy(m, i)' \/ FollowCall(d, e)' \/ Settled(d, e)'
          BY <5>1, <5>2, PairStays
        <5> QED BY <3>2, <5>3
      <4> QED BY <4>3, <4>4
    <3> QED BY <3>1, <3>2
  <2> QED BY <2>2, AllSettledNext
<1> QED BY <1>2, <1>3, OnlyDefineAppends

-----------------------------------------------------------------------------
RedefinedInv ==
  /\ Recorded /\ Latest /\ OpenDecls /\ CurrentUses
  /\ LateCallsUsed /\ LateUsed /\ ExtraUsed /\ AllSettled

LEMMA RedefinedStep ==
  ASSUME PluginInv, RedefinedInv, [PluginNext]_pluginVars
  PROVE  RedefinedInv'
<1>1. Moving /\ Lexing /\ Defining /\ Declarations BY PluginInvStep DEF PluginInv, Lexing
<1> QED
  BY <1>1, RecordedStep, LatestStep, OpenDeclsStep, CurrentUsesStep, LateCallsStep,
     LateUsedStep, ExtraUsedStep, AllSettledStep
     DEF RedefinedInv

LEMMA RedefinedInit == PluginInit => RedefinedInv
<1> SUFFICES ASSUME PluginInit PROVE RedefinedInv
  OBVIOUS
<1>1. /\ history = [m \in Macros |-> <<>>] /\ macro = [m \in Macros |-> None] /\ defs = macro
      /\ decls = [s \in Symbols |-> None] /\ todo = <<>> /\ uses = {}
      /\ atEnd = [ifndef |-> <<>>, ifdef |-> <<>>, endif |-> <<>>]
      /\ extra = [defined |-> <<>>, ifndef |-> <<>>, ifdef |-> <<>>, endif |-> <<>>]
  BY DEF PluginInit, Init
<1>2. \A m \in Macros : history[m] = <<>> /\ DOMAIN history[m] = {} /\ macro[m] = None
                         /\ defs[m] = None
  BY <1>1
<1>3. DOMAIN todo = {} BY <1>1
<1>4. Recorded
  <2>1. \A S : <<>> \in Seq(S) OBVIOUS
  <2>2. history \in [Macros -> Seq(PieceSet)] BY <1>1, <2>1
  <2> QED BY <1>2, <2>2 DEF Recorded
<1>5. Latest BY <1>2 DEF Latest, LatestOf
<1>6. OpenDecls BY <1>1 DEF OpenDecls
<1>7. CurrentUses /\ LateCallsUsed BY <1>3 DEF CurrentUses, LateCallsUsed
<1>8. LateUsed
  <2>1. \A list \in {"ifndef", "ifdef"} : DOMAIN atEnd[list] = {} BY <1>1
  <2> QED BY <2>1 DEF LateUsed
<1>9. ExtraUsed
  <2> DEFINE S == Seq(MadeAtOnce(text, uses))
  <2>1. <<>> \in S OBVIOUS
  <2> HIDE DEF S
  <2>2. \A list \in UseLists : extra[list] \in S BY <1>1, <2>1 DEF UseLists
  <2>3. Directed(g, uses) BY <1>1 DEF Directed
  <2> QED BY <2>2, <2>3 DEF ExtraUsed, S
<1>10. AllSettled
  <2>1. \A m \in Macros : 1 .. Len(history[m]) - 1 = {}
    <3>1. Len(<<>>) = 0 OBVIOUS
    <3> QED BY <1>2, <3>1
  <2> QED BY <2>1 DEF AllSettled
<1> QED BY <1>4, <1>5, <1>6, <1>7, <1>8, <1>9, <1>10 DEF RedefinedInv

\* In the end no call is left to be made.
LEMMA FollowedInTheEnd ==
  ASSUME PluginInv, ConditionInv, RedefinedInv
  PROVE  NextDefinitionFollows
<1> SUFFICES ASSUME phase = "done", NEW m \in Macros, NEW i \in 1 .. Len(history[m]) - 1,
                    NEW d, d = history[m][i], NEW e, e = history[m][i + 1],
                    ~Counterpart(d, e), ~IsCopy(m, i), NEW x, x \in UsersOf(d), ~UsesCopy(x, d)
             PROVE  \/ Before(x, e) \/ UseEachOther(x, d)
                    \/ At(g.verts, x) = At(g.verts, Begin(RangeOf(d)))
  BY DEF NextDefinitionFollows
<1>1. Recorded /\ AllSettled BY DEF RedefinedInv
<1>2. DOMAIN todo = {}
  <2>1. todo = <<>> BY DEF ConditionInv
  <2> QED BY <2>1
<1>3. Settled(d, e) BY <1>1, <1>2 DEF AllSettled, FollowCall
<1>4. PICK y : y = Begin(RangeOf(d)) OBVIOUS
<1>5. PICK z : z = Begin(RangeOf(e)) OBVIOUS
<1>6. Follows(g, uses, x, y, z) BY <1>3, <1>4, <1>5 DEF Settled
<1>7. y \in Pos /\ z \in Pos
  <2>1. i \in DOMAIN history[m] /\ i + 1 \in DOMAIN history[m] BY <1>1, HistoryParts
  <2>2. LexedIn(text, file, stack, d) /\ LexedIn(text, file, stack, e)
    BY <1>1, <2>1, HistoryParts
  <2> QED BY <1>4, <1>5, <2>2, PiecePlaces
<1>8. /\ uses \in SUBSET (Pos \X Pos) /\ <<x, y>> \in uses
      /\ NoOverlap(g.verts) /\ g.verts \in SUBSET SourceRange
  BY <1>4, UsersAre, InvIsGood DEF PluginInv, Inv, TypeOK, Good, IsGraph
<1>9. x \in Pos BY <1>8
<1>10. ASSUME NEW a \in Pos, NEW v \in g.verts, Within(a, v)
       PROVE  At(g.verts, a) = v
  BY <1>8, <1>10, AtUnique
<1>11. CASE Connected(g, x, z)
  <2>1. PICK v \in g.verts, w \in g.verts :
           /\ Within(x, v) /\ Within(z, w)
           /\ v = w \/ <<v, w>> \in DOMAIN g.edge \/ <<w, v>> \in DOMAIN g.edge
    BY <1>11 DEF Connected
  <2>2. At(g.verts, x) = v /\ At(g.verts, z) = w BY <1>7, <1>9, <1>10, <2>1
  <2> QED BY <1>5, <2>1, <2>2 DEF Before
<1>12. CASE Together(g, x, y)
  <2>1. PICK v \in g.verts : Within(x, v) /\ Within(y, v) BY <1>12 DEF Together
  <2> QED BY <1>4, <1>7, <1>9, <1>10, <2>1
<1>13. CASE Turned(g, uses, x, y)
  <2>1. PICK u \in uses : Together(g, u[2], x) /\ Together(g, u[1], y) BY <1>13 DEF Turned
  <2>2. u[1] \in Pos /\ u[2] \in Pos BY <1>8, <2>1
  <2>3. At(g.verts, u[2]) = At(g.verts, x) /\ At(g.verts, u[1]) = At(g.verts, y)
    BY <1>7, <1>9, <1>10, <2>1, <2>2 DEF Together
  <2> QED BY <1>4, <2>1, <2>3 DEF UseEachOther
<1> QED BY <1>6, <1>11, <1>12, <1>13 DEF Follows

\* Code that uses a definition is kept in front of the one that replaces it: when clang reads the
\* new definition (MacroDefined) every use of the old one has left an edge for follow_users_of
\* to find, none is made any more afterwards, but through copies, and no later call to the
\* collector undoes what was found. Left out are code that only shares its piece with the old
\* definition, that uses a copy of it, or that its piece uses in turn; code that also uses the
\* new definition comes after it.
THEOREM NextDefinitionIsFollowed == PluginSpec => []NextDefinitionFollows
<1>1. PluginInit => ConditionInv /\ RedefinedInv
  BY ConditionInit, RedefinedInit
<1>2. PluginInv /\ ConditionInv /\ [PluginNext]_pluginVars => ConditionInv'
  BY ConditionStep
<1>3. PluginInv /\ RedefinedInv /\ [PluginNext]_pluginVars => RedefinedInv'
  BY RedefinedStep
<1>4. PluginInv /\ ConditionInv /\ RedefinedInv => NextDefinitionFollows
  BY FollowedInTheEnd
<1> QED BY <1>1, <1>2, <1>3, <1>4, PluginInvariance, PTL DEF PluginSpec

=============================================================================
