------------------------------- MODULE MCLink -------------------------------
(* Lookup on two translation units, a.c and b.c, that share the user header *)
(* h.h and the system header s.h under other indices, and may have marked   *)
(* other pieces of h.h as code.                                             *)
EXTENDS Lookup

CONSTANTS X, Y  \* a global and a static function

R(f, b, e) == [f |-> f, beg |-> b, end |-> e]
P(f, p) == [f |-> f, pos |-> p]
EntireFile(f) == R(f, 8, 9)

MCPaths == {"a.c", "b.c", "h.h", "g.h", "s.h", "t.h"}
MCSymbols == {X, Y}

\* What may be code of the shared header, which is file h.
Pieces(h) == {{R(h, 0, 2), R(h, 2, 4)}, {R(h, 0, 4)}, {R(h, 1, 3)}}

Lowest(S) == CHOOSE v \in S : \A w \in S : v.beg <= w.beg
Highest(S) == CHOOSE v \in S : \A w \in S : v.beg >= w.beg

\* The collection of a file 0 that includes file 1 in its first line, with pieces S
\* of the shared header and an edge of type t between two of them.
Unit(us, sy, S, E, t, def, decls, static) ==
  LET V == S \cup {R(0, 0, 2), R(-Len(sy), 0, 1), EntireFile(0)}
  IN [user |-> us, syst |-> sy, toplvl |-> sy, verts |-> V,
      edge |-> [e \in {d \in E : d[1] # d[2]} |-> IF {e[1], e[2]} \subseteq S THEN t ELSE "NORMAL"],
      incs |-> [v \in V |-> IF v = EntireFile(0) THEN {<<0, 1>>} ELSE {}],
      defs |-> [s \in Symbols |-> IF s = X THEN def ELSE None],
      locs |-> [tab \in Tables |-> [s \in Symbols |->
                  IF tab = "glbl_decls" /\ s = X THEN decls
                  ELSE IF tab = "static_defs" /\ s = Y THEN static ELSE {}]]]

As == {Unit(<<"a.c", "h.h">>, <<"s.h">>, S, E, "NORMAL", d, {P(1, 0), P(1, 2)}, {P(1, 3)}) :
         d \in {None, P(0, 0)},
         <<S, E>> \in UNION {{<<T, F>> : F \in {{}, {<<R(0, 0, 2), Highest(T)>>, <<Highest(T), Lowest(T)>>}}} :
                               T \in Pieces(1)}}

Bs == {Unit(<<"b.c", "g.h", "h.h">>, <<"t.h", "s.h">>, S, E, t, d, {P(2, 2), P(0, 1)}, {P(2, 1)}) :
         d \in {None, P(0, 1)}, t \in {"NORMAL", "FOLLOWS"},
         <<S, E>> \in {<<T, {<<Lowest(T), Highest(T)>>, <<R(0, 0, 2), Highest(T)>>,
                             <<R(0, 0, 2), R(-2, 0, 1)>>}>> : T \in Pieces(2)}}

\* The header compiled on its own.
H == Unit(<<"h.h", "g.h">>, <<"s.h">>, {R(0, 3, 4)},
          {<<R(0, 0, 2), R(-1, 0, 1)>>, <<R(0, 3, 4), R(0, 0, 2)>>}, "NORMAL", P(0, 3),
          {P(0, 0)}, {})

MCCollections == As \cup Bs \cup {H}
MCInputs == {<<a>> : a \in As} \cup {<<a, b>> : a \in As, b \in Bs} \cup {<<H, a>> : a \in As}
            \cup {<<a, b, H>> : a \in As, b \in Bs}

MCRequests == {[places |-> {<<"h.h", 1>>, <<"a.c", 1>>}, symbols |-> {X, Y}],
               [places |-> {<<"h.h", 3>>}, symbols |-> {}],
               [places |-> {<<"b.c", 0>>}, symbols |-> {Y}]}

=============================================================================
