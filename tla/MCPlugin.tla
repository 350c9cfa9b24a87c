----------------------------- MODULE MCPlugin -------------------------------
(* Plugin on every translation unit of one file of N chunks out of Chunks,   *)
(* in which conditionals and declarations are balanced; a conditional may   *)
(* hold a part of a declaration.                                           *)
EXTENDS Plugin

CONSTANTS N, Chunks

I(op, arg) == [op |-> op, arg |-> arg, body |-> None]
Define(m, x) == [I("define", m) EXCEPT !.body = x]
Decl(s, kind, def) == I("open", [s |-> s, kind |-> kind, def |-> def])
End == I("close", "")

MacroChunks == {<<I(op, "A")>> : op \in {"define", "undef", "expand"}}
IfChunks == {<<I(op, "A")>> : op \in {"ifdef", "ifndef", "ifdefined", "endif"}}
DeclChunks == {<<Decl("f", "static", TRUE)>>, <<End>>, <<I("ref", "f")>>}
WholeDecls == {<<Decl("f", "global", TRUE), I("expand", "A"), End>>,
               <<Decl("g", "static", FALSE), I("ref", "f"), End>>}

PieceChunks == MacroChunks \cup IfChunks \cup DeclChunks
WholeChunks == MacroChunks \cup WholeDecls \cup {<<I(op, "B")>> : op \in {"ifndef", "endif"}}
DefineChunks == {<<I("define", "A")>>, <<I("expand", "A")>>, <<Decl("f", "static", TRUE)>>,
                 <<Decl("g", "static", TRUE)>>, <<End>>}

ElseChunks == {<<I(op, "A")>> : op \in {"define", "undef", "ifdef", "ifndef", "else", "endif"}}
              \cup {<<Decl("f", "static", TRUE)>>, <<End>>}
BodyChunks == {<<I("define", "A")>>, <<Define("B", "A")>>, <<Define("A", "B")>>,
               <<Decl("f", "global", TRUE), I("expand", "B"), End>>,
               <<Decl("g", "global", TRUE), I("expand", "A"), End>>}

\* A text, with the number of its open conditionals and declarations.
Begun == [t |-> <<>>, ifs |-> 0, open |-> 0]

Count(t, ops) == Cardinality({i \in DOMAIN t : t[i].op \in ops})

Add(b, c) == [t    |-> b.t \o c,
              ifs  |-> b.ifs + Count(c, Ifs) - Count(c, {"endif"}),
              open |-> b.open + Count(c, {"open"}) - Count(c, {"close"})]

\* A function is not defined twice.
OnlyOnce(i) == i.op = "open" /\ i.arg.kind = "static" /\ i.arg.def

Fits(b, c, left) ==
  LET a == Add(b, c)
  IN /\ a.ifs >= 0 /\ a.open \in {0, 1} /\ a.ifs + a.open <= left
     /\ c[1].op = "ref" => b.open = 1
     /\ c[1].op = "else" => b.ifs > 0 /\ Count(b.t, {"else"}) = 0
     /\ Len(c) > 1 => b.open = 0
     /\ OnlyOnce(c[1]) => c[1] \notin {b.t[i] : i \in DOMAIN b.t}

\* Texts of n chunks.
TextsOf(chunks, n) ==
  LET begun[k \in 0 .. n] ==
        IF k = 0 THEN {Begun}
        ELSE LET shorter == begun[k - 1]
             IN {Add(x[1], x[2]) : x \in {y \in shorter \X chunks : Fits(y[1], y[2], n - k)}}
  IN {b.t : b \in begun[n]}

MCSize == [f \in Files |-> 3 * N]

\* Main file and header.
Unit(t, h) == [f \in Files |-> IF f = Main THEN t ELSE h]
MCTexts == {Unit(t, <<>>) : t \in {u \in TextsOf(Chunks, N) : ~Wrapped(u)}}

=============================================================================
