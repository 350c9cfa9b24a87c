----------------------------- MODULE MCInclude ------------------------------
(* Plugin on every translation unit of one file of N chunks, on every main   *)
(* file of MainN chunks that includes a header, once or several times, and on *)
(* headers of NestedN chunks that test their guard again inside.             *)
EXTENDS MCPlugin

CONSTANTS MainN, HeaderN, NestedN

Include == I("include", "x")
MainChunks == {<<Include>>, <<I("define", "A")>>, <<I("undef", "A")>>, <<I("expand", "A")>>,
               <<I("ifdef", "A")>>, <<I("endif", "A")>>, <<I("ifdefined", "A")>>,
               <<Decl("f", "global", TRUE)>>, <<End>>}

HeaderChunks == {<<I("define", "A")>>, <<I("expand", "A")>>, <<I("ifndef", "A")>>,
                 <<I("ifdef", "A")>>, <<I("endif", "A")>>, <<Decl("g", "type", TRUE)>>, <<End>>}

IncludeSize == [f \in Files |-> IF f = Main THEN 4 * N ELSE NestedN]

Includes(t) == \E i \in DOMAIN t : t[i] = Include
Mains == TextsOf(Chunks, N) \cup TextsOf(ElseChunks, N) \cup TextsOf(BodyChunks, MainN)
         \cup {t \in TextsOf(MainChunks, MainN) : Includes(t)}
Headers == {<<>>} \cup TextsOf(HeaderChunks, HeaderN)

\* The header is skipped when it is included first.
Twice == <<I("define", "A"), Include, I("undef", "A"), Include>>
NestedChunks == {<<I("ifndef", "A")>>, <<I("ifdef", "A")>>, <<I("endif", "A")>>,
                 <<Decl("g", "type", TRUE)>>, <<End>>}

\* The file includes itself with B defined: g, which it defines there, uses f from before the
\* definition of A, and f the A of the header.
Self == <<I("ifdef", "B"), Decl("g", "type", TRUE), I("endif", "B"),
          I("ifndef", "B"), I("define", "A"), Include, I("define", "B"), I("include", Main),
          Decl("g", "type", TRUE), I("ref", "f"), End, I("endif", "B"),
          I("ifdef", "B"), End, I("endif", "B"),
          I("ifndef", "B"), Decl("g", "type", TRUE), End, I("define", "A"), I("endif", "B"),
          I("ifdef", "B"), I("undef", "B"), I("endif", "B")>>
SelfHeader == <<Decl("f", "type", TRUE), I("expand", "A"), End>>

IncludeTexts ==
  {Unit(Self, SelfHeader)} \cup {Unit(Twice, h) : h \in TextsOf(NestedChunks, NestedN)} \cup
  {Unit(u[1], u[2]) : u \in {v \in Mains \X Headers :
                               ~Wrapped(v[1]) /\ (Includes(v[1]) <=> v[2] # <<>>)}}

=============================================================================
