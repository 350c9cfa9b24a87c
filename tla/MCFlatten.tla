----------------------------- MODULE MCFlatten ------------------------------
(* Flatten on code of two lines and two headers of two lines that include   *)
(* each other, themselves, the code's file and a system header, in any way, *)
(* in their first and, at line 2 and up, in their second inclusion; and on  *)
(* any piece of a file of three lines that was included up to seven times   *)
(* and may have been edited.                                                *)
EXTENDS Flatten

MCLines == [f \in UserFiles |-> 2]

\* An #include, or none, in each line; a second inclusion has the same ones or none.
InLines(files) == {{<<i, p[i]>> : i \in {j \in 0 .. 1 : p[j] # 9}} : p \in [0 .. 1 -> files \cup {9}]}
Twice(I) == {I, I \cup {<<i[1] + 2, i[2]>> : i \in I}}

MCIncludes ==
  {[f \in UserFiles |-> IF f = 0 THEN a ELSE IF f = 1 THEN b ELSE c] :
     a \in InLines({-1, 1, 2}),
     b \in UNION {Twice(I) : I \in InLines({-1, 0, 1, 2})},
     c \in UNION {Twice(I) : I \in InLines({0, 1})}}

Line(i) == <<0, i>>
Code(was, now, k, b, e) == [was |-> was, now |-> now, k |-> k, beg |-> b, end |-> e]

Two == <<Line(1), Line(2)>>
Three == <<Line(1), Line(2), Line(3)>>
Edited == {Three, <<>>, Two, <<Line(4)>> \o Three, Append(Three, Line(4)), <<Line(1), Line(4), Line(3)>>}

MCCodes == {Code(Three, now, k, b, e) :
              now \in Edited, k \in 0 .. 6,
              <<b, e>> \in {<<x, y>> \in (0 .. 2) \X (1 .. 3) : x < y}}

NoIncludes == [f \in UserFiles |-> {}]
OneInclude == [NoIncludes EXCEPT ![0] = {<<0, 1>>}, ![1] = {<<1, 2>>}]

MCInputs == {[code |-> Code(Two, Two, 0, 0, 2), incs |-> i] : i \in MCIncludes}
            \cup {[code |-> c, incs |-> i] : c \in MCCodes, i \in {NoIncludes, OneInclude}}

=============================================================================
