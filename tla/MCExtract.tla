----------------------------- MODULE MCExtract ------------------------------
(* Extract on every graph of a family over three vertices, one of them in a *)
(* system header and one in a header that it includes.                      *)
EXTENDS Extract

MCSize == [f \in Files |-> 2]
MCTopLevel == [f \in SystemFiles |-> "s"]

A == [f |-> "m", k |-> 0, beg |-> 0, end |-> 1]
B == [f |-> "s", k |-> 0, beg |-> 0, end |-> 1]
C == [f |-> "t", k |-> 0, beg |-> 0, end |-> 1]
Verts == {A, B, C}

\* Every type of edge between A and B and from B to C, a use that closes the
\* longer cycle or not, and a loop.
Typed == {<<A, B>>, <<B, A>>, <<B, C>>}
Plain == {<<C, A>>, <<B, B>>}

MCGraphs ==
  {[verts |-> Verts,
    edge  |-> [e \in {d \in Typed : t[d] # "none"} \cup P |->
                 IF e \in P THEN "NORMAL" ELSE t[e]],
    incs  |-> [v \in Verts |-> {}]] :
      t \in [Typed -> EdgeTypes \cup {"none"}], P \in SUBSET Plain}

MCOptions == {[onlyTys |-> FALSE, notarget |-> FALSE, systCode |-> TRUE],
              [onlyTys |-> TRUE, notarget |-> TRUE, systCode |-> FALSE]}

=============================================================================
