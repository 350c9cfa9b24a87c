------------------------------- MODULE Lookup -------------------------------
(***************************************************************************)
(* How carbon-extract finds the requested code in the linked graph: the    *)
(* first half of reachable_code (extract/src/reachable.cpp).  Every code   *)
(* location, a path and an offset, and then every symbol becomes a vertex, *)
(* and module Extract goes on from these.                                  *)
(***************************************************************************)
EXTENDS Link

CONSTANT Requests   \* [places : what of a path and an offset, symbols : names]

ASSUME LookupAssumption ==
  /\ Requests \subseteq [places : SUBSET (Paths \X Nat), symbols : SUBSET Symbols]
  /\ \A r \in Requests : IsFiniteSet(r.places) /\ IsFiniteSet(r.symbols)

VARIABLES asked,    \* the code locations and symbols given
          pending,  \* those still to be looked up
          targets,  \* the vertices found
          status    \* "looking", "found", or how the process ended

lookVars == <<asked, pending, targets, status>>
allVars == <<vars, lookVars>>

LookInit == /\ Init
            /\ asked \in Requests /\ pending = asked
            /\ targets = {} /\ status = "linking"

LinkStep == Next /\ UNCHANGED lookVars

StartLooking ==
  /\ phase = "linked" /\ status = "linking"
  /\ status' = "looking"
  /\ UNCHANGED <<vars, asked, pending, targets>>

\* The place in the first inclusion of a user file.
PlaceOf(q) == [f |-> (CHOOSE i \in DOMAIN user : user[i] = q[1]) - 1, pos |-> q[2]]

Known(q) == \E i \in DOMAIN user : user[i] = q[1]

\* Mutant: the last piece that begins before the place is taken.
LookPlaceBefore(q) ==
  /\ status = "looking" /\ q \in pending.places
  /\ pending' = [pending EXCEPT !.places = @ \ {q}]
  /\ LET before == {v \in verts : Known(q) /\ v.f = PlaceOf(q).f /\ v.beg <= q[2]}
     IN IF before = {} THEN status' = "exit" /\ UNCHANGED targets
        ELSE /\ \E v \in before : targets' = targets \cup {v}
             /\ UNCHANGED status
  /\ UNCHANGED <<vars, asked>>

\* A path that is no user file of the graph fails an assertion; the build of
\* carbon-extract leaves assertions out, and what the end iterator holds is undefined.
LookPlace(q) ==
  /\ status = "looking" /\ q \in pending.places
  /\ pending' = [pending EXCEPT !.places = @ \ {q}]
  /\ IF ~Known(q) THEN status' = "undefined" /\ UNCHANGED targets
     ELSE IF ~Covered(PlaceOf(q)) THEN status' = "exit" /\ UNCHANGED targets
     ELSE targets' = targets \cup {At(PlaceOf(q))} /\ UNCHANGED status
  /\ UNCHANGED <<vars, asked>>

\* Where the symbol is defined: the global definition, else the first static one.
DefinedAt(s) ==
  IF defs[s] # None THEN {defs[s]}
  ELSE IF locs["static_defs"][s] # <<>> THEN {locs["static_defs"][s][1]} ELSE {}

\* A symbol that is defined nowhere, or in no vertex, is skipped.
LookSymbol(s) ==
  /\ status = "looking" /\ pending.places = {} /\ s \in pending.symbols
  /\ pending' = [pending EXCEPT !.symbols = @ \ {s}]
  /\ targets' = targets \cup {At(x) : x \in {y \in DefinedAt(s) : Covered(y)}}
  /\ UNCHANGED <<vars, asked, status>>

Looked ==
  /\ status = "looking" /\ pending.places = {} /\ pending.symbols = {}
  /\ status' = "found"
  /\ UNCHANGED <<vars, asked, pending, targets>>

LookNext == \/ LinkStep \/ StartLooking
            \/ (\E q \in pending.places : LookPlace(q))
            \/ (\E s \in pending.symbols : LookSymbol(s))
            \/ Looked

LookSpec == LookInit /\ [][LookNext]_allVars

-----------------------------------------------------------------------------
(* Properties                                                              *)

\* Collection i has code at this place of its user file.
HasCode(i, q) == \E v \in from[i].verts : /\ v.f >= 0 /\ from[i].user[v.f + 1] = q[1]
                                          /\ v.beg <= q[2] /\ q[2] < v.end

\* What was asked for is found if the collections have it (reachable.cpp:92-180): every
\* place is in a target, and so is the first definition of every symbol; a target was
\* asked for; carbon-extract only gives up on a place that is code in no collection,
\* if the collections agree, and on a path that none of them knows.
AskedIsFound ==
  /\ status = "found" =>
       /\ \A q \in asked.places : \E v \in targets :
            user[v.f + 1] = q[1] /\ v.beg <= q[2] /\ q[2] < v.end
       /\ \A s \in asked.symbols, i \in 1 .. Len(from) :
            Defines(i, s) /\ Covered(To(i, from[i].defs[s])) =>
              \E v \in targets : Within(To(i, from[i].defs[s]), v)
       /\ Cardinality(targets) <= Cardinality(asked.places) + Cardinality(asked.symbols)
  /\ status = "exit" => ~Agree \/ \E q \in asked.places : \A i \in 1 .. n : ~HasCode(i, q)
  /\ status = "undefined" =>
       \E q \in asked.places : \A i \in 1 .. n : \A j \in DOMAIN from[i].user :
         from[i].user[j] # q[1]

=============================================================================
