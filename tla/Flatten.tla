------------------------------- MODULE Flatten ------------------------------
(***************************************************************************)
(* What carbon-extract prints for one piece of code (extract/src/           *)
(* carbon_extract.cpp, code_reader.cpp): its text, read from the file as it *)
(* is now, in which --flatten (flatten_includes) puts the text of every     *)
(* user header in the place of the #include of it.                          *)
(*                                                                         *)
(* A text is a sequence of lines, and an #include is the whole of its line *)
(* up to and including the newline.  File f < 0 is a system file.  Offsets *)
(* into a file are absolute, as the vertices of entire files have them     *)
(* ("abs is fine", collect.cpp:793): the lines of its second inclusion     *)
(* come after all those of its first.                                      *)
(***************************************************************************)
EXTENDS Offsets, FiniteSets

CONSTANTS UserFiles,  \* user files by number; 0 is the file of the code
          Lines,      \* Lines[f]: the number of lines of f, but for 0
          Inputs,     \* what the code and the #include's of each file may be
          ExcludeSets \* the files below directories given to --exclude

\* A piece of code: lines beg + 1 to end of its file when it was compiled, in the
\* inclusion of band k, and the file when carbon-extract reads it.
IsCode(c) == /\ c.was \in Seq(UserFiles \X Nat) /\ c.now \in Seq(UserFiles \X Nat)
             /\ c.beg \in Nat /\ c.end \in Nat /\ c.k \in Nat
             /\ c.beg < c.end /\ c.end <= Len(c.was)

ASSUME FlattenAssumption ==
  /\ UserFiles \subseteq Nat /\ 0 \in UserFiles /\ IsFiniteSet(UserFiles)
  /\ Lines \in [UserFiles -> Nat] /\ ExcludeSets \subseteq SUBSET UserFiles
  /\ \A in \in Inputs :
       /\ IsCode(in.code) /\ DOMAIN in.incs = UserFiles
       /\ \A f \in UserFiles :
            /\ in.incs[f] \subseteq Nat \X Int
            /\ \A i \in in.incs[f] : i[2] >= 0 => i[2] \in UserFiles
            /\ \A i, j \in in.incs[f] : i[1] = j[1] => i = j   \* one #include in a line

VARIABLES code,     \* the piece of code
          piece,    \* its vertex, in this or in a lower band
          incs,     \* <<line, included file>> in the entire-file vertex of each
                    \* file, and in the vertex of the code
          excluded, \* files without text
          stack,    \* the calls of flatten_includes: file, contents, the
                    \* #include's to come, and the line now being expanded
          status

inputs == <<code, piece, incs, excluded>>
vars == <<inputs, stack, status>>

\* source_text and complete_source_text
Text(f) == IF f \in excluded THEN <<>>
           ELSE IF f = 0 THEN SourceText(piece, code.now)
           ELSE [i \in 1 .. Lines[f] |-> <<f, i>>]

Call(f, text) == [f |-> f, contents |-> text, todo |-> incs[f], at |-> 0]

Top == stack[Len(stack)]
Active == {stack[i].f : i \in DOMAIN stack}

Init == /\ \E in \in Inputs : code = in.code /\ incs = in.incs
        /\ piece \in Bands(RangeIn(code.k, Len(code.was), code.beg, code.end), Len(code.was))
        /\ excluded \in ExcludeSets
        /\ stack = <<>> /\ status = "reading"

\* source_text.  Code without text is not printed; what cannot be read ends the process,
\* and so does the size of an empty file.
ReadCode ==
  /\ status = "reading"
  /\ IF 0 \in excluded \/ piece = EntireFile THEN status' = "skipped" /\ UNCHANGED stack
     ELSE IF ~Readable(piece, code.now) THEN status' = "died" /\ UNCHANGED stack
     ELSE status' = "running" /\ stack' = <<Call(0, Text(0))>>
  /\ UNCHANGED inputs

Running == status = "running"

\* Mutant: the first #include is replaced first.
FirstInText(i) == i \in Top.todo /\ \A j \in Top.todo : j[1] > i[1] \/ (j[1] = i[1] /\ j[2] >= i[2])

\* The last #include that is still in the sorted list.
Last(i) == i \in Top.todo /\ \A j \in Top.todo : j[1] < i[1] \/ (j[1] = i[1] /\ j[2] <= i[2])

Drop(i) == [stack EXCEPT ![Len(stack)].todo = @ \ {i}]

\* A system header, or a file that is being expanded already: the line stays.
Leave(i) ==
  /\ Running /\ Last(i)
  /\ i[2] < 0 \/ (i[1] < Len(Top.contents) /\ i[2] \in Active)
  /\ stack' = Drop(i)
  /\ UNCHANGED <<inputs, status>>

\* Mutant: recursive inclusion is noticed before the place of the #include is.
GiveUpUnlessActive(i) ==
  /\ Running /\ Last(i)
  /\ i[2] >= 0 /\ (i[1] >= Len(Top.contents) \/ i[2] \in Active)
  /\ status' = "aborted"
  /\ UNCHANGED <<inputs, stack>>

\* "wtf? ... ignoring", and then abort().
GiveUp(i) ==
  /\ Running /\ Last(i)
  /\ i[2] >= 0 /\ i[1] >= Len(Top.contents)
  /\ status' = "aborted"
  /\ UNCHANGED <<inputs, stack>>

Expand(i) ==
  /\ Running /\ Last(i)
  /\ i[2] >= 0 /\ i[1] < Len(Top.contents) /\ i[2] \notin Active
  /\ stack' = Append([Drop(i) EXCEPT ![Len(stack)].at = i[1]], Call(i[2], Text(i[2])))
  /\ UNCHANGED <<inputs, status>>

\* contents.replace
Replaced(text, at, by) == SubSeq(text, 1, at) \o by \o SubSeq(text, at + 2, Len(text))

Return ==
  /\ Running /\ Top.todo = {} /\ Len(stack) > 1
  /\ LET n == Len(stack) - 1
     IN stack' = [SubSeq(stack, 1, n) EXCEPT
                    ![n].contents = Replaced(@, stack[n].at, Top.contents)]
  /\ UNCHANGED <<inputs, status>>

Flattened ==
  /\ Running /\ Top.todo = {} /\ Len(stack) = 1
  /\ status' = "flattened"
  /\ UNCHANGED <<inputs, stack>>

Next == \/ ReadCode
        \/ Running /\ \E i \in Top.todo : Leave(i) \/ GiveUp(i) \/ Expand(i)
        \/ Return \/ Flattened

Spec == Init /\ [][Next]_vars

-----------------------------------------------------------------------------
(* Properties                                                              *)

\* One text after the other.
Flat(seqs) == LET F[k \in 0 .. Len(seqs)] ==
                    IF k = Len(seqs) THEN <<>> ELSE seqs[k + 1] \o F[k + 1]
              IN F[0]

\* What comes in the place of line i of f, when the files in outer are being expanded already
\* and E has the text of every other file: the line itself, unless it includes one of these.
InPlace(E, f, outer, i) ==
  LET here == {j \in incs[f] : j[1] = i - 1 /\ j[2] >= 0 /\ j[2] \notin outer \cup {f}}
  IN IF here = {} THEN <<Text(f)[i]>> ELSE E[<<(CHOOSE j \in here : TRUE)[2], outer \cup {f}>>]

\* What the preprocessor would put in the place of the lines of a file, front to back,
\* without system headers and files that include themselves.
Expansion ==
  LET E[p \in UserFiles \X SUBSET UserFiles] ==
        Flat([i \in 1 .. Len(Text(p[1])) |-> InPlace(E, p[1], p[2], i)])
  IN E

\* Replacing from the back, one #include at a time, in texts that grow (carbon_extract.cpp:180)
\* gives what expanding every line from the front would; of the calls that are under way
\* too, as far as they have come.
FlattenIsExpansion ==
  /\ status = "flattened" => stack[1].contents = Expansion[<<0, {}>>]
  /\ \A n \in 2 .. Len(stack) :
       stack[n].todo = {} /\ n = Len(stack) =>
         stack[n].contents = Expansion[<<stack[n].f, {stack[m].f : m \in 1 .. n - 1}>>]

\* The files whose text can come into the output.
TakePart ==
  {f \in UserFiles :
     \A S \in SUBSET UserFiles :
       0 \in S /\ (\A g \in S : \A i \in incs[g] : i[2] \in UserFiles => i[2] \in S) => f \in S}

\* carbon-extract gives up (carbon_extract.cpp:199) on code exactly when a file that takes
\* part in it was included a second time and includes a user header there, or is excluded
\* and includes one at all, whatever the order, the nesting and the recursion.
GivesUpBeyondTheText ==
  status \in {"aborted", "flattened"} =>
    ((status = "aborted") <=>
       \E f \in TakePart : \E i \in incs[f] : i[2] >= 0 /\ i[1] >= Len(Text(f)))

\* Code is printed as it was compiled (collect_impl.h:24, code_reader.cpp:149), and read at
\* all, whichever of its bands is printed, if its offsets did not overflow or come to stand
\* for the entire file, and the file was not edited up to the end of the code since; nor,
\* if it was included before, got another size.
PrintedAsCompiled ==
  LET N == Len(code.was)
      fits == code.end + code.k * N < IntMax
      unedited == /\ code.end <= Len(code.now)
                  /\ SubSeq(code.now, 1, code.end) = SubSeq(code.was, 1, code.end)
                  /\ piece.beg < N \/ Len(code.now) = N
  IN (fits /\ unedited /\ 0 \notin excluded) =>
       /\ status \notin {"skipped", "died"}
       /\ status # "reading" => Text(0) = SubSeq(code.was, code.beg + 1, code.end)

=============================================================================
