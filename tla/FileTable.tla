----------------------------- MODULE FileTable ------------------------------
(***************************************************************************)
(* The collector's table of source files (collect/src/collect.cpp): a file *)
(* is registered when a place in it is first mentioned, by the FileID of   *)
(* an inclusion, or when an #include of it is seen, by its FileEntryRef.   *)
(* The two do not agree on what a system header is: for a FileID it is     *)
(* what is found in a system directory or included from a system header,   *)
(* for a FileEntryRef only the directory counts.                           *)
(***************************************************************************)
EXTENDS Integers, Sequences

CONSTANTS Files,     \* the files; a path stands for its file
          Main,      \* the file clang is run on
          UserFiles, \* the files found in directories that are not for the system
          Includes,  \* <<f, h>>: a line of f may include h, which may be f or Main
          None,      \* the empty string
          MaxFids    \* bound on the number of inclusions

ASSUME FileAssumption == /\ Main \in UserFiles /\ UserFiles \subseteq Files /\ None \notin Files
                         /\ Includes \subseteq Files \X Files

VARIABLES fids, \* the inclusions clang made: file, parent and characteristic
          t     \* the table

vars == <<fids, t>>

EmptyTable == [user   |-> <<>>,  \* user_src_f_paths
               syst   |-> <<>>,  \* syst_src_f_paths
               toplvl |-> <<>>,  \* toplvl_syst_src_f_paths
               index  |-> [f \in {} |-> 0], \* src_f_map
               died   |-> FALSE] \* std::out_of_range was thrown and not caught

Known(u, f) == f \in DOMAIN u.index

\* Mutant: no room for the minus sign.
IndexIsNegation(i) == -i

\* syst_index_of_index and index_of_source_file, which invert each other.
SystIndex(i) == -1 - i
IndexOf(x) == IF x < 0 THEN -(x + 1) ELSE x

Assign(index, f, x) == [h \in DOMAIN index \cup {f} |-> IF h = f THEN x ELSE index[h]]

AddUser(u, f) == [u EXCEPT !.user = Append(@, f),
                           !.index = Assign(@, f, Len(u.user))]

AddSyst(u, f, top) == [u EXCEPT !.syst = Append(@, f),
                                !.toplvl = Append(@, top),
                                !.index = Assign(@, f, SystIndex(Len(u.syst)))]

\* top_level_system_header: the outermost inclusion that user code did not write; the
\* main file has no #include to go up from.
Top[n \in 2 .. Len(fids)] ==
  IF ~fids[fids[n].parent].sys THEN n ELSE Top[fids[n].parent]

\* Mutant: an inclusion that says otherwise registers the file anew.
AskFidAgain(u, n) ==
  IF fids[n].sys THEN AddSyst(u, fids[n].file, fids[Top[n]].file)
  ELSE IF Known(u, fids[n].file) THEN u ELSE AddUser(u, fids[n].file)

\* Mutant: the header noted is the one with the #include, not the outermost.
AskFidParent(u, n) ==
  LET f == fids[n].file
      includer == fids[fids[n].parent].file
      slot == IndexOf(u.index[f]) + 1
  IN IF ~fids[n].sys THEN IF Known(u, f) THEN u ELSE AddUser(u, f)
     ELSE IF ~Known(u, f) THEN AddSyst(u, f, includer)
     ELSE IF slot \in DOMAIN u.toplvl THEN [u EXCEPT !.toplvl[slot] = includer]
     ELSE [u EXCEPT !.died = TRUE]

\* clang_source_file(FileID).  The slot of toplvl is found by the index of the file,
\* whichever of the two lists that is an index of.
AskFid(u, n) ==
  LET f == fids[n].file
      slot == IndexOf(u.index[f]) + 1
  IN CASE ~Known(u, f) /\ fids[n].sys  -> AddSyst(u, f, fids[Top[n]].file)
       [] ~Known(u, f) /\ ~fids[n].sys -> AddUser(u, f)
       [] Known(u, f) /\ ~fids[n].sys  -> u
       [] Known(u, f) /\ fids[n].sys   ->
            IF slot \in DOMAIN u.toplvl
            THEN [u EXCEPT !.toplvl[slot] = fids[Top[n]].file]
            ELSE [u EXCEPT !.died = TRUE]

\* clang_source_file(FileEntryRef).  The top-level header is "to be filled in later".
AskFer(u, f) ==
  IF Known(u, f) THEN u
  ELSE IF f \in UserFiles THEN AddUser(u, f) ELSE AddSyst(u, f, None)

-----------------------------------------------------------------------------
Init == /\ fids = <<[file |-> Main, parent |-> 0, sys |-> FALSE]>>
        /\ t = EmptyTable

\* collector::inclusion, with its two arguments mapped in either order; clang then
\* enters the file or skips it.
Inclusion(n, f, enters) ==
  /\ ~t.died /\ <<fids[n].file, f>> \in Includes
  /\ enters => Len(fids) < MaxFids
  /\ t' \in {AskFer(AskFid(t, n), f), AskFid(AskFer(t, f), n)}
  /\ fids' = IF enters
             THEN Append(fids, [file |-> f, parent |-> n,
                                sys |-> f \notin UserFiles \/ fids[n].sys])
             ELSE fids

\* Every other call of the collector maps places of inclusion n.
Mention(n) ==
  /\ ~t.died
  /\ t' = AskFid(t, n)
  /\ UNCHANGED fids

Next == \E n \in DOMAIN fids :
          Mention(n) \/ \E f \in Files, enters \in BOOLEAN : Inclusion(n, f, enters)

Spec == Init /\ [][Next]_vars

-----------------------------------------------------------------------------
(* Properties                                                              *)

\* Every file has one entry, and its index leads to it; the two parallel vectors of
\* system headers stay parallel.
TypeOK ==
  /\ \A i \in DOMAIN t.user : t.index[t.user[i]] = i - 1
  /\ \A i \in DOMAIN t.syst : t.index[t.syst[i]] = -i
  /\ DOMAIN t.index = {t.user[i] : i \in DOMAIN t.user} \cup {t.syst[i] : i \in DOMAIN t.syst}
  /\ Len(t.toplvl) = Len(t.syst)

\* The header noted for a system header is one that user code included and that
\* led to it: "parallel to syst_src_f_paths, this contains the 'top-level' headers
\* which user code referenced which eventually included the corresponding headers"
\* (collect_impl.h:113-115).
TopLevelLeadsThere ==
  /\ ~t.died
  /\ \A i \in DOMAIN t.syst :
       t.toplvl[i] # None =>
         \E n \in DOMAIN fids : /\ fids[n].file = t.syst[i] /\ fids[n].sys
                                /\ fids[Top[n]].file = t.toplvl[i]

\* A place once mapped to a file keeps naming that file: source_file_t's are stored
\* in vertices and are never mapped again.
IndexIsStable == [][\A f \in DOMAIN t.index : f \in DOMAIN t'.index /\ t'.index[f] = t.index[f]]_vars

=============================================================================
