------------------------------- MODULE Plugin -------------------------------
(***************************************************************************)
(* The clang plugin of collect/src/carbon_collect.cpp: what the callbacks  *)
(* of the preprocessor and of the parser do, in the order clang makes them *)
(* while it lexes one translation unit, and the calls they make into the   *)
(* collector.                                                              *)
(*                                                                         *)
(* The text of a file is a sequence of items, each of them one position    *)
(* long: a directive, or a token of a declaration.  A FileID is a number,  *)
(* in the order in which clang enters files.                               *)
(***************************************************************************)
EXTENDS Collector

CONSTANTS Macros,   \* names of macros
          Texts,    \* the translation units: what each file contains
          Main,     \* the file clang is run on
          None,     \* the null pointer
          MaxFids   \* bound on the number of inclusions

Ifs == {"ifdef", "ifndef", "ifdefined"}

\* The conditionals begun at positions p to q that are still open after q.
Depth(text, p, q) == Cardinality({i \in p .. q : text[i + 1].op \in Ifs})
                       - Cardinality({i \in p .. q : text[i + 1].op = "endif"})

Closes(text, p, q) == Depth(text, p, q) = 0 /\ \A i \in p .. q - 1 : Depth(text, p, i) > 0

\* The #endif of the #if at position p.
Match(text, p) == CHOOSE q \in p .. Len(text) - 1 : Closes(text, p, q)

IfOf(text, p) == CHOOSE q \in 0 .. p - 1 : text[q + 1].op \in Ifs /\ Match(text, q) = p

\* The #if that the #else at position p belongs to, the innermost one around it.
IfOfElse(text, p) ==
  LET around == {q \in 0 .. p - 1 : text[q + 1].op \in Ifs /\ Match(text, q) > p}
  IN CHOOSE q \in around : \A o \in around : o <= q

Elses(text, p) == {q \in DOMAIN text : text[q].op = "else" /\ IfOfElse(text, q - 1) = p}

\* All of the file is inside one #ifndef without #else.
Wrapped(text) == /\ text # <<>> /\ text[1].op = "ifndef"
                 /\ Match(text, 0) = Len(text) - 1 /\ Elses(text, 0) = {}

\* What an item says, by its kind.
ItemOK(i) ==
  /\ i.op \in Ifs \cup {"define", "undef", "expand"} => i.arg \in Macros
  /\ i.op = "define" => i.body \in Macros \cup {None}
  /\ i.op = "include" => i.arg \in Files
  /\ i.op = "open" => i.arg \in [s : Symbols, kind : {"global", "static", "type"}, def : BOOLEAN]
  /\ i.op = "ref" => i.arg \in Symbols

\* Every #if has its #endif; #else and #endif have their #if.
Balanced(text) ==
  \A p \in 0 .. Len(text) - 1 :
    /\ text[p + 1].op \in Ifs => \E q \in p + 1 .. Len(text) - 1 : Closes(text, p, q)
    /\ text[p + 1].op = "endif" =>
         \E q \in 0 .. p - 1 : text[q + 1].op \in Ifs /\ Match(text, q) = p
    /\ text[p + 1].op = "else" =>
         \E q \in 0 .. p - 1 : text[q + 1].op \in Ifs /\ Match(text, q) > p

ASSUME PluginAssumption ==
  /\ Main \in Files /\ MaxFids \in Nat \ {0}
  /\ None \notin [n : Nat, beg : Nat, end : Nat]   \* a null pointer, and no piece of text
  /\ \A t \in Texts :
       /\ DOMAIN t = Files /\ ~Wrapped(t[Main])
       /\ \A f \in Files :
            /\ t[f] \in Seq({t[f][i] : i \in DOMAIN t[f]}) /\ Len(t[f]) <= Size[f]
            /\ \A i \in DOMAIN t[f] : ItemOK(t[f][i])
            /\ Balanced(t[f])

VARIABLES text,    \* the translation unit
          file,    \* file[n]: the file that FileID n is an inclusion of
          stack,   \* the files being lexed: FileID and position, innermost last
          macro,   \* the preprocessor's definition of every macro
          expanding, \* the macros being expanded, outermost first; the callback for the
                     \* last of them is still to come
          defs,    \* CarbonCollectPP::defs, the definition last noted
          decl,    \* the top-level declaration being parsed
          ended,   \* the one parsed that HandleTopLevelDecl was not called for yet
          decls,   \* the latest declaration of every symbol
          exited,  \* files whose controlling macro clang knows
          guards,  \* at_end.HeaderGuardNames
          atEnd,   \* at_end.ifndef, ifdef and endif
          band,    \* FileMultMap: the band of every FileID asked about
          todo,    \* the calls into the collector the running callback still makes
          handled, \* HandleTranslationUnit was called
          history  \* history: the definitions of every macro, in order

clang == <<text, file, stack, macro, expanding, decl, ended, decls, exited>>
plugin == <<defs, guards, atEnd, band, todo, handled>>
pluginVars == <<clang, plugin, history, vars>>

-----------------------------------------------------------------------------
(* Places in the text.  clang's are in a FileID; the collector's in a band *)
(* of a file, the bands being given out when a FileID is first asked about.*)

Here == stack[Len(stack)].n
P == stack[Len(stack)].p
Item == text[file[Here]][P + 1]
Piece(n, b, e) == [n |-> n, beg |-> b, end |-> e]
This == Piece(Here, P, P + 1)

\* Mutant: a file included again has the positions it had.
BandZero(n) == 0

Band(n) == IF n \in DOMAIN band THEN band[n]
           ELSE Cardinality({m \in DOMAIN band : file[m] = file[n]})

\* clang_source_range
RangeOf(r) == [f |-> file[r.n], k |-> Band(r.n), beg |-> r.beg, end |-> r.end]

\* is_counterpart: the same text, in this inclusion or another.
Counterpart(r, s) == file[r.n] = file[s.n] /\ r.beg = s.beg /\ r.end = s.end

-----------------------------------------------------------------------------
(* The calls a callback makes, one per step and in order: each of them is  *)
(* an action of Collector.                                                 *)

CallOf(op, user, usee, what) == [op |-> op, user |-> user, usee |-> usee, what |-> what]

\* A callback that only computes the position asks for the band all the same.
Ask(r) == CallOf("ask", r, r, None)
CodeCall(r) == CallOf("code", r, r, None)
UseCall(r, s) == CallOf("use", r, s, None)

Make(call) ==
  LET user == RangeOf(call.user)
      usee == RangeOf(call.usee)
  IN \/ call.op \in {"ask", "skip"} /\ UNCHANGED vars
     \/ call.op = "code" /\ AddCode(user)
     \/ call.op = "use" /\ UseCode(user, usee)
     \/ call.op = "follow" /\ Follow(user, usee)
     \/ call.op = "global" /\ GlobalCode(user, call.what.s, call.what.def)
     \/ call.op = "static" /\ StaticCode(user, call.what.s, call.what.def)
     \/ call.op = "inclusion" /\ Inclusion(Begin(user), call.what)
     \/ call.op = "defined" /\ Conditional("defined", Begin(user), InBand(usee, 0))
     \/ call.op \in {"ifndef", "ifdef"} /\ Conditional(call.op, Begin(user), usee)
     \/ call.op = "endif" /\ Endif(user)

Perform ==
  /\ todo # <<>>
  /\ Make(Head(todo))
  /\ todo' = Tail(todo)
  /\ band' = [n \in DOMAIN band \cup {Head(todo).user.n, Head(todo).usee.n} |-> Band(n)]
  /\ UNCHANGED <<clang, defs, guards, atEnd, handled, history>>

-----------------------------------------------------------------------------
PluginInit ==
  /\ Init
  /\ text \in Texts
  /\ file = <<Main>> /\ stack = <<[n |-> 1, p |-> 0]>>
  /\ macro = [m \in Macros |-> None] /\ defs = macro /\ expanding = <<>>
  /\ decl = None /\ ended = None /\ decls = [s \in Symbols |-> None]
  /\ exited = {} /\ guards = {}
  /\ atEnd = [ifndef |-> <<>>, ifdef |-> <<>>, endif |-> <<>>]
  /\ band = <<>> /\ todo = <<>> /\ handled = FALSE
  /\ history = [m \in Macros |-> <<>>]

\* clang goes on when the callback has returned and the macro is expanded.
Lexes(ops) ==
  /\ todo = <<>> /\ expanding = <<>> /\ stack # <<>> /\ P < Len(text[file[Here]])
  /\ Item.op \in ops

GoTo(p) == stack' = [stack EXCEPT ![Len(stack)].p = p]

-----------------------------------------------------------------------------
(* The callbacks of the preprocessor.                                      *)

\* Mutant: the users of the first definition are followed by every later one.
DefinedNotNoted ==
  LET m == Item.arg
      redefined == defs[m] # None /\ ~Counterpart(This, defs[m])
  IN /\ Lexes({"define"})
     /\ macro' = [macro EXCEPT ![m] = This]
     /\ defs' = IF defs[m] = None THEN [defs EXCEPT ![m] = This] ELSE defs
     /\ todo' = <<CodeCall(This)>>
                  \o IF redefined THEN <<CallOf("follow", defs[m], This, None)>> ELSE <<>>
     /\ history' = [history EXCEPT ![m] = Append(@, This)]
     /\ GoTo(P + 1)
     /\ UNCHANGED <<text, file, expanding, decl, ended, decls, exited, guards, atEnd, band,
                    handled, vars>>

MacroDefined ==
  LET m == Item.arg
      redefined == defs[m] # None /\ ~Counterpart(This, defs[m])
  IN /\ Lexes({"define"})
     /\ macro' = [macro EXCEPT ![m] = This]
     /\ defs' = IF defs[m] = None \/ redefined THEN [defs EXCEPT ![m] = This] ELSE defs
     /\ todo' = <<CodeCall(This)>>
                  \o IF redefined THEN <<CallOf("follow", defs[m], This, None)>> ELSE <<>>
     /\ history' = [history EXCEPT ![m] = Append(@, This)]
     /\ GoTo(P + 1)
     /\ UNCHANGED <<text, file, expanding, decl, ended, decls, exited, guards, atEnd, band,
                    handled, vars>>

\* There is no callback for #undef: defs keeps the definition.
MacroUndefined ==
  /\ Lexes({"undef"})
  /\ macro' = [macro EXCEPT ![Item.arg] = None]
  /\ GoTo(P + 1)
  /\ UNCHANGED <<text, file, expanding, decl, ended, decls, exited, plugin, history, vars>>

Body(m) == text[file[macro[m].n]][macro[m].beg + 1].body

\* What is expanded after m, when these are being expanded around it: the macro in the body
\* of m, if it is defined and not one of them.
ExpandsIn(outer, m) ==
  LET inside == Append(outer, m)
      next == Body(m)
  IN IF next = None THEN <<>>
     ELSE IF next \in {inside[i] : i \in DOMAIN inside} \/ macro[next] = None THEN <<>>
     ELSE Append(inside, next)

\* Mutant: user and usee change places.
ExpandsSwapped ==
  /\ Lexes({"expand"})
  /\ \/ macro[Item.arg] = None /\ decl # None /\ UNCHANGED <<todo, expanding>>
     \/ /\ macro[Item.arg] # None
        /\ todo' = <<UseCall(macro[Item.arg], This)>>
        /\ expanding' = ExpandsIn(<<>>, Item.arg)
  /\ GoTo(P + 1)
  /\ UNCHANGED <<text, file, macro, decl, ended, decls, exited, defs, guards, atEnd, band,
                 handled, history, vars>>

\* Outside declarations only macros that expand to nothing are valid; a name that is no
\* macro is not expanded.
MacroExpands ==
  /\ Lexes({"expand"})
  /\ \/ macro[Item.arg] = None /\ decl # None /\ UNCHANGED <<todo, expanding>>
     \/ /\ macro[Item.arg] # None
        /\ todo' = <<UseCall(This, macro[Item.arg])>>
        /\ expanding' = ExpandsIn(<<>>, Item.arg)
  /\ GoTo(P + 1)
  /\ UNCHANGED <<text, file, macro, decl, ended, decls, exited, defs, guards, atEnd, band,
                 handled, history, vars>>

\* The callback for a macro in the body of another, at the place of the outermost one.
NestedMacroExpands ==
  LET last == Len(expanding)
      m == expanding[last]
  IN /\ todo = <<>> /\ expanding # <<>>
     /\ todo' = <<UseCall(Piece(Here, P - 1, P), macro[m])>>
     /\ expanding' = ExpandsIn(SubSeq(expanding, 1, last - 1), m)
  /\ UNCHANGED <<text, file, stack, macro, decl, ended, decls, exited, defs, guards, atEnd, band,
                 handled, history, vars>>

\* #ifdef and #ifndef of a macro that is not defined are both put off as an #ifdef
\* that uses itself; of one that is defined, it also is a use right away.
PutOff(op, usee) ==
  LET list == IF op = "ifndef" /\ usee # None THEN "ifndef" ELSE "ifdef"
      use == [user |-> This, usee |-> IF usee = None THEN This ELSE usee, name |-> Item.arg]
  IN atEnd' = IF op = "ifdefined" THEN atEnd ELSE [atEnd EXCEPT ![list] = Append(@, use)]

ConditionCalls(op, usee) ==
  IF usee = None
  THEN IF op = "ifdefined" THEN <<>> ELSE <<Ask(This)>>
  ELSE <<UseCall(This, usee)>>
         \o IF op = "ifdefined" THEN <<CallOf("defined", This, usee, None)>> ELSE <<>>

\* Ifdef, Ifndef and Defined.  What is skipped makes no callbacks, up to after the #else
\* or to the #endif.
If ==
  LET usee == macro[Item.arg]
      holds == (Item.op = "ifndef") = (usee = None)
      t == text[file[Here]]
      elses == Elses(t, P)
  IN /\ Lexes(Ifs)
     /\ todo' = ConditionCalls(Item.op, usee)
     /\ PutOff(Item.op, usee)
     /\ GoTo(IF holds THEN P + 1 ELSE IF elses = {} THEN Match(t, P) ELSE CHOOSE q \in elses : TRUE)
     /\ UNCHANGED <<text, file, macro, expanding, decl, ended, decls, exited, defs, guards,
                    band, handled,
                    history, vars>>

\* There is no callback for #else: what comes after it is skipped up to the #endif.
Else ==
  /\ Lexes({"else"})
  /\ GoTo(Match(text[file[Here]], IfOfElse(text[file[Here]], P)))
  /\ UNCHANGED <<text, file, macro, expanding, decl, ended, decls, exited, plugin, history, vars>>

\* Mutant: the range of the conditional is that of its #endif.
EndifAlone ==
  /\ Lexes({"endif"})
  /\ todo' = <<Ask(This)>>
  /\ atEnd' = [atEnd EXCEPT !.endif = Append(@, This)]
  /\ GoTo(P + 1)
  /\ UNCHANGED <<text, file, macro, expanding, decl, ended, decls, exited, defs, guards, band,
                 handled,
                 history, vars>>

EndifSeen ==
  LET r == Piece(Here, IfOf(text[file[Here]], P), P + 1)
  IN /\ Lexes({"endif"})
     /\ todo' = <<Ask(r)>>
     /\ atEnd' = [atEnd EXCEPT !.endif = Append(@, r)]
     /\ GoTo(P + 1)
     /\ UNCHANGED <<text, file, macro, expanding, decl, ended, decls, exited, defs, guards,
                    band, handled,
                    history, vars>>

\* A file whose controlling macro is defined is not entered again; the callback for
\* the directive is made all the same.
InclusionDirective ==
  LET f == Item.arg
      enters == ~(f \in exited /\ Wrapped(text[f]) /\ macro[text[f][1].arg] # None)
      next == [stack EXCEPT ![Len(stack)].p = P + 1]
  IN /\ Lexes({"include"})
     /\ enters => Len(file) < MaxFids
     /\ todo' = <<CallOf("inclusion", This, This, f)>>
     /\ file' = IF enters THEN Append(file, f) ELSE file
     /\ stack' = IF enters THEN Append(next, [n |-> Len(file) + 1, p |-> 0]) ELSE next
     /\ UNCHANGED <<text, macro, expanding, decl, ended, decls, exited, defs, guards, atEnd,
                    band, handled,
                    history, vars>>

\* FileChanged, for ExitFile.
FileChanged ==
  /\ todo = <<>> /\ expanding = <<>> /\ Len(stack) > 1
  /\ LET t == text[file[Here]]
     IN /\ P = Len(t)
        /\ guards' = IF Wrapped(t) THEN guards \cup {t[1].arg} ELSE guards
  /\ exited' = exited \cup {file[Here]}
  /\ stack' = SubSeq(stack, 1, Len(stack) - 1)
  /\ UNCHANGED <<text, file, macro, expanding, decl, ended, decls, defs, atEnd, band, todo, handled,
                 history, vars>>

-----------------------------------------------------------------------------
(* The parser.  It is one token ahead: a declaration is delivered when the  *)
(* token after it was lexed, and the directives before that token.         *)

\* HandleTopLevelDecl
Deliver(d) ==
  LET r == Piece(d.n, d.beg, d.end)
      target(s) == IF s = d.what.s THEN r ELSE decls[s]
  IN <<CodeCall(r)>>
       \o (IF d.what.kind = "type" THEN <<>> ELSE <<CallOf(d.what.kind, r, r, d.what)>>)
       \o [i \in DOMAIN d.refs |-> UseCall(d.refs[i].at, target(d.refs[i].s))]

DeliverEnded ==
  /\ todo' = IF ended = None THEN <<>> ELSE Deliver(ended)
  /\ decls' = IF ended = None THEN decls
              ELSE [decls EXCEPT ![ended.what.s] = Piece(ended.n, ended.beg, ended.end)]

DeclBegins ==
  /\ Lexes({"open"}) /\ decl = None
  /\ decl' = [n |-> Here, beg |-> P, end |-> P, what |-> Item.arg, refs |-> <<>>]
  /\ DeliverEnded /\ ended' = None
  /\ GoTo(P + 1)
  /\ UNCHANGED <<text, file, macro, expanding, exited, defs, guards, atEnd, band, handled,
                 history, vars>>

DeclRefers ==
  /\ Lexes({"ref"}) /\ decl # None
  /\ Item.arg = decl.what.s \/ decls[Item.arg] # None
  /\ decl' = [decl EXCEPT !.refs = Append(@, [at |-> This, s |-> Item.arg])]
  /\ GoTo(P + 1)
  /\ UNCHANGED <<text, file, macro, ended, expanding, decls, exited, plugin, history, vars>>

\* clang_source_range aborts for a declaration that ends in another file than it
\* began in: such a translation unit goes no further.
DeclEnds ==
  /\ Lexes({"close"}) /\ decl # None /\ decl.n = Here
  /\ ended' = [decl EXCEPT !.end = P + 1]
  /\ decl' = None
  /\ GoTo(P + 1)
  /\ UNCHANGED <<text, file, macro, expanding, decls, exited, plugin, history, vars>>

EndOfMain ==
  /\ todo = <<>> /\ expanding = <<>> /\ Len(stack) = 1 /\ P = Len(text[Main]) /\ decl = None
  /\ DeliverEnded /\ ended' = None
  /\ stack' = <<>>
  /\ UNCHANGED <<text, file, macro, expanding, decl, exited, defs, guards, atEnd, band, handled,
                 history, vars>>

-----------------------------------------------------------------------------
(* The end of the translation unit.                                        *)

\* Mutant: header guards are conditionals like others.
NoGuard(r) == FALSE

\* The conditional that begins at r is a header guard.
IsGuard(r) ==
  \E list \in {"ifndef", "ifdef"} : \E i \in DOMAIN atEnd[list] :
    /\ atEnd[list][i].user.n = r.n /\ atEnd[list][i].user.beg = r.beg
    /\ atEnd[list][i].name \in guards

\* An iteration of the loops over at_end; those for header guards do nothing.
CallAtEnd(op, user, usee) == CallOf(IF IsGuard(user) THEN "skip" ELSE op, user, usee, None)

HandleTranslationUnit ==
  /\ todo = <<>> /\ stack = <<>> /\ ~handled
  /\ handled' = TRUE
  /\ LET conditions(list) == [i \in DOMAIN atEnd[list] |->
                                CallAtEnd(list, atEnd[list][i].user, atEnd[list][i].usee)]
         ends == [i \in DOMAIN atEnd.endif |->
                    CallAtEnd("endif", atEnd.endif[i], atEnd.endif[i])]
     IN todo' = conditions("ifndef") \o conditions("ifdef") \o ends
  /\ UNCHANGED <<clang, defs, guards, atEnd, band, history, vars>>

FinalizeRuns ==
  /\ todo = <<>> /\ handled
  /\ FinalizeStep
  /\ UNCHANGED <<clang, plugin, history>>

-----------------------------------------------------------------------------
PluginNext ==
  \/ Perform
  \/ MacroDefined \/ MacroUndefined \/ MacroExpands \/ NestedMacroExpands \/ If \/ Else \/ EndifSeen
  \/ InclusionDirective \/ FileChanged
  \/ DeclBegins \/ DeclRefers \/ DeclEnds \/ EndOfMain
  \/ HandleTranslationUnit \/ FinalizeRuns

PluginSpec == PluginInit /\ [][PluginNext]_pluginVars

-----------------------------------------------------------------------------
(* Properties                                                              *)

PluginTypeOK ==
  /\ TypeOK
  /\ \A i \in DOMAIN stack : stack[i].n \in DOMAIN file
  /\ Len(file) <= MaxFids
  /\ DOMAIN band \subseteq DOMAIN file
  /\ \A n, m \in DOMAIN band : file[n] = file[m] /\ band[n] = band[m] => n = m
  /\ \A i \in DOMAIN todo : RangeOf(todo[i].user) \in SourceRange
                              /\ RangeOf(todo[i].usee) \in SourceRange

\* x and y are in one vertex, or an edge that carriers of code are searched along
\* leads from the vertex of x to that of y.
Leads(x, y) ==
  \E a, b \in g.verts : /\ Within(x, a) /\ Within(y, b)
                        /\ \/ a = b
                           \/ <<a, b>> \in DOMAIN g.edge /\ g.edge[<<a, b>>] # "FOLLOWS"

\* What the README promises (README.md:2, "transitively extract source code"): code has
\* an edge to all that it uses, and no later call turns the use around or into mere
\* order.
UsesLead == \A u \in uses : Leads(u[1], u[2])

Once(f) == \A m, n \in DOMAIN file : file[m] = f /\ file[n] = f => m = n

\* Inside a file that is included once, whatever is included where, every edge that orders
\* output points back in its text, so no cycle is ever found between its pieces. Only from a
\* piece to itself can an edge lead, when a definition that it follows has such an edge
\* (collect.cpp, follow_users_of), and that one is in a file included again.
TextOrder ==
  \A e \in DOMAIN g.edge :
    g.edge[e] # "FWD_DECL" /\ e[1].f = e[2].f /\ Once(e[1].f) =>
      \/ e[2].end <= e[1].beg
      \/ e[1] = e[2] /\ \E f \in Files : ~Once(f)

\* An edge orders the vertex at x before definition e, unless it is one piece with e
\* or uses it.
Before(x, e) ==
  LET v == At(g.verts, x)
      w == At(g.verts, Begin(RangeOf(e)))
  IN v = w \/ <<w, v>> \in DOMAIN g.edge \/ <<v, w>> \in DOMAIN g.edge

UsersOf(d) == {u[1] : u \in {w \in uses : w[2] = Begin(RangeOf(d))}}

\* The definition repeats the one before, in another inclusion of its file.
IsCopy(m, i) == i > 1 /\ Counterpart(history[m][i - 1], history[m][i])

\* The code at x also uses a copy of d: `defined` notes a use of the text in band 0 as well
\* (carbon_collect.cpp:515), which no later definition follows.
UsesCopy(x, d) ==
  \E u \in uses : /\ u[1] = x /\ u[2] # Begin(RangeOf(d))
                  /\ u[2].f = file[d.n] /\ u[2].p = d.beg

\* The piece of d in turn uses that of x, as it can when an inclusion of the file inside itself
\* has joined d and later code. Of opposite uses only the later one keeps its edge (collect.cpp,
\* use): when it is that of d, follow_users_of does not see x.
UseEachOther(x, d) ==
  \E u \in uses : /\ At(g.verts, u[1]) = At(g.verts, Begin(RangeOf(d)))
                  /\ At(g.verts, u[2]) = At(g.verts, x)

\* Code that uses a definition from outside is not moved past the definition that
\* replaces it, unless the definition used is a mere copy or its piece uses that code.
NextDefinitionFollows ==
  phase = "done" =>
    \A m \in Macros : \A i \in 1 .. Len(history[m]) - 1 :
      LET d == history[m][i]
          e == history[m][i + 1]
      IN Counterpart(d, e) \/ IsCopy(m, i)
           \/ \A x \in UsersOf(d) : \/ Before(x, e) \/ UsesCopy(x, d) \/ UseEachOther(x, d)
                                     \/ At(g.verts, x) = At(g.verts, Begin(RangeOf(d)))

\* Nor is any code that uses it, from whatever place and through whatever inclusion:
\* "if the macro here is being redefined, we need to make sure that all code which uses
\* the previous definition is, in turn, used by the new redefinition to preserve the
\* textual ordering" (carbon_collect.cpp:412-415).
AllUsersStayBefore ==
  phase = "done" =>
    \A m \in Macros : \A i \in 1 .. Len(history[m]) - 1 :
      LET d == history[m][i]
          e == history[m][i + 1]
      IN Counterpart(d, e) \/ \A x \in UsersOf(d) : Before(x, e)

\* A conditional that any piece of code reaches into is part of that piece as a
\* whole, so that no #if is printed without its #endif; header guards, in any inclusion of
\* their file, and conditionals around an #include are left out on purpose.
ConditionalsAreWhole ==
  phase = "done" =>
    \A n \in DOMAIN file : \A p \in DOMAIN text[file[n]] :
      LET t == text[file[n]]
          r == Piece(n, p - 1, Match(t, p - 1) + 1)
      IN t[p].op \in Ifs =>
           \/ \E m \in DOMAIN file : file[m] = file[n] /\ IsGuard(Piece(m, r.beg, r.end))
           \/ \E i \in r.beg .. r.end - 1 : t[i + 1].op = "include"
           \/ \A v \in g.verts : Overlap(v, RangeOf(r)) => Encloses(v, RangeOf(r))

\* The guard of a header never joins the header into one piece of code.
GuardsStayOut ==
  \A n \in DOMAIN band :
    n # 1 /\ Wrapped(text[file[n]]) =>
      ~\E v \in g.verts : Encloses(v, RangeOf(Piece(n, 0, Len(text[file[n]]))))

=============================================================================
