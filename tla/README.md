# carbon-copy in TLA+

carbon-copy extracts pieces of C code, with everything they need, from a code base. A clang
plugin records, for every compile, a dependency graph of the source text; `carbon-extract`
reads the graphs, searches one from the code asked for, sorts what it reached and prints it.
This directory models the parts of that program that have state, checks them with TLC on
small instances and proves what matters most with TLAPS.

    tlc -config MCCollector.cfg MCCollector.tla     # a run, see the table below
    tlapm CollectorProofs.tla                       # a proof

`PROJECT.json` lists the runs, the lines of source every definition stands for, a mutated
definition for every checked property (the run finds it), the hazards the properties are
for, and what the runs found.

## Inventory

| component | source | state | operations | modelled in |
|---|---|---|---|---|
| preprocessor callbacks, consumer | collect/src/carbon_collect.cpp | the definition last noted of each macro, `at_end`, names of header guards, bands of inclusions | MacroDefined, MacroExpands, Defined, Ifdef, Ifndef, Endif, InclusionDirective, FileChanged, HandleTopLevelDecl, HandleTranslationUnit | Plugin |
| visitor of references | carbon_collect.cpp, TypeNodes.def | none | Visit*, needsDecl, needs*Type | Plugin, as references in the text |
| locations | carbon_collect.cpp, utilities_clang.cpp | FileMultMap | clang_source_range, dec_source_range, is_counterpart | Plugin (Band, RangeOf), DepGraph (InBand), Offsets |
| file tables | collect/src/collect.cpp | src_f_map, user and system paths, top-level headers | clang_source_file, twice | FileTable |
| dependency graph | collect.cpp | `res`, interval maps | code, use, use_if_user_exists, follow_users_of | DepGraph, CodeLoop |
| collector | collect.cpp | symbols, inclusions, uses put off | global_code, static_code, inclusion, ifdef ..., finalize, fixup_static_functions | Collector |
| archives and table of symbols | collect.cpp | `.carbon/**.carbon`, `.carbon/.cc` in shared memory | write_carbon_output | Store |
| arguments | extract/src/carbon_extract.cpp, read_collection.cpp | files to read | parse_command_line_arguments, main | Store |
| lookup and search | extract/src/reachable.cpp | targets, reached code | reachable_code | Lookup, Extract |
| sort | extract/src/toposort.cpp | order, excluded edges | topologically_sort_code | Extract |
| output | carbon_extract.cpp | headers printed | main, flatten_includes | Extract, Flatten; not `--clear-inc` |
| linker | extract/src/link.cpp | linked graph | link, relocate, link_into, resolve_references | Link |
| code reader | extract/src/code_reader.cpp | sizes of files | source_text, complete_source_text | Flatten, Offsets |
| graphviz, static.cpp, build files, patch of Boost | | none | | no: drawings, queries, and no behaviour over time |

**How they interact.** clang lexes and parses; its callbacks call the collector, one at a
time. Callbacks of the preprocessor come while a declaration is still being parsed, so the
graph is built in an order that is neither that of the text nor that of the syntax tree.
`HandleTranslationUnit` makes the calls that were put off, then `finalize` and
`write_carbon_output` run in the same thread. Compiles of a parallel build, and
carbon-extract, only meet in the directory `.carbon`.

**What is hard.** The collector merges vertices of the graph while others refer to them by
position, and where edges become one the type written last stays. A file that is included n times
exists n times, in *bands* of offsets, and is addressed by the first. Macros are redefined.
Whether a conditional is a header guard is known last. In the store: concurrency, signals,
crashes, a full disk, a table that only grows. In the linker: translation units disagree about
what is one piece of a shared header, and number their files differently. In the output: offsets
of the compile are used on files as they are later, in texts that change while they are used.

## Modules

`DepGraph` defines the graph as a value: a set of ranges, typed edges between them, includes.
`Code(g, r)` is what `collector_priv::code` makes of it, in closed form: all vertices that
overlap r in its band or a lower one are replaced by their hull and their edges moved, where
the edge written last decides the type (`LastWritten`). `Use`, `UseIfUserExists` and
`FollowUsersOf` are built from it. Where the outcome depends on iterating a set that changes
(a visited user of both definitions) or on addresses, the operator returns all outcomes.

`CodeLoop` translates the loop of `code` literally (find, merge, erase, find again; edges one
by one; then the band below): the turns of the do-while loop and the calls for the lower bands
are recursive functions. `Collector!CodeIsTheLoop` says that the closed form is what it computes,
before and after `process_inclusions`.

`Collector` has one action per call and one per iteration of `finalize`'s loops. Any sequence
of calls with any arguments is allowed, which is more than the plugin makes.

`Plugin` extends Collector. A translation unit is one sequence of items (directives, tokens)
per file; clang's part (`Match`, `Lexes`, `If` and `Else` skipping text, `ExpandsIn`, the parser being
one token ahead) decides which callback comes next, and a callback leaves the calls it makes in `todo`,
from where `Perform` makes them by Collector's actions. Bands are given out in the order in
which callbacks ask. The history variable `history` has every definition of a macro.

`FileTable` models the two functions that register files, over the inclusions clang made; what has
an #include of what is a constant, and may be a file itself or the main file.

`Link` models `--link`: any number of collections, each with its own numbering of files, are
read; their files are renumbered one by one, their vertices, edges and tables added one by one
in any order, and in the end declarations are led to definitions. A `std::set` ordered by a
comparison that is no order (`full_source_location_t::operator<`) is a sequence, and an
insertion ends in any gap a search can come to, whatever the shape of the tree (`Gaps`).
`Lookup` goes on from there and finds the vertices of the places and symbols asked for.

`Extract` models carbon-extract on one collection, linked or not: the searches vertex by vertex, both
depth-first sorts edge by edge with the order of Boost's containers left open, and the loop
that prints.

`Flatten` models what is printed for one piece of code. A text is a sequence of lines that name
where they come from. ReadCode reads the piece from the file as it is then, which may have been
edited; then each call of `flatten_includes` replaces its #include's from the back, and `stack`
has the calls that are under way. `Offsets` has the arithmetic in between: an offset carries
the number of the inclusion times the size of the file, in an integer of bounded width
(`IntMax`), is taken apart again by `dec_source_range`, and is read modulo the size the file
then has. `FlattenAssumption` says what a list of #include's is: offsets in a file, at most one
#include in a line, user files among those that there are, and finitely many of these.

`Catalog` is the abstract specification of the directory `.carbon`: an archive is replaced in
one step, symbols are noted one by one, nothing is taken back, and only a compile that did
everything is complete. `Store!ImplementsCatalog` is the refinement: the program counter of a
compile maps to a stage, the table to `noted`, archives to themselves.

`Store` models the steps of `write_carbon_output` by several processes (temporary file,
write, rename, table, one symbol at a time, the lock on the entry of a symbol) and the steps
of carbon-extract between its arguments and the last file read.

`DepGraphProofs`, `CollectorProofs`, `PluginProofs`, `ExtractProofs`, `FileTableProofs`,
`StoreProofs`, `LinkProofs` and `FlattenProofs` hold the theorems. `MC*` modules give constants values for TLC.

| code | model |
|---|---|
| vertex_descriptor | the range `[f, k, beg, end]`: k is the band, so that an offset of the code is `k * size + p` |
| interval maps | `At(V, x)`, `Covered(V, x)`; Disjoint is what makes them functions |
| edge property t | `g.edge[<<user, usee>>]` |
| interval_map::find of the linker | `Find(r)`: the lowest vertex that overlaps r |
| offsets beyond INT32_MAX | `ToInt` wraps around, as the build does (the sum is undefined, but is tested in another translation unit) |
| `priv->uses`, at_end lists | `extra`, `atEnd` |
| a function that returns early | a conjunct of the guard, or the ELSE of an update |
| assert | an invariant (Disjoint, SymbolsLocated, StoreTypeOK) |
| exception nothing catches, abort, exit | a state with no successors: NotADag, `died`, `aborted`, at = "abort" |

## Runs

All of these pass; the bounds follow.

| run | what it checks |
|---|---|
| collector | every sequence of 3 calls with 5 ranges in 2 bands, 1 symbol, then finalize: types, no overlaps, lower bands have everything, no use, symbol, include or text is lost; and at every graph on the way, `code` as closed form = `code` as loop, for the 5 ranges and both variants |
| extract | 3 vertices, one in a system header and one in a header that it includes, all types of edges, cycles and loops, every set of targets: completeness, order, no duplicates, termination |
| plugin | every text of 6 items (definitions, uses, conditionals, declarations) in one file, also with #else, every text of 5 macros and whole declarations where macros stand in bodies of macros, every main file of 5 items with a header of 3 that it includes up to twice, and headers of 6 that test their own guard again inside and are skipped when first included, and a file that includes itself: order of text, redefinitions, whole conditionals, header guards |
| file_table | 4 files, of which user headers and the main file include each other and themselves, 4 inclusions, registration in every order |
| store | 2 compiles, of sources in the tree or outside it, and 1 extractor with signals: exclusion, no lock left, everybody ends |
| store_faults | all requests; compiles die anywhere, writes and renames fail: archives are whole while the disk is good, nothing is forgotten, what is archived is found, and Store implements Catalog |
| link | 1 to 3 collections that share a user and a system header under other numbers, cut the user header in three ways, agree or disagree on edges and definitions, then lookups: types and the linker's assertions, no dependency lost, agreeing collections add up, declarations reach definitions, what was asked for is found |
| flatten | every way in which code of 2 lines and 2 headers of 2 lines include each other, themselves, the code's file and a system header, included once or twice, with excluded files; every piece of a file of 3 lines in each of 7 inclusions with offsets up to 7, edited in five ways |

*Why the bounds are enough.* Merging is decided by how two ranges lie to each other and to a
third between them: five ranges in three positions have every relation, and a third call
merges what two made. Two bands are enough since a band only looks at the one below. Sorting
problems need a cycle of two vertices, a larger one and a loop, next to an acyclic edge; a
header is printed twice only if two vertices share it. The proofs then remove these bounds
for Collector, Plugin, FileTable, Extract, Store, Link, Lookup, Flatten and Offsets. In
Plugin a redefinition needs definition, use and definition, and a conditional around or
across two of them: five or six items. In Store two compiles cover same source, different
sources, recompilation and conflict on a symbol; the faults are constants of the model, and
jobs are symmetric where no liveness is checked. In Link
two pieces against one, one across two, and equal ones are all the ways in which headers are cut
differently; the third collection numbers the shared header 0 and has a piece at the end of it.
In Flatten two headers give recursion, direct and through the other, and a file that is
included by both; the second inclusion of a header needs two lines more than it has. IntMax = 7
and a file of 3 lines let offsets wrap around in the second inclusion and come back to positive
in the fourth. `MaxCalls` bounds calls, `MaxFids`
inclusions; texts are bounded by `N`, `MainN`, `HeaderN` and `NestedN`.

These end in a violation: the property is what the repository says, the counterexample what
the code does. PROJECT.json `findings` quotes both.

| run | property | what the code does |
|---|---|---|
| uses_lead | UsesLead | a merge overwrites a use with mere order, and the search stops there |
| redefined_inside | AllUsersStayBefore | a user in the vertex of the definition is not followed |
| file_confusion | TopLevelLeadsThere | a user header in a system header takes another file's slot |
| link_includes | IncludesNameTheirFiles | #include's in vertices keep the file numbers of their own collection |

Where such a property fails in a known way only, a weaker one holds and is checked in a
passing run: NextDefinitionFollows for AllUsersStayBefore, UsesConnected for UsesLead,
TopLevelLeadsThere without user headers in system headers. Hazards that the precondition of a
property leaves out list no property in PROJECT.json and say so: offsets that overflow, files edited since, a disk that is full, a header without a
top-level header, a vertex with an edge to itself.

**Also met while modelling.** No run is about these; the hazards of PROJECT.json give the
lines. Users of a macro are ordered before its next definition only, not before later ones,
and users of a mere copy of a definition (the header included again) are not followed;
`defined` of such a copy also notes a use of the text in band 0 (carbon_collect.cpp:515) that no
definition follows (`UsesCopy` in NextDefinitionFollows). When the piece of a definition comes to
use one of its users, as it can where a file includes itself (`Self` in MCInclude), `use` removes
the edge by which follow_users_of would find that user (`UseEachOther`). A line
number names the first inclusion of its file, which lacks the uses of later ones. Symbols are
never taken out of the table, so a symbol that was removed from the source still leads to its
archive. Two different symbols on one command line are warned of as "multiple definitions".
main aborts before it can say what `--notfound-empty` promises. A write that fails at the last
buffer is renamed into place all the same, hence `disk = "good"` in WholeArchives. `--from-all` reads the table `.cc` and temporary files as
archives, and nothing catches what that throws (ReadCollection in Store ends in "abort"). A
path that is a user file in one collection and a system file in another has two places in a
linked graph (link.cpp:169-200), and its code there is two pieces. `all_macro_names` is not
merged, so that `--clear-inc` does nothing with `--link`. The message of `--flatten`
about an #include beyond the end of its file says "ignoring" and is followed by `abort()`; a
header below a directory given to `--exclude` has an empty text, and any #include in it does
that. Two pieces that another collection has as one give the linked graph an edge from a vertex
to itself; the catch block, "excluding the edges which induce cycles" (toposort.cpp:170), passes over
components of one vertex, and the second sort throws on such an edge (NotADag in Extract;
OnlySelfLoopsAreFatal says that it throws on nothing else). Of paths that leave the source tree,
`../x.c` is taken and its archive written beside `.carbon`; only those with "/.." in them are refused
(`Beyond` in Store).

**Fairness.** Collector, Plugin, FileTable, Link, Lookup and Flatten claim no liveness. Extract has weak fairness of
its whole next-state relation: it is one thread that waits for nothing. Store has weak
fairness of each process, which is what a scheduler gives; a process waits only for an entry
of the table, each of the finitely many others takes an entry finitely often, and so it is
free in the end. With SIGKILL that is not so (an entry stays locked in the file), and nothing
is claimed.

## Proofs

For every value of the constants, from the named ASSUMEs of the modules only:

* **DepGraphProofs**, lemmas about the graph: `Code` keeps vertices disjoint and bands closed,
  never loses text (`Keeps`), moves edges and includes to where their places went, and a use
  once recorded stays connected. And `Code` is the loop of `code` (`LoopIsCode`). The invariant
  `LoopInv` of the do-while loop says of the vertices met so far that the interval is the least
  that encloses them and the range, that they begin before all that is still to be met, and that
  in_verts and out_verts have for each neighbour the type of the edge of the one met last
  (`LastMet`). A growing interval overlaps nothing the range did not (`IntervlOverlaps`), and
  each turn goes further down the file, so that there are at most as many turns as characters
  (`LoopEnds`). One call is then `CodeIn` in one band, and one call more is one band more
  (`NextBand`): bands only touch through edges, and of two edges that become one, the one that
  `WrittenAfter` puts last is the one written last, since the higher band was merged first. With
  OnlyIfAlreadyExists the calls stop where the set of bands of `CodeIfExists` ends.
* **CollectorProofs**: `Inv`, the conjunction of Collector's invariants, is inductive. TypeOK
  needs BandClosed (an early stop in a band is only sound if the lower ones have the range),
  UsesConnected needs Disjoint, SymbolsLocated needs that vertices only grow. One lemma per
  graph operator says that it keeps a good graph good and never shrinks it (`Grows`), so that
  each action is a few lines. CodeComputesItsClosedForm is `LoopIsCode` on reachable graphs: it
  needs TypeOK and Disjoint. Eight theorems.
* **PluginProofs**, for any translation unit. The inductive invariant `PluginInv` is Collector's
  `Inv` and what the callbacks know between two calls: clang is in the #if's that it entered and
  every other inclusion on the stack waits after its #include (`Reading`); macros, `defs` and
  declarations are pieces that were lexed (`Defining`, `Expanding`, `Declarations`); what is put
  off to the end of the translation unit, and what is still to be called, is about such pieces,
  and the user of each use comes after what it uses (`Late`, `Calling`); the #ifndef of a guard
  never reaches into its header but as a conditional that is left out (`Guarding`);
  inclusions of a file have different bands (`Banded`); and all that a later callback will
  use has been asked for already, so that each callback asks for one band at most (`Asking`).
  Without the last part two calls of one callback could be given the same band.
  PluginIsACaller says that the plugin's steps are steps of a collector that is called in any
  way, so CollectorProofs holds of it. For GuardsStayOut, ranges that do not join a
  guard with the header only ever merge to such ranges (`HullClosed`). For TextOrder the calls are
  known to look back, and every operation of the graph keeps edges pointing back when its call
  does: merges keep the order of what they merge (`CodeBack`), and of the range of a new
  definition it is known that it was marked just before, after all code of its file, and that
  nothing leads from it yet (`Fresh`), so that the users put in front of it are. For
  ConditionalsAreWhole, a piece may reach into a conditional before the end only if the range of
  that conditional, in the same band or in one above with code all the way down, is still to be
  joined (`Excused`). While clang reads, these are the conditionals it is in or has seen the #endif
  of (`IfsSeen`), and every range that a callback marks reaches into such conditionals only
  (`TouchedIn`). From finalize on they are those in the list (`Waiting`): joining one leaves it
  whole in every band (`EndifWhole`), and as conditionals nest (`Nests`) a hull never reaches into
  one that its parts do not reach into (`HullCuts`). When the list is empty none is
  excused. For NextDefinitionFollows, `RedefinedInv` keeps the list of a macro's definitions
  (`Recorded`, `Latest`) and says of every two that follow each other that all users of the first
  follow in front of the second, or the call that sees to it is still in `todo` (`AllSettled`).
  The users of a moment are found because each recorded use has its edge, unless the opposite
  edge took its place (`Directed`), so that `FollowUsersOf` reaches them all (`FollowReaches`). No
  user is added later: callbacks use only the latest definition (`CurrentUses`), and the uses put
  off to finalize were made at once as well, or are of copies (`LateCallsUsed`, `LateUsed`,
  `ExtraUsed`). And what follows once follows for good: pieces and uses only grow, so
  pieces with an edge between them keep one, or merge. Six theorems.
* **ExtractProofs**: the inductive invariant has a part for each phase. Search: everything
  reached is in the closure, and everything reached from a finished target is closed under
  edges up to the frontier. Sort: the gray vertices are a path, and every finished vertex has
  its successors before it; hence a back edge closes a real cycle, and in the second sort,
  where all edges inside components are gone, the cycle can only be a loop. Printing: a
  vertex of `sorted` that was looked at left its lines, in the order of `sorted`. Seven
  theorems.
* **FileTableProofs**: the table is a bijection between paths and indices, and indices never
  change. TopLevelHeadersLead assumes `NoUserCodeInSystemHeaders` (a condition on what the files
  include; the run file_confusion shows what happens otherwise), so that inclusions do not mix
  (`NoMixing`): user files and system headers then
  stay in lists of their own, so that the slot that is overwritten is the header's own, and `Top`,
  a recursion up the #include's, has one solution that a new inclusion extends (`Climbing`).
  Three theorems.
* **StoreProofs**: exclusion on entries, whole archives and names only of archives that exist
  unless the disk fails, no update lost, no lock left without SIGKILL, and that what is
  archived is found. The invariant says what each place in the program has already done: a
  temporary file is whole from "rename" on, an archive exists from "open" on, a symbol no
  longer in `left` is in the table, and an entry is locked exactly by a job that is at
  "insert" (or was killed there). For ArchivedIsFound it also says that a job renames once:
  an archive that an extractor saw and that was replaced cannot come back, so that a symbol
  that was looked for in vain is not there in the end. The refinement DirectoryIsACatalog uses
  the same invariant: a step of Store is one of Catalog because the archive renamed is the whole
  output of that compile, and because a compile that leaves `left` empty noted everything.
  Eight theorems.
* **LinkProofs**, for any collections and any order of their parts. The inductive invariant
  `IInv` says how far the loops are (`Progress`, `Looping`), that no path is twice in a table
  (`Filed`), that the map of files leads to the same paths (`Mapped`) and that files of earlier
  collections keep theirs (`Registered`), that vertices do not overlap (`Graph`), and where
  tables point (`Located`). LinkTypeOK follows. NoDependencyIsLost adds that the result's vertices never go away, so that
  what stands in a place once stands there for good. DeclarationsLeadToDefinition adds that the
  first definition stays (`Firsts`), that every place of every collection is in the set of its
  symbol though sets have no order (`AllNoted`: an insertion only leaves out what is there
  already, since two different places always compare as less one way), and what `resolve_references` has
  done (`Resolved`). AgreeingAddUp counts on the other end: if nothing of one collection overlaps
  another's, `Find` returns the vertex itself, so the result has the vertices of the collections
  done so far and for each of their edges that edge or its opposite. AskedFound is about `Lookup`:
  what a place or symbol resolves to does not change while the lookup runs, so a target that is
  found stays the right one. Five theorems.
* **FlattenProofs**, for any width, file size and number of inclusions: if the sum fits, `Bands`
  has for a piece exactly its lower bands, seeking modulo the size finds its beginning, and so
  code is printed as it was compiled, if the file was not edited up to its end and, for a piece of
  a later band, has the size it had. Then for any files: `Flat` and `Expansion`, recursive
  functions on the lines of a text and on the files that are not being expanded, exist and give
  texts. This is an induction over numbers made from the well-foundedness of `<` (`FromZero`), over
  the length of a text and over how many files can still be expanded, which are fewer in every
  inner call (`Deeper`). The inductive invariant `FlattenInv` says of the innermost call that its
  text is the file's up to some line and the expansion from there on (`Lined`), the #include's
  it has passed before that line being ones that stay; of every other call the same, from behind
  the line for whose text it waits (`Pending`); and that files whose expansion has ended include
  only one another and those being expanded, all at places that their texts have (`Explored`).
  FlattenIsExpansion is the first when nothing is left to do. GivesUpBeyondTheText needs the last:
  at the end the files visited are closed under inclusion, so every file that takes part is among
  them. Three theorems.

Only model-checked: liveness (Terminates, EveryProcessEnds), which depends on fairness and is
beyond the prover. The four properties that the code violates are TLC's as well.

## Not modelled, and why

Text of tokens and formatting of output; which AST node makes which use (case analysis over
clang's types with no state); built-in macros, arguments of macros, #elif, and #if with other
conditions than `defined`; options that only choose
output files; `--clear-inc`, which compares names of macros with a header's list of them;
`line_number_to_offset`; drawings (`--graphviz`). In Store every source that is not refused has its
archive below `.carbon`. In
Flatten an #include is the whole of its line, as the code takes it to be, and a second inclusion of
a header has the #include's of the first or none. Boost, clang and the file system are
external and modelled by how the code uses them: `mkstemp` names are unique, `rename` is
atomic, the maps in shared memory lock their groups.

## Plan

1. *(done)* DepGraph, CodeLoop, Collector, Extract with their runs and proofs; Plugin,
   FileTable, Store.
2. *(done)* Link, Lookup, Flatten, Offsets, Catalog; proofs about Link and Offsets and the
   refinement of Catalog by Store.
3. *(done)* Proofs of AgreeingCollectionsAddUp and AskedIsFound from LinkProofs' invariant.
4. *(done)* The plugin calls the collector only as it may be called (PluginIsACaller), its types,
   header guards and the order of text; the top-level headers of the file table; whole
   conditionals; redefinitions.
5. *(done)* Both properties of Flatten.
6. *(done)* CodeIsTheLoop: the loop of `code` as a recursive function, proved equal to its closed
   form.
