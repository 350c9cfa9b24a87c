-------------------------------- MODULE Store --------------------------------
(***************************************************************************)
(* The directory .carbon of a build tree: the archives and the table of    *)
(* symbols (.cc, a file all processes map) that concurrent compiles write, *)
(* collector::write_carbon_output, and that carbon-extract reads while it  *)
(* goes through its arguments and then the archives it chose.  Compiles    *)
(* are interrupted, killed, and meet a full disk.                          *)
(***************************************************************************)
EXTENDS Integers, Sequences, FiniteSets

CONSTANTS Jobs,       \* compiles, each by a process of its own
          Extractors, \* runs of carbon-extract
          Sources,    \* source files: numbers, in the order of their paths
          Beyond,     \* those whose path relative to the root has "/.." in it
          Symbols,    \* global symbols
          Units,      \* what may be compiled: a source and the symbols it then defines
          Requests,   \* arguments of carbon-extract
          Faults,     \* what may happen: "kill" (SIGKILL), "disk" (it gets full)
          None        \* no file, no process

ASSUME StoreAssumption ==
  /\ Sources \subseteq Nat \ {0} /\ IsFiniteSet(Sources) /\ Beyond \subseteq Sources
  /\ Units \subseteq [src : Sources, syms : SUBSET Symbols]
  /\ {None, "part"} \cap Jobs = {} /\ None # "part" /\ None \notin Symbols /\ Sources \cap Symbols = {}
  /\ \A r \in Requests : /\ r.from \subseteq Sources /\ {r.all, r.link} \subseteq BOOLEAN
                         /\ r.code \in Seq(Symbols \cup Sources)

VARIABLES disk,    \* "good", or "bad" once writing may fail
          unit,    \* what every job compiles
          pc, left, \* where a job is, and the symbols it has still to note
          temp,    \* temporary files: a job that wrote all of it, or "part"
          archive, \* archive[f]: the .carbon of source f, as a temporary file
          made,    \* .cc was made
          strm,    \* cc_syms_t::strm: the sources whose archives are noted for a symbol
          owner,   \* the job that holds the entry of a symbol for exclusive access
          req,     \* what every extractor was asked for
          at, rest, \* where it is, and the arguments it still has to look at
          psyms,   \* the table was there when it opened it
          cfl,     \* the files it is to read
          shared,  \* the symbol whose entry it holds for shared access
          found,   \* the symbols it said it found
          warned,  \* the symbols it said have multiple definitions
          got,     \* the jobs whose archives it read
          seen     \* history: the archives when it began

compiler == <<unit, pc, left, temp, archive, made, strm, owner>>
extractor == <<req, at, rest, psyms, cfl, shared, found, warned, got, seen>>
vars == <<disk, compiler, extractor>>

-----------------------------------------------------------------------------
(* write_carbon_output                                                     *)

\* Mutant: temporary files are named for their source.
NamedForSource(j) == CHOOSE i \in Jobs : unit[i].src = unit[j].src

\* mkstemp gives every process a name of its own.
TempOf(j) == j

GoesTo(j, place) == pc' = [pc EXCEPT ![j] = place]

\* The early return, to a process that ends and has written nothing.
NoRelativePath(j) ==
  /\ pc[j] = "compile" /\ unit[j].src \in Beyond /\ GoesTo(j, "dead")
  /\ UNCHANGED <<unit, left, temp, archive, made, strm, owner>>

\* Mutant: the archive of the last compile is removed first.
UnlinkFirst(j) ==
  /\ pc[j] = "compile" /\ unit[j].src \notin Beyond /\ GoesTo(j, "write")
  /\ temp' = [temp EXCEPT ![TempOf(j)] = "part"]
  /\ archive' = [archive EXCEPT ![unit[j].src] = None]
  /\ UNCHANGED <<unit, left, made, strm, owner>>

MakeTemp(j) ==
  /\ pc[j] = "compile" /\ unit[j].src \notin Beyond /\ GoesTo(j, "write")
  /\ temp' = [temp EXCEPT ![TempOf(j)] = "part"]
  /\ UNCHANGED <<unit, left, archive, made, strm, owner>>

WriteArchive(j) ==
  /\ pc[j] = "write" /\ GoesTo(j, "rename")
  /\ temp' = [temp EXCEPT ![TempOf(j)] = j]
  /\ UNCHANGED <<unit, left, archive, made, strm, owner>>

\* Boost throws when a buffer cannot be written, but not for the last one: the stream
\* is not looked at when it is closed.
WriteFails(j) ==
  /\ disk = "bad" /\ pc[j] = "write"
  /\ GoesTo(j, "rename") \/ GoesTo(j, "dead")
  /\ UNCHANGED <<unit, left, temp, archive, made, strm, owner>>

Rename(j) ==
  /\ pc[j] = "rename" /\ GoesTo(j, "open")
  /\ archive' = [archive EXCEPT ![unit[j].src] = temp[TempOf(j)]]
  /\ temp' = [temp EXCEPT ![TempOf(j)] = None]
  /\ UNCHANGED <<unit, left, made, strm, owner>>

\* It is said, and nothing else is done about it.
RenameFails(j) ==
  /\ disk = "bad" /\ pc[j] = "rename" /\ GoesTo(j, "open")
  /\ UNCHANGED <<unit, left, temp, archive, made, strm, owner>>

\* open_or_create
OpenTable(j) ==
  /\ pc[j] = "open" /\ GoesTo(j, "defs")
  /\ made' = TRUE
  /\ UNCHANGED <<unit, left, temp, archive, strm, owner>>

\* something_def, for a symbol that has no entry.
Emplace(j, s) ==
  /\ pc[j] = "defs" /\ s \in left[j] /\ strm[s] = {}
  /\ strm' = [strm EXCEPT ![s] = {unit[j].src}]
  /\ left' = [left EXCEPT ![j] = @ \ {s}]
  /\ UNCHANGED <<unit, pc, temp, archive, made, owner>>

\* Mutant: a symbol that is noted already is left as it is.
SkipNoted(j, s) ==
  /\ pc[j] = "defs" /\ s \in left[j] /\ strm[s] # {}
  /\ left' = [left EXCEPT ![j] = @ \ {s}]
  /\ UNCHANGED <<unit, pc, temp, archive, made, strm, owner>>

\* Mutant: nobody waits for readers.
VisitNow(j, s) ==
  /\ pc[j] = "defs" /\ s \in left[j] /\ strm[s] # {} /\ owner[s] = None
  /\ owner' = [owner EXCEPT ![s] = j] /\ GoesTo(j, "insert")
  /\ UNCHANGED <<unit, left, temp, archive, made, strm>>

\* something_def, for one that has: the lock of its group in the map and the mutex of
\* the entry are taken, and given back, together.
Visit(j, s) ==
  /\ pc[j] = "defs" /\ s \in left[j] /\ strm[s] # {}
  /\ owner[s] = None /\ \A x \in Extractors : shared[x] # s
  /\ owner' = [owner EXCEPT ![s] = j] /\ GoesTo(j, "insert")
  /\ UNCHANGED <<unit, left, temp, archive, made, strm>>

\* Mutant: the lock is kept.
InsertedLocked(j, s) ==
  /\ pc[j] = "insert" /\ owner[s] = j
  /\ strm' = [strm EXCEPT ![s] = @ \cup {unit[j].src}]
  /\ left' = [left EXCEPT ![j] = @ \ {s}]
  /\ GoesTo(j, "defs")
  /\ UNCHANGED <<unit, temp, archive, made, owner>>

Inserted(j, s) ==
  /\ pc[j] = "insert" /\ owner[s] = j
  /\ strm' = [strm EXCEPT ![s] = @ \cup {unit[j].src}]
  /\ left' = [left EXCEPT ![j] = @ \ {s}]
  /\ owner' = [owner EXCEPT ![s] = None] /\ GoesTo(j, "defs")
  /\ UNCHANGED <<unit, temp, archive, made>>

Written(j) ==
  /\ pc[j] = "defs" /\ left[j] = {} /\ GoesTo(j, "end")
  /\ UNCHANGED <<unit, left, temp, archive, made, strm, owner>>

\* Mutant: write_carbon_output runs with signals on.
NotBlocked(j) == FALSE

\* block_signals
Blocked(j) == pc[j] # "compile"

Interrupted(j) ==
  /\ pc[j] \notin {"end", "dead"} /\ ~Blocked(j) /\ GoesTo(j, "dead")
  /\ UNCHANGED <<unit, left, temp, archive, made, strm, owner>>

\* A full table or a full disk below it end the process just like SIGKILL does.
Killed(j) ==
  /\ "kill" \in Faults /\ pc[j] \notin {"end", "dead"} /\ GoesTo(j, "dead")
  /\ UNCHANGED <<unit, left, temp, archive, made, strm, owner>>

Compile(j) ==
  /\ \/ NoRelativePath(j) \/ MakeTemp(j) \/ WriteArchive(j) \/ WriteFails(j) \/ Rename(j) \/ RenameFails(j)
     \/ OpenTable(j) \/ Written(j)
     \/ \E s \in Symbols : Emplace(j, s) \/ Visit(j, s) \/ Inserted(j, s)
  /\ UNCHANGED <<disk, extractor>>

Dies(j) == (Interrupted(j) \/ Killed(j)) /\ UNCHANGED <<disk, extractor>>

\* The disk gets full, or read-only.
DiskFails == /\ "disk" \in Faults /\ disk = "good" /\ disk' = "bad"
             /\ UNCHANGED <<compiler, extractor>>

-----------------------------------------------------------------------------
(* carbon-extract                                                          *)

\* A file of the directory: its source, 0 for the table, and the job if it is temporary.
Table == <<0, None>>
ArchiveOf(f) == <<f, None>>
TempIn(j) == <<unit[j].src, j>>

IsWhole(content) == content \in Jobs
Defines(content, s) == IsWhole(content) /\ s \in unit[content].syms

\* .carbon is made together with the first temporary file.
DirectoryExists == (\E j \in Jobs : temp[j] # None) \/ (\E f \in Sources : archive[f] # None)

AllFiles == {ArchiveOf(f) : f \in {h \in Sources : archive[h] # None}}
              \cup {TempIn(j) : j \in {i \in Jobs : temp[TempOf(i)] # None}}
              \cup (IF made THEN {Table} ELSE {})

Moves(x, place) == at' = [at EXCEPT ![x] = place]

\* The options; then the table is opened.
BeginExtract(x) ==
  LET r == req[x]
  IN /\ at[x] = "start"
     /\ seen' = [seen EXCEPT ![x] = archive]
     /\ psyms' = [psyms EXCEPT ![x] = made]
     /\ cfl' = [cfl EXCEPT ![x] = IF r.all THEN AllFiles ELSE {ArchiveOf(f) : f \in r.from}]
     /\ Moves(x, IF ~DirectoryExists \/ (~r.all /\ \E f \in r.from : archive[f] = None) THEN "exit"
                 ELSE IF ~r.all /\ ~r.link /\ Cardinality(r.from) > 1 THEN "abort" ELSE "args")
     /\ UNCHANGED <<req, rest, shared, found, warned, got>>

\* In the order of paths; those of temporary files are random.
FirstOf(files) ==
  {p \in files : \A h \in files : p[1] < h[1] \/ (p[1] = h[1] /\ (h[2] = None => p = h))}

\* All files but the first are erased from the set unless they are to be linked.
Choose(x, files, s) ==
  LET many == ~req[x].link /\ Cardinality(files) > 1
  IN /\ IF many THEN \E p \in FirstOf(files) : cfl' = [cfl EXCEPT ![x] = {p}]
        ELSE cfl' = [cfl EXCEPT ![x] = files]
     /\ warned' = [warned EXCEPT ![x] = IF many THEN @ \cup {s} ELSE @]
     /\ rest' = [rest EXCEPT ![x] = Tail(@)]

Asks(x, args) == at[x] = "args" /\ rest[x] # <<>> /\ Head(rest[x]) \in args

Lookup(x) ==
  LET s == Head(rest[x])
  IN /\ Asks(x, Symbols) /\ psyms[x] /\ strm[s] # {} /\ owner[s] = None
     /\ shared' = [shared EXCEPT ![x] = s] /\ Moves(x, "visit")
     /\ UNCHANGED <<req, rest, psyms, cfl, found, warned, got, seen>>

\* The set of archives is ordered by the addresses of their names in the table.
Found(x) ==
  LET s == shared[x]
  IN /\ at[x] = "visit" /\ Moves(x, "args")
     /\ \E f \in strm[s] : Choose(x, cfl[x] \cup {ArchiveOf(f)}, s)
     /\ found' = [found EXCEPT ![x] = @ \cup {s}]
     /\ shared' = [shared EXCEPT ![x] = None]
     /\ UNCHANGED <<req, psyms, got, seen>>

\* Mutant: where there is a table, what is not in it does not exist.
ScanWithoutTable(x) ==
  LET s == Head(rest[x])
      in == {f \in Sources : Defines(archive[f], s)}
  IN /\ Asks(x, Symbols) /\ ~(psyms[x] /\ strm[s] # {})
     /\ IF in # {} /\ ~psyms[x]
        THEN /\ \E f \in in : Choose(x, cfl[x] \cup {ArchiveOf(f)}, s)
             /\ found' = [found EXCEPT ![x] = @ \cup {s}]
        ELSE Choose(x, cfl[x], s) /\ UNCHANGED found
     /\ UNCHANGED <<req, at, psyms, shared, got, seen>>

\* Any archive that defines the symbol may come first in the directory; what cannot
\* be read is passed over.
Scan(x) ==
  LET s == Head(rest[x])
      in == {f \in Sources : Defines(archive[f], s)}
  IN /\ Asks(x, Symbols) /\ ~(psyms[x] /\ strm[s] # {})
     /\ IF in # {}
        THEN /\ \E f \in in : Choose(x, cfl[x] \cup {ArchiveOf(f)}, s)
             /\ found' = [found EXCEPT ![x] = @ \cup {s}]
        ELSE Choose(x, cfl[x], s) /\ UNCHANGED found
     /\ UNCHANGED <<req, at, psyms, shared, got, seen>>

\* A line or an offset in a source file.
Location(x) ==
  LET f == Head(rest[x])
      files == cfl[x] \cup {ArchiveOf(f)}
  IN /\ Asks(x, Sources)
     /\ cfl' = [cfl EXCEPT ![x] = files]
     /\ rest' = [rest EXCEPT ![x] = Tail(@)]
     /\ Moves(x, IF archive[f] = None THEN "exit"
                 ELSE IF ~req[x].link /\ Cardinality(files) > 1 THEN "abort" ELSE "args")
     /\ UNCHANGED <<req, psyms, shared, found, warned, got, seen>>

\* main, and link
ArgumentsDone(x) ==
  /\ at[x] = "args" /\ rest[x] = <<>>
  /\ Moves(x, IF ~req[x].link /\ Cardinality(cfl[x]) # 1 THEN "abort" ELSE "read")
  /\ UNCHANGED <<req, rest, psyms, cfl, shared, found, warned, got, seen>>

\* What the file at that path holds now.
ContentOf(file) == CASE file = Table -> None
                     [] file # Table /\ file[2] = None -> archive[file[1]]
                     [] OTHER -> temp[file[2]]

\* Nothing catches what read_collection_file throws.
ReadCollection(x) ==
  /\ at[x] = "read"
  /\ \E file \in FirstOf(cfl[x]) :
       IF IsWhole(ContentOf(file))
       THEN /\ got' = [got EXCEPT ![x] = @ \cup {ContentOf(file)}]
            /\ cfl' = [cfl EXCEPT ![x] = @ \ {file}] /\ UNCHANGED at
       ELSE Moves(x, "abort") /\ UNCHANGED <<got, cfl>>
  /\ UNCHANGED <<req, rest, psyms, shared, found, warned, seen>>

ReadingDone(x) ==
  /\ at[x] = "read" /\ cfl[x] = {} /\ Moves(x, "done")
  /\ UNCHANGED <<req, rest, psyms, cfl, shared, found, warned, got, seen>>

Extract(x) ==
  /\ \/ BeginExtract(x) \/ Lookup(x) \/ Found(x) \/ Scan(x) \/ Location(x)
     \/ ArgumentsDone(x) \/ ReadCollection(x) \/ ReadingDone(x)
  /\ UNCHANGED <<disk, compiler>>

-----------------------------------------------------------------------------
Init ==
  /\ disk = "good"
  /\ unit \in [Jobs -> Units] /\ pc = [j \in Jobs |-> "compile"]
  /\ left = [j \in Jobs |-> unit[j].syms]
  /\ temp = [j \in Jobs |-> None] /\ archive = [f \in Sources |-> None]
  /\ made = FALSE /\ strm = [s \in Symbols |-> {}] /\ owner = [s \in Symbols |-> None]
  /\ req \in [Extractors -> Requests] /\ at = [x \in Extractors |-> "start"]
  /\ rest = [x \in Extractors |-> req[x].code]
  /\ psyms = [x \in Extractors |-> FALSE] /\ shared = [x \in Extractors |-> None]
  /\ cfl = [x \in Extractors |-> {}] /\ found = cfl /\ warned = cfl /\ got = cfl
  /\ seen = [x \in Extractors |-> archive]

Next == DiskFails \/ (\E j \in Jobs : Compile(j) \/ Dies(j)) \/ (\E x \in Extractors : Extract(x))

Spec == Init /\ [][Next]_vars

\* The system runs every process, and none of them waits for an unbounded number of
\* others.
FairSpec == /\ Spec
            /\ \A j \in Jobs : WF_vars(Compile(j))
            /\ \A x \in Extractors : WF_vars(Extract(x))

-----------------------------------------------------------------------------
(* Properties                                                              *)

\* Every entry that is locked is locked by one compile that is changing it, and every
\* extractor that holds one will look at a set that is not empty (the assertion at
\* carbon_extract.cpp:526).
StoreTypeOK ==
  /\ \A s \in Symbols : owner[s] \in Jobs => s \in left[owner[s]] /\ strm[s] # {}
  /\ \A s, u \in Symbols : owner[s] = owner[u] /\ s # u => owner[s] = None
  /\ \A x \in Extractors : IF at[x] = "visit" THEN shared[x] \in Symbols /\ strm[shared[x]] # {}
                           ELSE shared[x] = None

\* Unless the disk fails, the .carbon of a source is at any time what one compile wrote,
\* from beginning to end, whoever else compiles it and whoever is killed: "atomically
\* write .carbon via rename(2)" (collect.cpp:1201).
WholeArchives == disk = "good" => \A f \in Sources : archive[f] # None => IsWhole(archive[f])

\* The table names no archive before there is one.
NamedArchivesExist ==
  disk = "good" => \A s \in Symbols : \A f \in strm[s] : archive[f] # None

\* No extractor walks the set of a symbol that a compile inserts into.
ReadersAndWriters == \A x \in Extractors : at[x] = "visit" => owner[shared[x]] = None

\* No compile that has ended leaves an entry locked: signals do not end it there.
LocksAreReleased == \A s \in Symbols : owner[s] # None => pc[owner[s]] = "insert"

\* What any compile that came to its end defines is noted for its source, however many
\* others note the same symbols at the same time.
NothingForgotten ==
  \A j \in Jobs : pc[j] = "end" => \A s \in unit[j].syms : unit[j].src \in strm[s]

\* A symbol that an archive defined all the time is found, whether its compile got to
\* the table or died before: what the table does not have is looked for in the archives.
ArchivedIsFound ==
  \A x \in Extractors : at[x] = "done" =>
    \A i \in DOMAIN req[x].code : \A f \in Sources :
      LET s == req[x].code[i]
      IN s \in Symbols /\ archive[f] = seen[x][f] /\ Defines(archive[f], s) => s \in found[x]

\* All processes end: none waits for an entry for ever.
EveryProcessEnds ==
  /\ \A j \in Jobs : <>(pc[j] \in {"end", "dead"})
  /\ \A x \in Extractors : <>(at[x] \in {"done", "exit", "abort"})

-----------------------------------------------------------------------------
(* What all this is for: to its readers the directory is a Catalog.         *)

Stage(place) == CASE place \in {"compile", "write", "rename"} -> "compiling"
                  [] place \in {"open", "defs", "insert"} -> "noting"
                  [] place = "end" -> "complete"
                  [] OTHER -> "stopped"

Directory == INSTANCE Catalog WITH stage <- [j \in Jobs |-> Stage(pc[j])], noted <- strm

\* Each step of a compile publishes its archive, notes one symbol, or shows its readers
\* nothing (collect.cpp:1196-1283): temporary files, locks and the steps of an insertion
\* are not to be seen from outside, and no compile ends as complete that is not.
ImplementsCatalog == Directory!Spec

=============================================================================
