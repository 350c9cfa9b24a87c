----------------------------- MODULE StoreProofs -----------------------------
(***************************************************************************)
(* The archives and the table of symbols stay consistent for any number of *)
(* compiles, extractors, sources and symbols.                              *)
(***************************************************************************)
EXTENDS Store, TLAPS

Places == {"compile", "write", "rename", "open", "defs", "insert", "end", "dead"}
Stages == {"start", "args", "visit", "read", "done", "exit", "abort"}
Contents == Jobs \cup {None, "part"}

CompilerTypes ==
  /\ unit \in [Jobs -> Units] /\ pc \in [Jobs -> Places] /\ left \in [Jobs -> SUBSET Symbols]
  /\ temp \in [Jobs -> Contents] /\ archive \in [Sources -> Contents]
  /\ strm \in [Symbols -> SUBSET Sources] /\ owner \in [Symbols -> Jobs \cup {None}]

ExtractorTypes ==
  /\ req \in [Extractors -> Requests] /\ at \in [Extractors -> Stages]
  /\ rest \in [Extractors -> Seq(Symbols \cup Sources)]
  /\ shared \in [Extractors -> Symbols \cup {None}]
  /\ found \in [Extractors -> SUBSET Symbols] /\ seen \in [Extractors -> [Sources -> Contents]]

\* An entry is locked exactly by a job that is about to insert into it, or was killed then.
Locks ==
  /\ \A s \in Symbols : owner[s] \in Jobs =>
       /\ s \in left[owner[s]] /\ strm[s] # {}
       /\ pc[owner[s]] = "insert" \/ ("kill" \in Faults /\ pc[owner[s]] = "dead")
  /\ \A s, u \in Symbols : owner[s] = owner[u] /\ s # u => owner[s] = None

Readers ==
  \A x \in Extractors :
    IF at[x] = "visit" THEN shared[x] \in Symbols /\ strm[shared[x]] # {} /\ owner[shared[x]] = None
    ELSE shared[x] = None

\* What a job wrote, while nothing fails: its temporary file is whole when it is renamed,
\* and its source has an archive from then on, before the table names it.
Archives ==
  disk = "good" =>
    /\ \A f \in Sources : archive[f] \in Jobs \cup {None}
    /\ \A j \in Jobs : /\ pc[j] = "rename" => temp[j] = j
                       /\ pc[j] \in {"open", "defs", "insert", "end"} =>
                            archive[unit[j].src] \in Jobs
    /\ \A s \in Symbols : \A f \in strm[s] : archive[f] \in Jobs

\* What a job has noted, it has noted for ever.
Noted ==
  /\ \A j \in Jobs : \A s \in unit[j].syms : s \in left[j] \/ unit[j].src \in strm[s]
  /\ \A j \in Jobs : pc[j] = "end" => left[j] = {}

\* No archive that was there, or that an extractor once saw, will be put there again.
Renamed(j) == pc[j] \notin {"compile", "write", "rename"}
OnlyOnce ==
  /\ \A j \in Jobs : temp[j] \in {j, None, "part"}
  /\ \A f \in Sources : archive[f] \in Jobs => Renamed(archive[f])
  /\ \A x \in Extractors : \A f \in Sources : seen[x][f] \in Jobs => Renamed(seen[x][f])

\* Every argument is still to be looked at, or is settled: found, if it was there.
Settled(x, s) == \A f \in Sources : archive[f] = seen[x][f] /\ Defines(archive[f], s) => s \in found[x]
Elements(q) == {q[k] : k \in DOMAIN q}
Accounted(x) == \A s \in Elements(req[x].code) \cap Symbols : s \in Elements(rest[x]) \/ Settled(x, s)
Arguments ==
  \A x \in Extractors :
    /\ at[x] = "start" => rest[x] = req[x].code
    /\ at[x] = "visit" => rest[x] # <<>> /\ shared[x] = Head(rest[x])
    /\ at[x] \in {"read", "done"} => rest[x] = <<>>
    /\ Accounted(x)

Inv == CompilerTypes /\ ExtractorTypes /\ Locks /\ Readers /\ Archives /\ Noted /\ OnlyOnce /\ Arguments

-----------------------------------------------------------------------------
LEMMA UnitTypes ==
  ASSUME CompilerTypes, NEW j \in Jobs
  PROVE  unit[j].src \in Sources /\ unit[j].syms \subseteq Symbols
<1>1. unit[j] \in Units
  BY DEF CompilerTypes
<1> QED BY <1>1, StoreAssumption

LEMMA HeadAndTail ==
  ASSUME NEW S, NEW q \in Seq(S), q # <<>>
  PROVE  /\ Head(q) \in S /\ Tail(q) \in Seq(S)
         /\ Elements(q) \subseteq {Head(q)} \cup Elements(Tail(q))
<1>1. /\ Head(q) = q[1] /\ Head(q) \in S /\ Tail(q) \in Seq(S) /\ Len(q) \in Nat /\ Len(q) > 0
      /\ DOMAIN q = 1 .. Len(q) /\ DOMAIN Tail(q) = 1 .. Len(q) - 1
      /\ \A k \in 1 .. Len(q) - 1 : Tail(q)[k] = q[k + 1]
  OBVIOUS
<1>2. ASSUME NEW k \in DOMAIN q PROVE q[k] \in {Head(q)} \cup Elements(Tail(q))
  <2>1. CASE k = 1
    BY <2>1, <1>1
  <2>2. CASE k # 1
    <3>1. k - 1 \in DOMAIN Tail(q) /\ Tail(q)[k - 1] = q[k]
      BY <2>2, <1>1
    <3> QED BY <3>1 DEF Elements
  <2> QED BY <2>1, <2>2
<1> QED BY <1>1, <1>2 DEF Elements

\* A step of a compile that neither touches the table nor ends it moves it on.
Proceeds(j) ==
  MakeTemp(j) \/ WriteArchive(j) \/ WriteFails(j) \/ Rename(j) \/ RenameFails(j)
    \/ OpenTable(j) \/ Written(j) \/ Interrupted(j) \/ Killed(j) \/ NoRelativePath(j)

Frame == UNCHANGED <<disk, extractor>>

\* What the invariant needs to know of such a step as far as the table is concerned.
LEMMA ProceedsLeavesTable ==
  ASSUME CompilerTypes, NEW j \in Jobs, Proceeds(j)
  PROVE  /\ UNCHANGED <<unit, left, strm, owner>>
         /\ \E p \in Places :
              /\ pc' = [pc EXCEPT ![j] = p]
              /\ p # "insert" /\ (p = "end" => left[j] = {})
              /\ pc[j] = "insert" => p = "dead" /\ "kill" \in Faults
              /\ pc[j] \notin {"end", "dead"}
              /\ p \in {"write", "rename"} => ~Renamed(j)
<1> USE DEF Places, GoesTo, Blocked, Renamed
<1>1. CASE MakeTemp(j)
  BY <1>1 DEF MakeTemp
<1>2. CASE WriteArchive(j)
  BY <1>2 DEF WriteArchive
<1>3. CASE WriteFails(j)
  BY <1>3 DEF WriteFails
<1>4. CASE Rename(j)
  BY <1>4 DEF Rename
<1>5. CASE RenameFails(j)
  BY <1>5 DEF RenameFails
<1>6. CASE OpenTable(j)
  BY <1>6 DEF OpenTable
<1>7. CASE Written(j)
  BY <1>7 DEF Written
<1>8. CASE Interrupted(j)
  BY <1>8 DEF Interrupted
<1>9. CASE Killed(j)
  BY <1>9 DEF Killed
<1>10. CASE NoRelativePath(j)
  BY <1>10 DEF NoRelativePath
<1> QED BY <1>1, <1>2, <1>3, <1>4, <1>5, <1>6, <1>7, <1>8, <1>9, <1>10 DEF Proceeds

\* The steps of the system.
LEMMA Steps ==
  ASSUME [Next]_vars
  PROVE  \/ UNCHANGED compiler /\ UNCHANGED extractor /\ (disk' = disk \/ disk' = "bad")
         \/ \E j \in Jobs : Proceeds(j) /\ Frame
         \/ \E j \in Jobs, s \in Symbols : (Emplace(j, s) \/ Visit(j, s) \/ Inserted(j, s)) /\ Frame
         \/ \E x \in Extractors : Extract(x)
<1>1. CASE DiskFails
  BY <1>1 DEF DiskFails
<1>2. ASSUME NEW j \in Jobs, Compile(j) \/ Dies(j)
      PROVE  \/ Proceeds(j) /\ Frame
             \/ \E s \in Symbols : (Emplace(j, s) \/ Visit(j, s) \/ Inserted(j, s)) /\ Frame
  BY <1>2 DEF Compile, Dies, Proceeds, Frame
<1>3. CASE UNCHANGED vars
  BY <1>3 DEF vars
<1> QED BY <1>1, <1>2, <1>3 DEF Next

-----------------------------------------------------------------------------
(* Compiles.                                                               *)

LEMMA ProceedsKeepsTypes ==
  ASSUME CompilerTypes, NEW j \in Jobs, Proceeds(j)
  PROVE  CompilerTypes'
<1>1. /\ UNCHANGED <<unit, left, strm, owner>>
      /\ \E p \in Places : pc' = [pc EXCEPT ![j] = p]
  BY ProceedsLeavesTable
<1>2. /\ temp' \in [Jobs -> Contents] /\ archive' \in [Sources -> Contents]
  <2>1. CASE MakeTemp(j)
    BY <2>1 DEF MakeTemp, CompilerTypes, TempOf, Contents
  <2>2. CASE WriteArchive(j)
    BY <2>2 DEF WriteArchive, CompilerTypes, TempOf, Contents
  <2>3. CASE Rename(j)
    BY <2>3 DEF Rename, CompilerTypes, TempOf, Contents
  <2>4. CASE WriteFails(j) \/ RenameFails(j) \/ OpenTable(j) \/ Written(j)
    BY <2>4 DEF WriteFails, RenameFails, OpenTable, Written, CompilerTypes
  <2>5. CASE Interrupted(j) \/ Killed(j) \/ NoRelativePath(j)
    BY <2>5 DEF Interrupted, Killed, NoRelativePath, CompilerTypes
  <2> QED BY <2>1, <2>2, <2>3, <2>4, <2>5 DEF Proceeds
<1> QED BY <1>1, <1>2 DEF CompilerTypes

LEMMA NotingKeepsTypes ==
  ASSUME CompilerTypes, NEW j \in Jobs, NEW s \in Symbols,
         Emplace(j, s) \/ Visit(j, s) \/ Inserted(j, s)
  PROVE  CompilerTypes'
<1>0. unit[j].src \in Sources
  BY UnitTypes
<1>1. CASE Emplace(j, s)
  BY <1>0, <1>1 DEF Emplace, CompilerTypes
<1>2. CASE Visit(j, s)
  BY <1>2 DEF Visit, CompilerTypes, GoesTo, Places
<1>3. CASE Inserted(j, s)
  BY <1>0, <1>3 DEF Inserted, CompilerTypes, GoesTo, Places
<1> QED BY <1>1, <1>2, <1>3

\* Locks, and what was noted, survive a step that only moves a job on.
LEMMA ProceedsKeepsTable ==
  ASSUME CompilerTypes, Locks, Noted, NEW j \in Jobs, Proceeds(j)
  PROVE  Locks' /\ Noted'
<1>1. UNCHANGED <<unit, left, strm, owner>>
  BY ProceedsLeavesTable
<1>2. PICK p \in Places : /\ pc' = [pc EXCEPT ![j] = p]
                          /\ p = "end" => left[j] = {}
                          /\ pc[j] = "insert" => p = "dead" /\ "kill" \in Faults
                          /\ pc[j] \notin {"end", "dead"}
  BY ProceedsLeavesTable
<1>3. Locks'
  BY <1>1, <1>2 DEF Locks, CompilerTypes
<1>4. Noted'
  BY <1>1, <1>2 DEF Noted, CompilerTypes
<1> QED BY <1>3, <1>4

LEMMA NotingKeepsTable ==
  ASSUME CompilerTypes, Locks, Noted, NEW j \in Jobs, NEW s \in Symbols,
         Emplace(j, s) \/ Visit(j, s) \/ Inserted(j, s)
  PROVE  Locks' /\ Noted'
<1>1. CASE Emplace(j, s)
  <2>1. /\ pc[j] = "defs" /\ strm' = [strm EXCEPT ![s] = {unit[j].src}] /\ strm[s] = {}
        /\ left' = [left EXCEPT ![j] = left[j] \ {s}]
        /\ UNCHANGED <<unit, pc, owner>>
    BY <1>1 DEF Emplace
  <2>2. Locks'
    BY <2>1 DEF Locks, CompilerTypes
  <2>3. Noted'
    BY <2>1 DEF Noted, CompilerTypes
  <2> QED BY <2>2, <2>3
<1>2. CASE Visit(j, s)
  <2>1. /\ pc[j] = "defs" /\ s \in left[j] /\ strm[s] # {} /\ owner[s] = None
        /\ owner' = [owner EXCEPT ![s] = j] /\ pc' = [pc EXCEPT ![j] = "insert"]
        /\ UNCHANGED <<unit, left, strm>>
    BY <1>2 DEF Visit, GoesTo
  <2>2. \A u \in Symbols : owner[u] # j
    BY <2>1 DEF Locks
  <2>3. Locks'
    BY <2>1, <2>2 DEF Locks, CompilerTypes
  <2>4. Noted'
    BY <2>1 DEF Noted, CompilerTypes
  <2> QED BY <2>3, <2>4
<1>3. CASE Inserted(j, s)
  <2>1. /\ pc[j] = "insert" /\ owner[s] = j
        /\ strm' = [strm EXCEPT ![s] = strm[s] \cup {unit[j].src}]
        /\ left' = [left EXCEPT ![j] = left[j] \ {s}]
        /\ owner' = [owner EXCEPT ![s] = None] /\ pc' = [pc EXCEPT ![j] = "defs"]
        /\ UNCHANGED unit
    BY <1>3 DEF Inserted, GoesTo
  <2>2. \A u \in Symbols \ {s} : owner[u] # j
    BY <2>1, StoreAssumption DEF Locks
  <2>3. Locks'
    BY <2>1, <2>2, StoreAssumption DEF Locks, CompilerTypes
  <2>4. Noted'
    BY <2>1 DEF Noted, CompilerTypes
  <2> QED BY <2>3, <2>4
<1> QED BY <1>1, <1>2, <1>3

\* An archive is put in place before the table is opened, by a rename of what was written.
LEMMA ProceedsKeepsArchives ==
  ASSUME CompilerTypes, Archives, NEW j \in Jobs, Proceeds(j), disk' = disk
  PROVE  Archives'
<1> SUFFICES ASSUME disk = "good" PROVE Archives'
  BY DEF Archives
<1>0. /\ unit[j].src \in Sources /\ None \notin Jobs /\ \A i \in Jobs : unit[i].src \in Sources
  BY UnitTypes, StoreAssumption
<1> USE DEF GoesTo, TempOf
<1>1. CASE MakeTemp(j)
  BY <1>1 DEF MakeTemp, Archives, CompilerTypes
<1>2. CASE WriteArchive(j)
  BY <1>2 DEF WriteArchive, Archives, CompilerTypes
<1>3. CASE Rename(j)
  <2>1. /\ pc[j] = "rename" /\ temp[j] = j /\ pc' = [pc EXCEPT ![j] = "open"]
        /\ archive' = [archive EXCEPT ![unit[j].src] = j]
        /\ temp' = [temp EXCEPT ![j] = None] /\ UNCHANGED <<unit, strm>>
    BY <1>3 DEF Rename, Archives
  <2>2. \A f \in Sources : archive'[f] \in Jobs \cup {None} /\ (archive[f] \in Jobs => archive'[f] \in Jobs)
    BY <2>1 DEF Archives, CompilerTypes
  <2>3. \A i \in Jobs : pc'[i] = "rename" => temp'[i] = i
    BY <2>1 DEF Archives, CompilerTypes
  <2>4. \A i \in Jobs : pc'[i] \in {"open", "defs", "insert", "end"} => archive'[unit[i].src] \in Jobs
    BY <2>1, <2>2, <1>0 DEF Archives, CompilerTypes
  <2>5. \A s \in Symbols : \A f \in strm[s] : archive'[f] \in Jobs
    BY <2>2 DEF Archives, CompilerTypes
  <2> QED BY <2>1, <2>2, <2>3, <2>4, <2>5 DEF Archives
<1>4. CASE OpenTable(j) \/ Written(j)
  BY <1>4 DEF OpenTable, Written, Archives, CompilerTypes
<1>5. CASE Interrupted(j) \/ Killed(j) \/ NoRelativePath(j)
  BY <1>5 DEF Interrupted, Killed, NoRelativePath, Archives, CompilerTypes
<1>6. ~WriteFails(j) /\ ~RenameFails(j)
  BY DEF WriteFails, RenameFails
<1> QED BY <1>1, <1>2, <1>3, <1>4, <1>5, <1>6 DEF Proceeds

LEMMA NotingKeepsArchives ==
  ASSUME CompilerTypes, Archives, NEW j \in Jobs, NEW s \in Symbols,
         Emplace(j, s) \/ Visit(j, s) \/ Inserted(j, s), disk' = disk, Locks
  PROVE  Archives'
<1> SUFFICES ASSUME disk = "good" PROVE Archives'
  BY DEF Archives
<1>1. /\ pc[j] \in {"defs", "insert"} /\ UNCHANGED <<unit, temp, archive>>
      /\ pc' = pc \/ pc' = [pc EXCEPT ![j] = "insert"] \/ pc' = [pc EXCEPT ![j] = "defs"]
      /\ \A u \in Symbols : \A f \in strm'[u] : f \in strm[u] \/ f = unit[j].src
  BY DEF Emplace, Visit, Inserted, GoesTo, CompilerTypes
<1>2. archive[unit[j].src] \in Jobs
  BY <1>1 DEF Archives
<1> QED BY <1>1, <1>2 DEF Archives, CompilerTypes

LEMMA ProceedsKeepsOnce ==
  ASSUME CompilerTypes, ExtractorTypes, OnlyOnce, NEW j \in Jobs, Proceeds(j), Frame
  PROVE  /\ OnlyOnce'
         /\ \A f \in Sources : \A i \in Jobs : Renamed(i) /\ archive'[f] = i => archive[f] = i
<1> USE DEF Renamed
<1>0. /\ unit[j].src \in Sources /\ {None, "part"} \cap Jobs = {} /\ UNCHANGED seen
  BY UnitTypes, StoreAssumption DEF Frame, extractor
<1>1. \A i \in Jobs : Renamed(i) => Renamed(i)'
  <2>1. PICK p \in Places : pc' = [pc EXCEPT ![j] = p] /\ (p \in {"write", "rename"} => ~Renamed(j))
                              /\ (pc[j] # "compile" => p # "compile")
    <3> USE DEF GoesTo, Places, Renamed
    <3>1. CASE MakeTemp(j) \/ WriteArchive(j) \/ WriteFails(j) \/ Rename(j)
      BY <3>1 DEF MakeTemp, WriteArchive, WriteFails, Rename
    <3>2. CASE RenameFails(j) \/ OpenTable(j) \/ Written(j)
      BY <3>2 DEF RenameFails, OpenTable, Written
    <3>3. CASE Interrupted(j) \/ Killed(j) \/ NoRelativePath(j)
      BY <3>3 DEF Interrupted, Killed, NoRelativePath
    <3> QED BY <3>1, <3>2, <3>3 DEF Proceeds
  <2> QED BY <2>1 DEF Renamed, CompilerTypes
<1>2. \A x \in Extractors : \A f \in Sources : (seen[x][f] \in Jobs => Renamed(seen[x][f]))'
  BY <1>0, <1>1 DEF OnlyOnce
<1>3. CASE MakeTemp(j) \/ WriteArchive(j)
  <2>1. UNCHANGED archive /\ \A i \in Jobs : temp'[i] \in {i, None, "part"}
    BY <1>3 DEF MakeTemp, WriteArchive, TempOf, OnlyOnce, CompilerTypes
  <2>2. \A f \in Sources : (archive[f] \in Jobs => Renamed(archive[f]))'
    BY <2>1, <1>1 DEF OnlyOnce
  <2> QED BY <2>1, <2>2, <1>2 DEF OnlyOnce
<1>4. CASE Rename(j)
  <2>1. /\ pc[j] = "rename" /\ archive' = [archive EXCEPT ![unit[j].src] = temp[j]]
        /\ temp' = [temp EXCEPT ![j] = None] /\ pc' = [pc EXCEPT ![j] = "open"]
    BY <1>4 DEF Rename, GoesTo, TempOf
  <2>2. temp[j] \in {j, None, "part"} /\ Renamed(j)' /\ ~Renamed(j)
    BY <2>1 DEF OnlyOnce, Renamed, CompilerTypes
  <2>3. \A f \in Sources : (archive[f] \in Jobs => Renamed(archive[f]))'
    BY <2>1, <2>2, <1>0, <1>1 DEF OnlyOnce, CompilerTypes
  <2>4. \A i \in Jobs : temp'[i] \in {i, None, "part"}
    BY <2>1 DEF OnlyOnce, CompilerTypes
  <2>5. \A f \in Sources : \A i \in Jobs : Renamed(i) /\ archive'[f] = i => archive[f] = i
    BY <2>1, <2>2, <1>0 DEF CompilerTypes
  <2> QED BY <2>3, <2>4, <2>5, <1>2 DEF OnlyOnce
<1>5. CASE ~(MakeTemp(j) \/ WriteArchive(j) \/ Rename(j))
  <2>1. UNCHANGED <<temp, archive>>
    BY <1>5 DEF Proceeds, WriteFails, RenameFails, OpenTable, Written, Interrupted, Killed, NoRelativePath
  <2>2. \A f \in Sources : (archive[f] \in Jobs => Renamed(archive[f]))'
    BY <2>1, <1>1 DEF OnlyOnce
  <2> QED BY <2>1, <2>2, <1>2 DEF OnlyOnce
<1> QED BY <1>3, <1>4, <1>5

LEMMA NotingKeepsOnce ==
  ASSUME CompilerTypes, OnlyOnce, NEW j \in Jobs, NEW s \in Symbols,
         Emplace(j, s) \/ Visit(j, s) \/ Inserted(j, s), Frame
  PROVE  OnlyOnce' /\ UNCHANGED archive
<1> USE DEF Renamed
<1>1. /\ UNCHANGED <<temp, archive, seen>> /\ pc[j] \in {"defs", "insert"}
      /\ pc' = pc \/ pc' = [pc EXCEPT ![j] = "insert"] \/ pc' = [pc EXCEPT ![j] = "defs"]
  BY DEF Emplace, Visit, Inserted, GoesTo, Frame, extractor
<1>2. \A i \in Jobs : Renamed(i) => Renamed(i)'
  BY <1>1 DEF Renamed, CompilerTypes
<1> QED BY <1>1, <1>2 DEF OnlyOnce

\* A job waits for the extractors that hold an entry.
LEMMA NotingKeepsReaders ==
  ASSUME CompilerTypes, ExtractorTypes, Readers, NEW j \in Jobs, NEW s \in Symbols,
         Emplace(j, s) \/ Visit(j, s) \/ Inserted(j, s), Frame
  PROVE  Readers'
<1>0. UNCHANGED <<at, shared>>
  BY DEF Frame, extractor
<1>1. CASE Emplace(j, s)
  BY <1>0, <1>1 DEF Emplace, Readers, CompilerTypes
<1>2. CASE Visit(j, s)
  BY <1>0, <1>2 DEF Visit, Readers, CompilerTypes
<1>3. CASE Inserted(j, s)
  BY <1>0, <1>3, StoreAssumption DEF Inserted, Readers, CompilerTypes
<1> QED BY <1>1, <1>2, <1>3

\* An archive that an extractor saw is not put there again, so what is settled stays so.
LEMMA CompilesKeepArguments ==
  ASSUME ExtractorTypes, OnlyOnce, Arguments, UNCHANGED unit, UNCHANGED extractor,
         \A f \in Sources : \A i \in Jobs : Renamed(i) /\ archive'[f] = i => archive[f] = i
  PROVE  Arguments'
<1>1. UNCHANGED <<req, at, rest, shared, found, seen>>
  BY DEF extractor
<1>2. ASSUME NEW x \in Extractors, NEW s, Settled(x, s) PROVE Settled(x, s)'
  <2> SUFFICES ASSUME NEW f \in Sources, archive'[f] = seen[x][f], archive'[f] \in Jobs,
                      s \in unit[archive'[f]].syms
               PROVE  s \in found[x]
    BY <1>1 DEF Settled, Defines, IsWhole
  <2>1. Renamed(archive'[f])
    BY DEF OnlyOnce
  <2>2. archive[f] = archive'[f]
    BY <2>1
  <2> QED BY <2>2, <1>2 DEF Settled, Defines, IsWhole
<1>3. ASSUME NEW x \in Extractors PROVE Accounted(x)'
  BY <1>1, <1>2 DEF Arguments, Accounted
<1> QED BY <1>1, <1>3 DEF Arguments

-----------------------------------------------------------------------------
(* Extractors.                                                             *)

\* The rest of the invariant speaks of one extractor at a time.
ExtractorInv(x) ==
  /\ req[x] \in Requests /\ at[x] \in Stages /\ rest[x] \in Seq(Symbols \cup Sources)
  /\ shared[x] \in Symbols \cup {None} /\ found[x] \in SUBSET Symbols
  /\ seen[x] \in [Sources -> Contents]
  /\ IF at[x] = "visit" THEN shared[x] \in Symbols /\ strm[shared[x]] # {} /\ owner[shared[x]] = None
     ELSE shared[x] = None
  /\ \A f \in Sources : seen[x][f] \in Jobs => Renamed(seen[x][f])
  /\ at[x] = "start" => rest[x] = req[x].code
  /\ at[x] = "visit" => rest[x] # <<>> /\ shared[x] = Head(rest[x])
  /\ at[x] \in {"read", "done"} => rest[x] = <<>>
  /\ Accounted(x)

\* It leaves the others, and the compiles, alone.
LEMMA TouchesOne ==
  ASSUME ExtractorTypes, NEW x \in Extractors, Extract(x)
  PROVE  /\ UNCHANGED <<disk, compiler, req>>
         /\ at' = [at EXCEPT ![x] = at'[x]] /\ rest' = [rest EXCEPT ![x] = rest'[x]]
         /\ shared' = [shared EXCEPT ![x] = shared'[x]] /\ found' = [found EXCEPT ![x] = found'[x]]
         /\ seen' = [seen EXCEPT ![x] = seen'[x]]
<1> USE DEF Moves, ExtractorTypes
<1>1. CASE BeginExtract(x)
  BY <1>1 DEF Extract, BeginExtract
<1>2. CASE Lookup(x)
  BY <1>2 DEF Extract, Lookup
<1>3. CASE Found(x)
  BY <1>3 DEF Extract, Found, Choose
<1>4. CASE Scan(x)
  BY <1>4 DEF Extract, Scan, Choose
<1>5. CASE Location(x)
  BY <1>5 DEF Extract, Location
<1>6. CASE ArgumentsDone(x) \/ ReadingDone(x)
  BY <1>6 DEF Extract, ArgumentsDone, ReadingDone
<1>7. CASE ReadCollection(x)
  BY <1>7 DEF Extract, ReadCollection
<1> QED BY <1>1, <1>2, <1>3, <1>4, <1>5, <1>6, <1>7 DEF Extract

LEMMA OneExtractor ==
  ASSUME Inv, NEW x \in Extractors, Extract(x), ExtractorInv(x)'
  PROVE  Inv'
<1>1. /\ UNCHANGED <<disk, unit, pc, left, temp, archive, strm, owner, req>>
      /\ at' = [at EXCEPT ![x] = at'[x]] /\ rest' = [rest EXCEPT ![x] = rest'[x]]
      /\ shared' = [shared EXCEPT ![x] = shared'[x]] /\ found' = [found EXCEPT ![x] = found'[x]]
      /\ seen' = [seen EXCEPT ![x] = seen'[x]]
  BY TouchesOne DEF Inv, compiler
<1>2. CompilerTypes' /\ Locks' /\ Archives' /\ Noted'
  BY <1>1 DEF Inv, CompilerTypes, Locks, Archives, Noted
<1>3. ExtractorTypes'
  BY <1>1 DEF Inv, ExtractorTypes, ExtractorInv
<1>4. Readers'
  BY <1>1 DEF Inv, Readers, ExtractorTypes, ExtractorInv
<1>5. OnlyOnce'
  BY <1>1 DEF Inv, OnlyOnce, ExtractorTypes, ExtractorInv, Renamed
<1>6. Arguments'
  <2> SUFFICES ASSUME NEW y \in Extractors
               PROVE  (/\ at[y] = "start" => rest[y] = req[y].code
                       /\ at[y] = "visit" => rest[y] # <<>> /\ shared[y] = Head(rest[y])
                       /\ at[y] \in {"read", "done"} => rest[y] = <<>>
                       /\ Accounted(y))'
    BY DEF Arguments
  <2>1. CASE y = x
    BY <2>1 DEF ExtractorInv
  <2>2. CASE y # x
    <3>1. UNCHANGED <<at[y], rest[y], shared[y], found[y], seen[y], req, archive, unit>>
      BY <1>1, <2>2 DEF Inv, ExtractorTypes
    <3>2. Accounted(y)'
      BY <3>1 DEF Inv, Arguments, Accounted, Settled, Defines
    <3> QED BY <3>1, <3>2 DEF Inv, Arguments
  <2> QED BY <2>1, <2>2
<1> QED BY <1>2, <1>3, <1>4, <1>5, <1>6 DEF Inv

LEMMA ReadInv ==
  ASSUME Inv, NEW x \in Extractors
  PROVE  ExtractorInv(x)
BY DEF Inv, ExtractorTypes, Readers, OnlyOnce, Arguments, ExtractorInv

\* Looking at an argument settles it.
LEMMA NextArgument ==
  ASSUME NEW x \in Extractors, Accounted(x), rest[x] \in Seq(Symbols \cup Sources),
         UNCHANGED <<unit, archive, req, seen>>,
         found[x] \subseteq found'[x],
         \/ rest'[x] = rest[x]
         \/ /\ rest[x] # <<>> /\ rest'[x] = Tail(rest[x])
            /\ \A s \in Symbols : s = Head(rest[x]) => Settled(x, s)'
  PROVE  Accounted(x)'
<1>1. ASSUME NEW s, Settled(x, s) PROVE Settled(x, s)'
  BY <1>1 DEF Settled, Defines
<1>2. CASE rest'[x] = rest[x]
  BY <1>1, <1>2 DEF Accounted
<1>3. CASE /\ rest[x] # <<>> /\ rest'[x] = Tail(rest[x])
           /\ \A s \in Symbols : s = Head(rest[x]) => Settled(x, s)'
  <2> SUFFICES ASSUME NEW s \in Elements(req[x].code) \cap Symbols, ~Settled(x, s)'
               PROVE  s \in Elements(rest'[x])
    BY DEF Accounted, Elements
  <2>1. s \in Elements(rest[x])
    BY <1>1 DEF Accounted
  <2>2. Elements(rest[x]) \subseteq {Head(rest[x])} \cup Elements(rest'[x])
    BY <1>3, HeadAndTail
  <2>3. s # Head(rest[x])
    BY <1>3
  <2> QED BY <2>1, <2>2, <2>3
<1> QED BY <1>2, <1>3

LEMMA ExtractKeepsInv ==
  ASSUME Inv, NEW x \in Extractors, Extract(x)
  PROVE  Inv'
<1>0. /\ CompilerTypes /\ ExtractorTypes /\ ExtractorInv(x) /\ None \notin Symbols
      /\ UNCHANGED <<disk, unit, pc, left, temp, archive, strm, owner>>
  BY ReadInv, StoreAssumption DEF Inv, Extract, compiler
<1> USE DEF Moves, Stages
<1>1. CASE BeginExtract(x)
  <2>1. /\ seen'[x] = archive /\ at'[x] \in {"exit", "abort", "args"} /\ at[x] = "start"
        /\ UNCHANGED <<req, rest, shared, found>>
    BY <1>0, <1>1 DEF BeginExtract, ExtractorTypes
  <2>2. \A f \in Sources : archive[f] \in Jobs => Renamed(archive[f])
    BY DEF Inv, OnlyOnce
  <2>3. \A f \in Sources : (seen[x][f] \in Jobs => Renamed(seen[x][f]))'
    BY <1>0, <2>1, <2>2 DEF Renamed
  <2>4. Accounted(x)'
    BY <1>0, <2>1 DEF ExtractorInv, Accounted
  <2>5. ExtractorInv(x)'
    BY <1>0, <2>1, <2>3, <2>4 DEF ExtractorInv, CompilerTypes
  <2> QED BY <2>5, OneExtractor
<1>2. CASE Lookup(x)
  <2>1. /\ at[x] = "args" /\ rest[x] # <<>> /\ Head(rest[x]) \in Symbols
        /\ strm[Head(rest[x])] # {} /\ owner[Head(rest[x])] = None
        /\ shared'[x] = Head(rest[x]) /\ at'[x] = "visit"
        /\ UNCHANGED <<req, rest, found, seen>>
    BY <1>0, <1>2 DEF Lookup, Asks, ExtractorTypes
  <2>2. Accounted(x)'
    BY <1>0, <2>1, NextArgument DEF ExtractorInv
  <2>3. ExtractorInv(x)'
    BY <1>0, <2>1, <2>2 DEF ExtractorInv, Renamed
  <2> QED BY <2>3, OneExtractor
<1>3. CASE Found(x)
  <2>1. /\ at[x] = "visit" /\ at'[x] = "args" /\ rest'[x] = Tail(rest[x]) /\ shared'[x] = None
        /\ found'[x] = found[x] \cup {shared[x]}
        /\ UNCHANGED <<req, seen>>
    BY <1>0, <1>3 DEF Found, Choose, ExtractorTypes
  <2>2. rest[x] # <<>> /\ shared[x] = Head(rest[x]) /\ shared[x] \in Symbols
    BY <1>0, <2>1 DEF ExtractorInv
  <2>3. rest'[x] \in Seq(Symbols \cup Sources)
    BY <1>0, <2>1, <2>2, HeadAndTail DEF ExtractorInv
  <2>4. Accounted(x)'
    <3>1. \A s \in Symbols : s = Head(rest[x]) => Settled(x, s)'
      BY <2>1, <2>2 DEF Settled
    <3> QED BY <1>0, <2>1, <2>2, <3>1, NextArgument DEF ExtractorInv
  <2>5. ExtractorInv(x)'
    BY <1>0, <2>1, <2>2, <2>3, <2>4 DEF ExtractorInv, Renamed
  <2> QED BY <2>5, OneExtractor
<1>4. CASE Scan(x)
  <2>1. /\ at[x] = "args" /\ rest[x] # <<>> /\ Head(rest[x]) \in Symbols
        /\ rest'[x] = Tail(rest[x]) /\ UNCHANGED <<req, at, shared, seen>>
        /\ IF \E f \in Sources : Defines(archive[f], Head(rest[x]))
           THEN found'[x] = found[x] \cup {Head(rest[x])} ELSE found' = found
    BY <1>0, <1>4 DEF Scan, Asks, Choose, ExtractorTypes
  <2>2. rest'[x] \in Seq(Symbols \cup Sources)
    BY <1>0, <2>1, HeadAndTail DEF ExtractorInv
  <2>3. Accounted(x)'
    <3>1. \A s \in Symbols : s = Head(rest[x]) => Settled(x, s)'
      BY <1>0, <2>1 DEF Settled, Defines
    <3> QED BY <1>0, <2>1, <3>1, NextArgument DEF ExtractorInv
  <2>4. ExtractorInv(x)'
    BY <1>0, <2>1, <2>2, <2>3 DEF ExtractorInv, Renamed
  <2> QED BY <2>4, OneExtractor
<1>5. CASE Location(x)
  <2>1. /\ at[x] = "args" /\ rest[x] # <<>> /\ Head(rest[x]) \notin Symbols
        /\ rest'[x] = Tail(rest[x]) /\ at'[x] \in {"exit", "abort", "args"}
        /\ UNCHANGED <<req, shared, found, seen>>
    BY <1>0, <1>5, StoreAssumption DEF Location, Asks, ExtractorTypes
  <2>2. rest'[x] \in Seq(Symbols \cup Sources)
    BY <1>0, <2>1, HeadAndTail DEF ExtractorInv
  <2>3. Accounted(x)'
    BY <1>0, <2>1, NextArgument DEF ExtractorInv
  <2>4. ExtractorInv(x)'
    BY <1>0, <2>1, <2>2, <2>3 DEF ExtractorInv, Renamed
  <2> QED BY <2>4, OneExtractor
<1>6. CASE ArgumentsDone(x) \/ ReadCollection(x) \/ ReadingDone(x)
  <2>1. /\ at[x] \in {"args", "read"} /\ at'[x] \in {"abort", "read", "done"}
        /\ at'[x] \in {"read", "done"} => rest[x] = <<>>
        /\ UNCHANGED <<req, rest, shared, found, seen>>
    BY <1>0, <1>6 DEF ArgumentsDone, ReadCollection, ReadingDone, ExtractorTypes, ExtractorInv
  <2>2. Accounted(x)'
    BY <1>0, <2>1, NextArgument DEF ExtractorInv
  <2>3. ExtractorInv(x)'
    BY <1>0, <2>1, <2>2 DEF ExtractorInv, Renamed
  <2> QED BY <2>3, OneExtractor
<1> QED BY <1>1, <1>2, <1>3, <1>4, <1>5, <1>6 DEF Extract

-----------------------------------------------------------------------------
LEMMA InitInv == Init => Inv
<1> SUFFICES ASSUME Init PROVE Inv
  OBVIOUS
<1>0. \A j \in Jobs : unit[j].src \in Sources /\ unit[j].syms \subseteq Symbols
  BY StoreAssumption DEF Init
<1>1. CompilerTypes
  BY <1>0 DEF Init, CompilerTypes, Contents, Places
<1>2. ExtractorTypes
  BY StoreAssumption DEF Init, ExtractorTypes, Contents, Stages
<1>3. Locks /\ Readers /\ Archives
  BY StoreAssumption DEF Init, Locks, Readers, Archives
<1>4. Noted
  BY DEF Init, Noted
<1>5. OnlyOnce
  BY StoreAssumption DEF Init, OnlyOnce
<1>6. Arguments
  BY DEF Init, Arguments, Accounted
<1> QED BY <1>1, <1>2, <1>3, <1>4, <1>5, <1>6 DEF Inv

LEMMA NextInv == Inv /\ [Next]_vars => Inv'
<1> SUFFICES ASSUME Inv, [Next]_vars PROVE Inv'
  OBVIOUS
<1>0. /\ CompilerTypes /\ ExtractorTypes /\ Locks /\ Readers /\ Archives /\ Noted /\ OnlyOnce
      /\ Arguments
  BY DEF Inv
<1>1. CASE UNCHANGED compiler /\ UNCHANGED extractor /\ (disk' = disk \/ disk' = "bad")
  <2>1. UNCHANGED <<compiler, extractor>> /\ (disk' = "good" => disk = "good")
    BY <1>1
  <2>2. CompilerTypes' /\ ExtractorTypes' /\ Locks' /\ Readers' /\ Noted'
    BY <1>0, <2>1 DEF compiler, extractor, CompilerTypes, ExtractorTypes, Locks, Readers, Noted
  <2>3. Archives'
    BY <1>0, <2>1 DEF compiler, Archives
  <2>4. OnlyOnce'
    BY <1>0, <2>1 DEF compiler, extractor, OnlyOnce, Renamed
  <2>5. Arguments'
    BY <1>0, <2>1, CompilesKeepArguments DEF compiler
  <2> QED BY <2>2, <2>3, <2>4, <2>5 DEF Inv
<1>2. ASSUME NEW j \in Jobs, Proceeds(j), Frame PROVE Inv'
  <2>1. disk' = disk /\ UNCHANGED extractor /\ UNCHANGED <<unit, strm, owner>>
    BY <1>0, <1>2, ProceedsLeavesTable DEF Frame
  <2>2. CompilerTypes' /\ Locks' /\ Noted' /\ Archives'
    BY <1>0, <1>2, <2>1, ProceedsKeepsTypes, ProceedsKeepsTable, ProceedsKeepsArchives
  <2>3. ExtractorTypes' /\ Readers'
    BY <1>0, <2>1 DEF extractor, ExtractorTypes, Readers
  <2>4. OnlyOnce' /\ Arguments'
    BY <1>0, <1>2, <2>1, ProceedsKeepsOnce, CompilesKeepArguments
  <2> QED BY <2>2, <2>3, <2>4 DEF Inv
<1>3. ASSUME NEW j \in Jobs, NEW s \in Symbols, Emplace(j, s) \/ Visit(j, s) \/ Inserted(j, s), Frame
      PROVE  Inv'
  <2>1. disk' = disk /\ UNCHANGED extractor /\ UNCHANGED unit
    BY <1>3 DEF Frame, Emplace, Visit, Inserted
  <2>2. CompilerTypes' /\ Locks' /\ Noted' /\ Archives'
    BY <1>0, <1>3, <2>1, NotingKeepsTypes, NotingKeepsTable, NotingKeepsArchives
  <2>3. ExtractorTypes'
    BY <1>0, <2>1 DEF extractor, ExtractorTypes
  <2>4. Readers'
    BY <1>0, <1>3, NotingKeepsReaders
  <2>5. OnlyOnce' /\ Arguments'
    BY <1>0, <1>3, <2>1, NotingKeepsOnce, CompilesKeepArguments
  <2> QED BY <2>2, <2>3, <2>4, <2>5 DEF Inv
<1>4. ASSUME NEW x \in Extractors, Extract(x) PROVE Inv'
  BY <1>4, ExtractKeepsInv
<1> QED BY <1>1, <1>2, <1>3, <1>4, Steps

LEMMA Invariance == Spec => []Inv
BY InitInv, NextInv, PTL DEF Spec

\* For any compiles and extractors, an entry is locked by at most one compile, which has the
\* symbol still to note, and every extractor that holds an entry finds a set that is not empty.
THEOREM EntriesAreConsistent == Spec => []StoreTypeOK
<1>1. Inv => StoreTypeOK
  BY DEF Inv, Locks, Readers, StoreTypeOK
<1> QED BY <1>1, Invariance, PTL

\* For any compiles and extractors, nobody walks a set of archives while it changes.
THEOREM NobodyReadsWhatChanges == Spec => []ReadersAndWriters
<1>1. Inv => ReadersAndWriters
  BY DEF Inv, Readers, ReadersAndWriters
<1> QED BY <1>1, Invariance, PTL

\* Whoever compiles, and whoever is killed, an archive is what one compile wrote, as long as
\* the disk has room.
THEOREM ArchivesAreWhole == Spec => []WholeArchives
<1>1. Inv => WholeArchives
  BY DEF Inv, Archives, WholeArchives, IsWhole
<1> QED BY <1>1, Invariance, PTL

\* Whoever compiles, and whoever is killed, the table names only archives that are there, as
\* long as the disk has room.
THEOREM TableNamesArchives == Spec => []NamedArchivesExist
<1>1. Inv => NamedArchivesExist
  BY StoreAssumption DEF Inv, Archives, NamedArchivesExist
<1> QED BY <1>1, Invariance, PTL

\* No interleaving of any number of compiles loses what one of them noted.
THEOREM NoUpdateIsLost == Spec => []NothingForgotten
<1>1. Inv => NothingForgotten
  BY DEF Inv, Noted, NothingForgotten
<1> QED BY <1>1, Invariance, PTL

\* No compile that ends leaves an entry locked, unless it is killed by force.
THEOREM OnlySigkillLeavesLocks ==
  ASSUME "kill" \notin Faults
  PROVE  Spec => []LocksAreReleased
<1>1. Inv => LocksAreReleased
  BY DEF Inv, Locks, CompilerTypes, LocksAreReleased
<1> QED BY <1>1, Invariance, PTL

\* Whatever fails, and whoever is killed, a symbol in an archive that stayed what it was is
\* found by every extractor that is asked for it and comes to its end.
THEOREM WhatIsArchivedIsFound == Spec => []ArchivedIsFound
<1>1. Inv => ArchivedIsFound
  <2> SUFFICES ASSUME Inv, NEW x \in Extractors, at[x] = "done", NEW i \in DOMAIN req[x].code,
                      NEW f \in Sources, req[x].code[i] \in Symbols, archive[f] = seen[x][f],
                      Defines(archive[f], req[x].code[i])
               PROVE  req[x].code[i] \in found[x]
    BY DEF ArchivedIsFound
  <2>1. rest[x] = <<>> /\ Accounted(x)
    BY DEF Inv, Arguments
  <2>2. Elements(<<>>) = {}
    BY DEF Elements
  <2>3. Settled(x, req[x].code[i])
    BY <2>1, <2>2 DEF Accounted, Elements
  <2> QED BY <2>3 DEF Settled
<1> QED BY <1>1, Invariance, PTL

-----------------------------------------------------------------------------
(* The directory is a Catalog.                                             *)

\* Until its rename a compile has its temporary file; it only notes what it defines.
Details == /\ disk \in {"good", "bad"}
           /\ \A j \in Jobs : pc[j] \in {"write", "rename"} => temp[j] # None
           /\ \A j \in Jobs : left[j] \subseteq unit[j].syms

LEMMA DetailsStay ==
  ASSUME Inv, Details, [Next]_vars
  PROVE  Details'
<1>0. CompilerTypes /\ OnlyOnce /\ None \notin Jobs
  BY StoreAssumption DEF Inv
<1>1. CASE UNCHANGED compiler /\ (disk' = disk \/ disk' = "bad")
  BY <1>1 DEF compiler, Details
<1>2. ASSUME NEW j \in Jobs, Proceeds(j), Frame PROVE Details'
  <2>1. UNCHANGED <<disk, unit, left>>
    BY <1>0, <1>2, ProceedsLeavesTable DEF Frame
  <2>2. \A i \in Jobs : pc'[i] \in {"write", "rename"} => temp'[i] # None
    <3> USE <1>0, StoreAssumption DEF GoesTo, TempOf, CompilerTypes, Details
    <3>1. CASE MakeTemp(j)
      BY <3>1 DEF MakeTemp
    <3>2. CASE WriteArchive(j)
      BY <3>2 DEF WriteArchive
    <3>3. CASE WriteFails(j)
      BY <3>3 DEF WriteFails
    <3>4. CASE Rename(j)
      BY <3>4 DEF Rename
    <3>5. CASE RenameFails(j)
      BY <3>5 DEF RenameFails
    <3>6. CASE OpenTable(j) \/ Written(j) \/ Interrupted(j) \/ Killed(j) \/ NoRelativePath(j)
      BY <3>6 DEF OpenTable, Written, Interrupted, Killed, NoRelativePath
    <3> QED BY <1>2, <3>1, <3>2, <3>3, <3>4, <3>5, <3>6 DEF Proceeds
  <2> QED BY <2>1, <2>2 DEF Details
<1>3. ASSUME NEW j \in Jobs, NEW s \in Symbols, Emplace(j, s) \/ Visit(j, s) \/ Inserted(j, s), Frame
      PROVE  Details'
  BY <1>0, <1>3 DEF Frame, Emplace, Visit, Inserted, GoesTo, CompilerTypes, Details
<1>4. ASSUME NEW x \in Extractors, Extract(x) PROVE Details'
  BY <1>1, <1>4 DEF Extract
<1> QED BY <1>1, <1>2, <1>3, <1>4, Steps

LEMMA DetailsInvariance == Spec => [](Inv /\ Details)
<1>1. Init => Details
  BY DEF Init, Details
<1> QED BY <1>1, DetailsStay, InitInv, NextInv, PTL DEF Spec

Stages0 == [i \in Jobs |-> Stage(pc[i])]

LEMMA StageMoves ==
  ASSUME CompilerTypes, NEW j \in Jobs, NEW p, pc' = [pc EXCEPT ![j] = p]
  PROVE  /\ Stages0' = [Stages0 EXCEPT ![j] = Stage(p)]
         /\ Stages0[j] = Stage(pc[j])
         /\ Stage(p) = Stage(pc[j]) => Stages0' = Stages0
BY DEF CompilerTypes, Stages0

\* A step of a compile that leaves the table alone.
LEMMA ProceedsInCatalog ==
  ASSUME Inv, Details, NEW j \in Jobs, Proceeds(j), Frame
  PROVE  [Directory!Next]_(Directory!vars)
<1>0. CompilerTypes /\ OnlyOnce /\ Archives /\ Noted
  BY DEF Inv
<1> DEFINE Same(p) == pc' = [pc EXCEPT ![j] = p] /\ Stage(p) = Stage(pc[j])
                      /\ UNCHANGED <<disk, unit, archive, strm>>
<1>1. ASSUME NEW p, Same(p) PROVE UNCHANGED Directory!vars
  <2>1. Stages0' = Stages0
    BY <1>0, <1>1, StageMoves
  <2> QED BY <1>1, <2>1 DEF Directory!vars, Stages0
<1>2. CASE MakeTemp(j)
  <2>1. Same("write")
    BY <1>2 DEF MakeTemp, GoesTo, Frame, Stage
  <2> QED BY <2>1, <1>1
<1>3. CASE WriteArchive(j)
  <2>1. Same("rename")
    BY <1>3 DEF WriteArchive, GoesTo, Frame, Stage
  <2> QED BY <2>1, <1>1
<1>4. CASE OpenTable(j)
  <2>1. Same("defs")
    BY <1>4 DEF OpenTable, GoesTo, Frame, Stage
  <2> QED BY <2>1, <1>1
\* It stops.
<1>5. ASSUME pc' = [pc EXCEPT ![j] = "dead"], pc[j] \notin {"end", "dead"},
             UNCHANGED <<disk, unit, archive, strm>>
      PROVE  Directory!Next
  <2>1. /\ Stages0' = [Stages0 EXCEPT ![j] = "stopped"]
        /\ Stages0[j] \in {"compiling", "noting"}
    BY <1>0, <1>5, StageMoves DEF Stage, CompilerTypes, Places
  <2>2. Directory!Stop(j)
    BY <1>5, <2>1 DEF Directory!Stop, Directory!Enters, Stages0
  <2> QED BY <2>2 DEF Directory!Next
<1>6. CASE Interrupted(j) \/ Killed(j) \/ NoRelativePath(j)
  BY <1>5, <1>6 DEF Interrupted, Killed, NoRelativePath, GoesTo, Frame
<1>7. CASE WriteFails(j)
  <2>1. CASE pc' = [pc EXCEPT ![j] = "rename"]
    <3>1. Same("rename")
      BY <1>7, <2>1 DEF WriteFails, Frame, Stage
    <3> QED BY <3>1, <1>1
  <2>2. CASE pc' = [pc EXCEPT ![j] = "dead"]
    BY <1>5, <1>7, <2>2 DEF WriteFails, Frame
  <2> QED BY <1>7, <2>1, <2>2 DEF WriteFails, GoesTo
\* The archive is published, or should have been.
<1>8. CASE Rename(j) \/ RenameFails(j)
  <2>1. /\ pc[j] = "rename" /\ pc' = [pc EXCEPT ![j] = "open"]
        /\ UNCHANGED <<disk, unit, strm>>
        /\ \/ archive' = [archive EXCEPT ![unit[j].src] = temp[j]]
           \/ disk = "bad" /\ archive' = archive
    BY <1>8 DEF Rename, RenameFails, GoesTo, TempOf, Frame
  <2>2. Stages0' = [Stages0 EXCEPT ![j] = "noting"] /\ Stages0[j] = "compiling"
    BY <1>0, <2>1, StageMoves DEF Stage
  <2>3. temp[j] \in {j, "part"} /\ (disk = "good" => temp[j] = j)
    BY <1>0, <2>1 DEF OnlyOnce, Details, Archives
  <2>4. disk \in {"good", "bad"}
    BY DEF Details
  <2>5. Directory!Publish(j)
    BY <2>1, <2>2, <2>3, <2>4 DEF Directory!Publish, Directory!Enters, Stages0
  <2> QED BY <2>5 DEF Directory!Next
<1>9. CASE Written(j)
  <2>1. /\ pc[j] = "defs" /\ left[j] = {} /\ pc' = [pc EXCEPT ![j] = "end"]
        /\ UNCHANGED <<disk, unit, archive, strm>>
    BY <1>9 DEF Written, GoesTo, Frame
  <2>2. Stages0' = [Stages0 EXCEPT ![j] = "complete"] /\ Stages0[j] = "noting"
    BY <1>0, <2>1, StageMoves DEF Stage
  <2>3. \A s \in unit[j].syms : unit[j].src \in strm[s]
    BY <1>0, <2>1 DEF Noted
  <2>4. Directory!Complete(j)
    BY <2>1, <2>2, <2>3 DEF Directory!Complete, Directory!Enters, Stages0
  <2> QED BY <2>4 DEF Directory!Next
<1> QED BY <1>2, <1>3, <1>4, <1>6, <1>7, <1>8, <1>9 DEF Proceeds

\* A step on an entry of the table.
LEMMA NotingInCatalog ==
  ASSUME Inv, Details, NEW j \in Jobs, NEW s \in Symbols,
         Emplace(j, s) \/ Visit(j, s) \/ Inserted(j, s), Frame
  PROVE  [Directory!Next]_(Directory!vars)
<1>0. CompilerTypes /\ Locks /\ UNCHANGED disk
  BY DEF Inv, Frame
<1>1. CASE Visit(j, s)
  <2>1. Stages0' = Stages0
    <3>1. pc' = [pc EXCEPT ![j] = "insert"] /\ pc[j] = "defs"
      BY <1>1 DEF Visit, GoesTo
    <3>2. Stage("insert") = Stage(pc[j])
      BY <3>1 DEF Stage
    <3> QED BY <1>0, <3>1, <3>2, StageMoves, Zenon
  <2> QED BY <1>0, <1>1, <2>1 DEF Visit, Directory!vars, Stages0
<1>2. CASE Emplace(j, s) \/ Inserted(j, s)
  <2>1. s \in left[j] /\ pc[j] \in {"defs", "insert"}
    BY <1>0, <1>2 DEF Emplace, Inserted, Locks
  <2>2. Stages0' = Stages0 /\ Stages0[j] = "noting"
    <3>1. pc' = [pc EXCEPT ![j] = "defs"]
      BY <1>0, <1>2 DEF Emplace, Inserted, GoesTo, CompilerTypes
    <3>2. Stage("defs") = Stage(pc[j]) /\ Stage(pc[j]) = "noting"
      BY <2>1 DEF Stage
    <3> QED BY <1>0, <3>1, <3>2, StageMoves, Zenon
  <2>3. strm' = [strm EXCEPT ![s] = strm[s] \cup {unit[j].src}] /\ UNCHANGED <<unit, archive>>
    BY <1>0, <1>2 DEF Emplace, Inserted, CompilerTypes
  <2>4. s \in unit[j].syms
    BY <2>1 DEF Details
  <2>5. Directory!Note(j, s)
    BY <1>0, <2>2, <2>3, <2>4 DEF Directory!Note, Stages0
  <2> QED BY <2>5 DEF Directory!Next
<1> QED BY <1>1, <1>2

\* For any compiles, extractors and faults, the directory is a Catalog to its readers.
THEOREM DirectoryIsACatalog == Spec => ImplementsCatalog
<1>1. Init => Directory!Init
  BY DEF Init, Directory!Init, Stage
<1>2. Inv /\ Details /\ [Next]_vars => [Directory!Next]_(Directory!vars)
  <2> SUFFICES ASSUME Inv, Details, [Next]_vars PROVE [Directory!Next]_(Directory!vars)
    OBVIOUS
  <2>1. CASE UNCHANGED compiler /\ (disk' = disk \/ disk' = "bad")
    <3>1. UNCHANGED <<unit, pc, archive, strm>>
      BY <2>1 DEF compiler
    <3> QED BY <2>1, <3>1 DEF Directory!vars, Directory!Next, Directory!DiskFails
  <2>2. ASSUME NEW x \in Extractors, Extract(x) PROVE [Directory!Next]_(Directory!vars)
    BY <2>1, <2>2 DEF Extract
  <2> QED BY <2>1, <2>2, Steps, ProceedsInCatalog, NotingInCatalog
<1> QED BY <1>1, <1>2, DetailsInvariance, PTL DEF Spec, ImplementsCatalog, Directory!Spec

=============================================================================
