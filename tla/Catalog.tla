------------------------------- MODULE Catalog -------------------------------
(***************************************************************************)
(* What the directory .carbon promises its readers, whoever compiles: the   *)
(* archive of a source is replaced in one step by what a compile of it      *)
(* made, then the symbols it defines are noted one by one, and nothing is   *)
(* taken back.  A compile may stop at any time; only one that noted all it  *)
(* defines is complete.  Module Store does this with temporary files,       *)
(* rename, and a table in shared memory whose entries are locked.           *)
(***************************************************************************)
CONSTANTS Jobs, Sources, Symbols, Units, None

VARIABLES disk,    \* "good" or "bad"
          unit,    \* the source of every compile and the symbols it then defines
          stage,   \* how far it is
          archive, \* the compile whose output is the archive of a source
          noted    \* noted[s]: the sources said to define s

vars == <<disk, unit, stage, archive, noted>>

Init == /\ disk = "good" /\ unit \in [Jobs -> Units]
        /\ stage = [j \in Jobs |-> "compiling"]
        /\ archive = [f \in Sources |-> None] /\ noted = [s \in Symbols |-> {}]

Enters(j, place) == stage' = [stage EXCEPT ![j] = place]

\* On a bad disk the archive may be torn, or stay what it was.
Publish(j) ==
  /\ stage[j] = "compiling" /\ Enters(j, "noting")
  /\ \/ archive' = [archive EXCEPT ![unit[j].src] = j]
     \/ disk = "bad" /\ archive' = [archive EXCEPT ![unit[j].src] = "part"]
     \/ disk = "bad" /\ archive' = archive
  /\ UNCHANGED <<disk, unit, noted>>

Note(j, s) ==
  /\ stage[j] = "noting" /\ s \in unit[j].syms
  /\ noted' = [noted EXCEPT ![s] = @ \cup {unit[j].src}]
  /\ UNCHANGED <<disk, unit, stage, archive>>

Complete(j) ==
  /\ stage[j] = "noting" /\ \A s \in unit[j].syms : unit[j].src \in noted[s]
  /\ Enters(j, "complete")
  /\ UNCHANGED <<disk, unit, archive, noted>>

Stop(j) ==
  /\ stage[j] \in {"compiling", "noting"} /\ Enters(j, "stopped")
  /\ UNCHANGED <<disk, unit, archive, noted>>

DiskFails == disk' = "bad" /\ UNCHANGED <<unit, stage, archive, noted>>

Next == \/ DiskFails
        \/ \E j \in Jobs : Publish(j) \/ Complete(j) \/ Stop(j) \/ \E s \in Symbols : Note(j, s)

Spec == Init /\ [][Next]_vars

=============================================================================
