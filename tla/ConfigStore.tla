----------------------------- MODULE ConfigStore -----------------------------
(***************************************************************************)
(* The parameter file product_params.json: EngineProject::saveParams hands *)
(* the parameters to the AuxTask thread, which writes them by way of a     *)
(* .tmp and a .back file (AuxTask::saveConfigFileAsync); main.cpp repairs  *)
(* an empty file from the .back file when the program starts               *)
(* (AuxTask::checkConfigFile) and then loads it.                           *)
(*                                                                         *)
(* The file system is external: the program sees every operation at once,  *)
(* the disk has them in order but later; after a power loss the directory  *)
(* is the one before some operation that sync had not covered, and a file  *)
(* whose data were not on disk yet may come back empty.                    *)
(***************************************************************************)
EXTENDS Integers, FiniteSets, Sequences

CONSTANTS
  None,         \* no file of that name; no version
  Empty,        \* the contents of a file that lost its data
  MaxSaves,     \* bound: parameters saved
  MaxLosses,    \* bound: power losses
  MaxKills,     \* bound: the program is killed, the machine goes on
  MaxErrors     \* bound: file operations that fail

ASSUME ConstantsOK ==
  /\ None \notin Nat /\ Empty \notin Nat /\ None # Empty
  /\ MaxSaves \in Nat /\ MaxLosses \in Nat /\ MaxKills \in Nat /\ MaxErrors \in Nat

VARIABLES
  pc,       \* where the program is: see Places
  queue,    \* event queue of the AuxTask thread: versions to save
  pathSet,  \* is EngineProject::m_params set?  (loadParams has succeeded)
  dirs,     \* directories since the last sync, the program's view last
  data,     \* contents of every file ever made, by number
  dirty,    \* the files whose data are not on disk
  history   \* ghost totals: see HistoryInit

vars == <<pc, queue, pathSet, dirs, data, dirty, history>>

-----------------------------------------------------------------------------
Names == {"json", "tmp", "back"}

(* Off; at the start of main; between the removal and the copy of a repair;
   before loadParams; waiting for an event; and after the first, second, third
   and fourth file operation of saveConfigFileAsync. *)
Places == {"off", "start", "repair", "load", "idle", "written", "removed", "backed", "renamed"}

Versions == 0..MaxSaves

(* Ghosts: saved counts the calls of saveParams accepted, synced is the last
   version whose save reached its sync, hasty is set by a save that begins while
   data of an earlier start or save are not on disk. *)
History == [saved : Versions, synced : Versions, losses : 0..MaxLosses,
            kills : 0..MaxKills, errors : 0..MaxErrors, hasty : BOOLEAN]

(* The shipped parameters, version 0, and a first start. *)
Init ==
  /\ pc = "off" /\ queue = << >> /\ pathSet = FALSE
  /\ dirs = <<[n \in Names |-> IF n = "json" THEN 1 ELSE None]>>
  /\ data = <<0>> /\ dirty = {}
  /\ history = [saved |-> 0, synced |-> 0, losses |-> 0, kills |-> 0, errors |-> 0,
                hasty |-> FALSE]

View == dirs[Len(dirs)]

Exists(n) == View[n] # None

(* The contents of the file of that name, None if there is none. *)
Contents(n) == IF Exists(n) THEN data[View[n]] ELSE None

Change(dir) == dirs' = Append(dirs, dir)

Remove(n) == Change([View EXCEPT ![n] = None])

Rename(n, to) == Change([View EXCEPT ![to] = View[n], ![n] = None])

(* A new file of that name with contents c, in place of any earlier one; no data
   are to be written for an empty file. *)
NewFile(n, c) ==
  /\ Change([View EXCEPT ![n] = Len(data) + 1])
  /\ data' = Append(data, c)
  /\ dirty' = IF c = Empty THEN dirty ELSE dirty \cup {Len(data) + 1}

-----------------------------------------------------------------------------
(* The machine is on again. *)
Start ==
  /\ pc = "off"
  /\ pc' = "start"
  /\ UNCHANGED <<queue, pathSet, dirs, data, dirty, history>>

(* checkConfigFile: an empty file that has a backup is removed ... *)
NeedsRepair == Exists("json") /\ Exists("back") /\ Contents("json") = Empty

CheckConfigFile ==
  /\ pc = "start"
  /\ IF NeedsRepair THEN pc' = "repair" /\ Remove("json") ELSE pc' = "load" /\ dirs' = dirs
  /\ UNCHANGED <<queue, pathSet, data, dirty, history>>

(* ... and made again as a copy of the backup. *)
CopyBack ==
  /\ pc = "repair"
  /\ pc' = "load"
  /\ NewFile("json", Contents("back"))
  /\ UNCHANGED <<queue, pathSet, history>>

(* loadParams succeeds on a complete file only; m_params is set by success. *)
LoadParams ==
  /\ pc = "load"
  /\ pc' = "idle"
  /\ pathSet' = (Contents("json") \in Versions)
  /\ UNCHANGED <<queue, dirs, data, dirty, history>>

(* Fault: parameters are saved even if none could be loaded. *)
MaySaveAlways == pc \notin {"off", "start", "repair", "load"}

MaySave == pc \notin {"off", "start", "repair", "load"} /\ pathSet

(* saveParams, on the thread of the policy store or of the console. *)
SaveParams ==
  /\ MaySave
  /\ history.saved < MaxSaves
  /\ queue' = Append(queue, history.saved + 1)
  /\ history' = [history EXCEPT !.saved = @ + 1]
  /\ UNCHANGED <<pc, pathSet, dirs, data, dirty>>

-----------------------------------------------------------------------------
(* saveConfigFileAsync, operation by operation: write the .tmp file ... *)
WriteTmp ==
  /\ pc = "idle" /\ queue # << >>
  /\ pc' = "written"
  /\ NewFile("tmp", Head(queue))
  /\ history' = [history EXCEPT !.hasty = @ \/ dirty # {}]
  /\ UNCHANGED <<queue, pathSet>>

(* ... remove the .back file, if there is one ... *)
RemoveBack ==
  /\ pc = "written"
  /\ pc' = "removed"
  /\ IF Exists("back") THEN Remove("back") ELSE dirs' = dirs
  /\ UNCHANGED <<queue, pathSet, data, dirty, history>>

(* Fault: the parameter file is not made the backup, only removed. *)
RenameJsonRemoves ==
  /\ pc = "removed" /\ Exists("json")
  /\ pc' = "backed"
  /\ Remove("json")
  /\ UNCHANGED <<queue, pathSet, data, dirty, history>>

(* ... make the parameter file the .back file ... *)
RenameJson ==
  /\ pc = "removed" /\ Exists("json")
  /\ pc' = "backed"
  /\ Rename("json", "back")
  /\ UNCHANGED <<queue, pathSet, data, dirty, history>>

(* ... make the .tmp file the parameter file ... *)
RenameTmp ==
  /\ pc = "backed"
  /\ pc' = "renamed"
  /\ Rename("tmp", "json")
  /\ UNCHANGED <<queue, pathSet, data, dirty, history>>

(* Fault: no sync. *)
SyncNothing ==
  /\ pc = "renamed"
  /\ pc' = "idle"
  /\ queue' = Tail(queue)
  /\ history' = [history EXCEPT !.synced = Head(queue)]
  /\ UNCHANGED <<pathSet, data, dirs, dirty>>

(* ... and sync. *)
Sync ==
  /\ pc = "renamed"
  /\ pc' = "idle"
  /\ queue' = Tail(queue)
  /\ dirs' = <<View>> /\ dirty' = {}
  /\ history' = [history EXCEPT !.synced = Head(queue)]
  /\ UNCHANGED <<pathSet, data>>

(* There is no parameter file to back up: the save is given up, after its backup
   has been removed. *)
NothingToBackUp ==
  /\ pc = "removed" /\ ~Exists("json")
  /\ pc' = "idle"
  /\ queue' = Tail(queue)
  /\ UNCHANGED <<pathSet, dirs, data, dirty, history>>

-----------------------------------------------------------------------------
Error ==
  /\ history.errors < MaxErrors
  /\ history' = [history EXCEPT !.errors = @ + 1]

(* Each of the operations of a save may fail; the save is given up there. *)
OperationFails ==
  /\ Error
  /\ \/ pc = "idle" /\ queue # << >>
     \/ pc = "written" /\ Exists("back")
     \/ pc = "removed" /\ Exists("json")
     \/ pc = "backed"
  /\ pc' = "idle"
  /\ queue' = Tail(queue)
  /\ UNCHANGED <<pathSet, dirs, data, dirty>>

(* There is no room on the disk: nobody looks at the result of write, and the save
   goes on with an empty file. *)
WriteFails ==
  /\ Error
  /\ pc = "idle" /\ queue # << >>
  /\ pc' = "written"
  /\ NewFile("tmp", Empty)
  /\ UNCHANGED <<queue, pathSet>>

(* Nobody looks at the results of a repair either: if the empty file cannot be
   removed, there can be no copy in its place. *)
RepairFails ==
  /\ Error
  /\ \/ pc = "start" /\ NeedsRepair
     \/ pc = "repair"
  /\ pc' = "load"
  /\ UNCHANGED <<queue, pathSet, dirs, data, dirty>>

-----------------------------------------------------------------------------
(* The kernel writes back the oldest change of the directory, or a file. *)
WriteBackDirectory ==
  /\ Len(dirs) > 1
  /\ dirs' = Tail(dirs)
  /\ UNCHANGED <<pc, queue, pathSet, data, dirty, history>>

WriteBackFile ==
  /\ \E f \in dirty : dirty' = dirty \ {f}
  /\ UNCHANGED <<pc, queue, pathSet, dirs, data, history>>

Stop == pc # "off" /\ pc' = "off" /\ queue' = << >> /\ pathSet' = FALSE

(* The program is killed. *)
Kill ==
  /\ history.kills < MaxKills
  /\ Stop
  /\ history' = [history EXCEPT !.kills = @ + 1]
  /\ UNCHANGED <<dirs, data, dirty>>

(* The power fails. *)
PowerLoss ==
  /\ history.losses < MaxLosses
  /\ Stop
  /\ \E k \in DOMAIN dirs, lost \in SUBSET dirty :
       /\ dirs' = <<dirs[k]>>
       /\ data' = [f \in DOMAIN data |-> IF f \in lost THEN Empty ELSE data[f]]
  /\ dirty' = {}
  /\ history' = [history EXCEPT !.losses = @ + 1]

Next ==
  \/ Start \/ CheckConfigFile \/ CopyBack \/ LoadParams \/ SaveParams
  \/ WriteTmp \/ RemoveBack \/ RenameJson \/ RenameTmp \/ Sync
  \/ NothingToBackUp \/ OperationFails \/ WriteFails \/ RepairFails
  \/ WriteBackDirectory \/ WriteBackFile
  \/ Kill \/ PowerLoss

Spec == Init /\ [][Next]_vars

-----------------------------------------------------------------------------
(* Type invariant. *)
TypeOK ==
  /\ pc \in Places /\ pathSet \in BOOLEAN /\ queue \in Seq(Versions)
  /\ data \in Seq(Versions \cup {Empty})
  /\ dirs \in Seq([Names -> DOMAIN data \cup {None}]) \ {<< >>}
  /\ dirty \subseteq DOMAIN data
  /\ history \in History

(* No file operation has failed, and every save began when the data of earlier
   starts and saves were on disk (the kernel writes them back within seconds). *)
Calm == history.errors = 0 /\ ~history.hasty

(* Recovery: whatever is lost when the power fails or the program is killed,
   at any point of a save or a repair, a complete version of the parameters
   remains under the file's own name or as its backup. *)
CompleteCopySurvives ==
  Calm => \E n \in {"json", "back"} : Contents(n) \in Versions

(* Durability: when the program has loaded its parameters they are not older
   than the last save that came to its end, however many saves were cut short
   since and whichever file they were repaired from.  ("backed": between the two
   renames of a save no file has the name.) *)
SavedIsNotForgotten ==
  (Calm /\ pathSet /\ pc # "backed") =>
     Contents("json") \in history.synced..history.saved

(* The version that the directory holds: the parameter file's, or, if that is
   missing or empty, the backup's. *)
Stored == IF Contents("json") \in Versions THEN Contents("json") ELSE Contents("back")

Register == INSTANCE ParameterRegister
              WITH saved <- history.saved, stored <- Stored, kept <- history.synced

(* Atomicity: in a calm run the four file operations of a save, and the two of a
   repair, amount to a register: wherever the power fails or the program is
   killed, the version held changes in one step of a save to the one being saved,
   or goes back to one not older than the last sync. *)
IsRegister == Register!Init /\ [][Calm' => [Register!Next]_(Register!vars)]_vars

(* AuxTask.h says of checkConfigFile that it solves, with the backup, what a
   power loss does to the parameter file: the program starts with parameters. *)
StartsWithParameters == (Calm /\ pc = "idle") => pathSet

=============================================================================
