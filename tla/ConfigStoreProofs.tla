-------------------------- MODULE ConfigStoreProofs --------------------------
(***************************************************************************)
(* The parameter file, for any number of saves, power losses, kills and    *)
(* failed operations: types, then what survives a power loss or a kill at  *)
(* any point of a save or a repair.                                        *)
(***************************************************************************)
EXTENDS ConfigStore, SequenceTheorems, TLAPS

-----------------------------------------------------------------------------
(* Types. *)

(* A directory over the files made so far. *)
Directory == [Names -> DOMAIN data \cup {None}]

(* The last directory of a sequence and what appending one does to it. *)
LEMMA Appended ==
  ASSUME NEW S, NEW s \in Seq(S), NEW e \in S
  PROVE  /\ Append(s, e) \in Seq(S) /\ Append(s, e) # << >>
         /\ Append(s, e)[Len(Append(s, e))] = e
         /\ DOMAIN Append(s, e) = 1..(Len(s) + 1) /\ Append(s, e)[Len(s) + 1] = e
         /\ \A i \in DOMAIN s : Append(s, e)[i] = s[i]
         /\ \A i \in DOMAIN Append(s, e) : i \in DOMAIN s \/ i = Len(s) + 1
<1>1. Len(s) \in Nat /\ DOMAIN s = 1..Len(s)
  OBVIOUS
<1>2. /\ Append(s, e) \in Seq(S) /\ Len(Append(s, e)) = Len(s) + 1
      /\ Append(s, e)[Len(s) + 1] = e
      /\ \A i \in DOMAIN s : Append(s, e)[i] = s[i]
  BY <1>1
<1>3. DOMAIN Append(s, e) = 1..(Len(s) + 1)
  BY <1>1
<1>4. Append(s, e) # << >>
  BY <1>1, <1>2
<1>5. QED BY <1>1, <1>2, <1>3, <1>4

(* The program's view of the disk is a directory. *)
LEMMA ViewType ==
  ASSUME TypeOK
  PROVE  /\ dirs \in Seq(Directory) /\ Len(dirs) \in DOMAIN dirs
         /\ View \in Directory
         /\ \A k \in DOMAIN dirs : dirs[k] \in Directory
<1>1. dirs \in Seq(Directory) /\ dirs # << >>
  BY DEF TypeOK, Directory
<1>2. Len(dirs) \in Nat \ {0} /\ DOMAIN dirs = 1..Len(dirs)
  BY <1>1, EmptySeq, LenProperties
<1>3. \A k \in DOMAIN dirs : dirs[k] \in Directory
  BY <1>1, <1>2, ElementOfSeq
<1>4. QED BY <1>1, <1>2, <1>3 DEF View

(* An operation on the directory only. *)
LEMMA ChangeType ==
  ASSUME TypeOK, NEW d \in Directory, Change(d), data' = data
  PROVE  /\ dirs' \in Seq(Directory') \ {<< >>}
         /\ View' = d
         /\ \A k \in DOMAIN dirs' : dirs'[k] = d \/ \E j \in DOMAIN dirs : dirs'[k] = dirs[j]
<1>1. dirs \in Seq(Directory) /\ dirs' = Append(dirs, d)
  BY ViewType DEF Change
<1>2. Directory' = Directory
  BY DEF Directory
<1>3. QED BY <1>1, <1>2, Appended DEF View

(* Removing a name, or moving it, yields a directory. *)
LEMMA RemoveType ==
  ASSUME TypeOK, NEW n \in Names, NEW to \in Names
  PROVE  /\ [View EXCEPT ![n] = None] \in Directory
         /\ [View EXCEPT ![to] = View[n], ![n] = None] \in Directory
<1>1. View \in [Names -> DOMAIN data \cup {None}]
  BY ViewType DEF Directory
<1>2. QED BY <1>1 DEF Directory

(* A new file has a new number; the earlier ones keep their contents. *)
LEMMA NewFileType ==
  ASSUME TypeOK, NEW n \in Names, NEW c \in Versions \cup {Empty}, NewFile(n, c)
  PROVE  /\ data' \in Seq(Versions \cup {Empty})
         /\ dirs' \in Seq(Directory') \ {<< >>}
         /\ dirty' \subseteq DOMAIN data'
         /\ Len(data) + 1 \notin DOMAIN data /\ Len(data) + 1 # None
         /\ View' = [View EXCEPT ![n] = Len(data) + 1]
         /\ data'[Len(data) + 1] = c /\ Len(data) + 1 \in DOMAIN data'
         /\ \A f \in DOMAIN data : f \in DOMAIN data' /\ data'[f] = data[f]
         /\ \A f \in DOMAIN data' : f \in DOMAIN data \/ f = Len(data) + 1
         /\ \A k \in DOMAIN dirs' : \/ dirs'[k] = [View EXCEPT ![n] = Len(data) + 1]
                                    \/ \E j \in DOMAIN dirs : dirs'[k] = dirs[j]
<1> DEFINE new == Len(data) + 1
           d == [View EXCEPT ![n] = new]
<1>1. data \in Seq(Versions \cup {Empty}) /\ data' = Append(data, c)
  BY DEF NewFile, TypeOK
<1>2. /\ Len(data) \in Nat /\ DOMAIN data = 1..Len(data)
      /\ data' \in Seq(Versions \cup {Empty}) /\ DOMAIN data' = 1..new
      /\ data'[new] = c
      /\ \A f \in DOMAIN data : data'[f] = data[f]
  BY <1>1, Appended, LenProperties
<1>3. new \in DOMAIN data' /\ new \notin DOMAIN data /\ new # None
      /\ DOMAIN data' = DOMAIN data \cup {new}
  BY <1>2, ConstantsOK
<1>4. d \in Directory'
  <2>1. View \in [Names -> DOMAIN data \cup {None}]
    BY ViewType DEF Directory
  <2>2. QED BY <1>3, <2>1 DEF Directory
<1>5. dirs \in Seq(Directory') /\ dirs' = Append(dirs, d)
  <2>1. Directory \subseteq Directory'
    BY <1>3 DEF Directory
  <2>2. dirs \in Seq(Directory) /\ dirs' = Append(dirs, d)
    BY ViewType DEF NewFile, Change
  <2>3. QED BY <2>1, <2>2, SeqMonotonic
<1>6. dirty' \subseteq DOMAIN data'
  BY <1>3 DEF NewFile, TypeOK
<1> HIDE DEF d
<1>7. /\ dirs' \in Seq(Directory') \ {<< >>} /\ View' = d
      /\ \A k \in DOMAIN dirs' : dirs'[k] = d \/ \E j \in DOMAIN dirs : dirs'[k] = dirs[j]
  BY <1>4, <1>5, Appended DEF View
<1>8. QED BY <1>2, <1>3, <1>6, <1>7 DEF d

(* The first version queued. *)
LEMMA QueueType ==
  ASSUME TypeOK, queue # << >>
  PROVE  Head(queue) \in Versions /\ Tail(queue) \in Seq(Versions)
BY HeadTailProperties DEF TypeOK

(* A backup that is to be copied exists. *)
BackupExists == pc = "repair" => View["back"] # None

(* The kernel's write-back does not change the program's view. *)
LEMMA WriteBackView ==
  ASSUME TypeOK, WriteBackDirectory
  PROVE  /\ dirs' \in Seq(Directory) \ {<< >>} /\ View' = View
         /\ \A k \in DOMAIN dirs' : \E j \in DOMAIN dirs : dirs'[k] = dirs[j]
<1>1. dirs \in Seq(Directory) /\ dirs # << >> /\ Len(dirs) > 1 /\ dirs' = Tail(dirs)
  BY ViewType DEF WriteBackDirectory, TypeOK
<1>2. /\ Len(dirs) \in Nat /\ Len(dirs') = Len(dirs) - 1
      /\ dirs' \in Seq(Directory) /\ \A i \in 1..Len(dirs') : dirs'[i] = dirs[i + 1]
      /\ DOMAIN dirs' = 1..Len(dirs') /\ DOMAIN dirs = 1..Len(dirs)
  BY <1>1, HeadTailProperties, LenProperties
<1>3. dirs' # << >>
  BY <1>1, <1>2, EmptySeq
<1>4. dirs'[Len(dirs')] = dirs[Len(dirs)]
  BY <1>1, <1>2
<1>5. ASSUME NEW k \in DOMAIN dirs' PROVE \E j \in DOMAIN dirs : dirs'[k] = dirs[j]
  <2>1. k + 1 \in DOMAIN dirs
    BY <1>2
  <2>2. QED BY <1>2, <2>1
<1>6. QED BY <1>2, <1>3, <1>4, <1>5 DEF View

(* A power loss leaves one of the directories, and some data. *)
LEMMA PowerLossType ==
  ASSUME TypeOK, PowerLoss
  PROVE  \E k \in DOMAIN dirs, lost \in SUBSET dirty :
           /\ dirs' = <<dirs[k]>> /\ View' = dirs[k] /\ DOMAIN dirs' = {1}
           /\ dirs' \in Seq(Directory) \ {<< >>}
           /\ data' = [f \in DOMAIN data |-> IF f \in lost THEN Empty ELSE data[f]]
           /\ data' \in Seq(Versions \cup {Empty}) /\ DOMAIN data' = DOMAIN data
<1>1. PICK k \in DOMAIN dirs, lost \in SUBSET dirty :
        /\ dirs' = <<dirs[k]>>
        /\ data' = [f \in DOMAIN data |-> IF f \in lost THEN Empty ELSE data[f]]
  BY DEF PowerLoss
<1>2. dirs[k] \in Directory
  BY ViewType
<1> DEFINE d == dirs[k]
<1> HIDE DEF d
<1>3. <<d>> \in Seq(Directory) /\ <<d>> # << >> /\ Len(<<d>>) = 1 /\ <<d>>[1] = d
      /\ DOMAIN <<d>> = {1}
  BY <1>2 DEF d
<1>4. /\ dirs' \in Seq(Directory) \ {<< >>} /\ View' = dirs[k] /\ DOMAIN dirs' = {1}
  BY <1>1, <1>3 DEF d, View
<1>5. PICK n \in Nat : DOMAIN data = 1..n /\ data \in [1..n -> Versions \cup {Empty}]
  BY LenProperties DEF TypeOK
<1>6. data' \in [1..n -> Versions \cup {Empty}]
  BY <1>1, <1>5
<1>7. data' \in Seq(Versions \cup {Empty})
  BY <1>6, SeqDef
<1>8. QED BY <1>1, <1>4, <1>5, <1>6, <1>7

(* A save under way is one of a version that is queued. *)
Saving == {"written", "removed", "backed", "renamed"}

SavesQueued == pc \in Saving => queue # << >>

LEMMA SavesQueuedStep ==
  ASSUME TypeOK, SavesQueued, [Next]_vars
  PROVE  SavesQueued'
<1>1. CASE SaveParams
  <2>1. queue' # << >>
    <3>1. history.saved + 1 \in Versions
      BY <1>1, ConstantsOK DEF SaveParams, TypeOK, History, Versions
    <3>2. QED BY <1>1, <3>1, Appended DEF SaveParams, TypeOK
  <2>2. QED BY <2>1 DEF SavesQueued
<1>2. CASE WriteTmp \/ RemoveBack \/ RenameJson \/ RenameTmp \/ WriteFails
  BY <1>2 DEF WriteTmp, RemoveBack, RenameJson, RenameTmp, WriteFails, SavesQueued, Saving
<1>3. CASE Start \/ CheckConfigFile \/ CopyBack \/ LoadParams \/ Sync
           \/ NothingToBackUp \/ OperationFails \/ RepairFails \/ Kill \/ PowerLoss
  <2>1. pc' \notin Saving
    BY <1>3 DEF Start, CheckConfigFile, CopyBack, LoadParams, Sync, NothingToBackUp,
                OperationFails, RepairFails, Kill, PowerLoss, Stop, Saving
  <2>2. QED BY <2>1 DEF SavesQueued
<1>4. CASE WriteBackDirectory \/ WriteBackFile \/ UNCHANGED vars
  BY <1>4 DEF WriteBackDirectory, WriteBackFile, vars, SavesQueued
<1>5. QED BY <1>1, <1>2, <1>3, <1>4 DEF Next

(* A failure. *)
LEMMA ErrorType ==
  ASSUME TypeOK, Error
  PROVE  /\ history' \in History /\ history'.errors = history.errors + 1
         /\ history'.saved = history.saved /\ history'.synced = history.synced
<1>1. history \in History /\ history.errors \in Nat
  BY DEF TypeOK, History
<1>2. history.errors + 1 \in 0..MaxErrors
  BY <1>1, ConstantsOK DEF Error
<1> QED BY <1>1, <1>2 DEF Error, History

LEMMA FailureIsNotCalm ==
  ASSUME TypeOK, OperationFails \/ WriteFails \/ RepairFails
  PROVE  ~Calm'
<1>1. Error /\ history.errors \in Nat
  BY DEF OperationFails, WriteFails, RepairFails, TypeOK, History
<1>2. history'.errors = history.errors + 1
  BY <1>1, ErrorType
<1> QED BY <1>1, <1>2 DEF Calm

LEMMA TypeStep ==
  ASSUME TypeOK, BackupExists, SavesQueued, [Next]_vars
  PROVE  TypeOK' /\ BackupExists'
<1>1. history \in History /\ history.saved \in Nat /\ history.losses \in Nat
      /\ history.kills \in Nat /\ history.errors \in Nat
  BY DEF TypeOK, History, Versions
<1>2. CASE Start
  BY <1>2 DEF Start, TypeOK, Places, BackupExists
<1>3. CASE CheckConfigFile
  <2>1. CASE NeedsRepair
    <3> DEFINE d == [View EXCEPT !["json"] = None]
    <3>1. d \in Directory /\ Change(d) /\ data' = data
      BY <1>3, <2>1, RemoveType DEF CheckConfigFile, Remove, Names
    <3>2. d["back"] # None
      BY <2>1, ViewType DEF NeedsRepair, Exists, Directory, Names
    <3> HIDE DEF d
    <3>3. dirs' \in Seq(Directory') \ {<< >>} /\ View' = d
      BY <3>1, ChangeType
    <3>4. BackupExists'
      BY <3>2, <3>3 DEF BackupExists
    <3>5. TypeOK'
      BY <1>3, <2>1, <3>3 DEF CheckConfigFile, TypeOK, Directory, Places
    <3>6. QED BY <3>4, <3>5
  <2>2. CASE ~NeedsRepair
    BY <1>3, <2>2 DEF CheckConfigFile, TypeOK, Places, BackupExists
  <2>3. QED BY <2>1, <2>2
<1>4. CASE CopyBack
  <2>1. Contents("back") \in Versions \cup {Empty}
    <3>1. View["back"] \in DOMAIN data /\ Exists("back")
      BY <1>4, ViewType DEF CopyBack, BackupExists, Directory, Names, Exists
    <3>2. QED BY <3>1, ElementOfSeq, LenProperties DEF Contents, TypeOK
  <2>2. /\ data' \in Seq(Versions \cup {Empty})
        /\ dirs' \in Seq(Directory') \ {<< >>} /\ dirty' \subseteq DOMAIN data'
    BY <1>4, <2>1, NewFileType DEF CopyBack, Names
  <2>3. QED BY <1>4, <2>2 DEF CopyBack, TypeOK, Places, Directory, BackupExists
<1>5. CASE LoadParams
  BY <1>5 DEF LoadParams, TypeOK, Places, BackupExists
<1>6. CASE SaveParams
  <2>1. history.saved + 1 \in Versions
    BY <1>1, <1>6, ConstantsOK DEF SaveParams, Versions
  <2>2. queue' \in Seq(Versions)
    BY <1>6, <2>1, Appended DEF SaveParams, TypeOK
  <2>3. history' \in History
    BY <1>1, <1>6, <2>1 DEF SaveParams, History
  <2>4. QED BY <1>6, <2>2, <2>3 DEF SaveParams, TypeOK, BackupExists, View
<1>7. CASE WriteTmp
  <2>1. Head(queue) \in Versions \cup {Empty}
    BY <1>7, QueueType DEF WriteTmp
  <2>2. /\ data' \in Seq(Versions \cup {Empty})
        /\ dirs' \in Seq(Directory') \ {<< >>} /\ dirty' \subseteq DOMAIN data'
    BY <1>7, <2>1, NewFileType DEF WriteTmp, Names
  <2>3. history' \in History
    BY <1>1, <1>7 DEF WriteTmp, History
  <2>4. QED BY <1>7, <2>2, <2>3 DEF WriteTmp, TypeOK, Places, Directory, BackupExists
<1>8. ASSUME NEW d \in Directory, Change(d), pc' \in Places \ {"repair"},
             UNCHANGED <<queue, pathSet, data, dirty, history>>
      PROVE  TypeOK' /\ BackupExists'
  <2>1. dirs' \in Seq(Directory') \ {<< >>}
    BY <1>8, ChangeType
  <2>2. QED BY <1>8, <2>1 DEF TypeOK, Directory, BackupExists
<1>9. CASE RemoveBack
  <2>1. CASE Exists("back")
    <3>1. [View EXCEPT !["back"] = None] \in Directory
      BY RemoveType DEF Names
    <3>2. QED BY <1>8, <1>9, <2>1, <3>1 DEF RemoveBack, Remove, Places
  <2>2. CASE ~Exists("back")
    BY <1>9, <2>2 DEF RemoveBack, TypeOK, Places, BackupExists
  <2>3. QED BY <2>1, <2>2
<1>10. CASE RenameJson
  <2>1. [View EXCEPT !["back"] = View["json"], !["json"] = None] \in Directory
    BY RemoveType DEF Names
  <2>2. QED BY <1>8, <1>10, <2>1 DEF RenameJson, Rename, Places
<1>11. CASE RenameTmp
  <2>1. [View EXCEPT !["json"] = View["tmp"], !["tmp"] = None] \in Directory
    BY RemoveType DEF Names
  <2>2. QED BY <1>8, <1>11, <2>1 DEF RenameTmp, Rename, Places
<1>12. CASE Sync \/ NothingToBackUp \/ OperationFails
  <2>1. queue # << >> /\ queue' = Tail(queue)
    BY <1>12 DEF Sync, NothingToBackUp, OperationFails, SavesQueued, Saving
  <2>2. queue' \in Seq(Versions) /\ Head(queue) \in Versions
    BY <2>1, QueueType
  <2>3. history' \in History
    <3>1. CASE Sync
      BY <1>1, <2>2, <3>1 DEF Sync, History
    <3>2. CASE NothingToBackUp
      BY <1>1, <3>2 DEF NothingToBackUp
    <3>3. CASE OperationFails
      BY <3>3, ErrorType DEF OperationFails
    <3>4. QED BY <1>12, <3>1, <3>2, <3>3
  <2>4. dirs' \in Seq(Directory) \ {<< >>} /\ dirty' \subseteq DOMAIN data
    <3>1. <<View>> \in Seq(Directory) /\ <<View>> # << >>
      BY ViewType
    <3>2. QED BY <1>12, <3>1, ViewType DEF Sync, NothingToBackUp, OperationFails, TypeOK
  <2>5. pc' = "idle" /\ pathSet' = pathSet /\ data' = data
    BY <1>12 DEF Sync, NothingToBackUp, OperationFails
  <2>6. QED BY <2>2, <2>3, <2>4, <2>5 DEF TypeOK, Directory, Places, BackupExists
<1>13. CASE WriteBackDirectory
  BY <1>13, WriteBackView DEF WriteBackDirectory, TypeOK, Directory, BackupExists
<1>14. CASE WriteBackFile
  BY <1>14 DEF WriteBackFile, TypeOK, BackupExists, View
<1>15. CASE Kill
  <2>1. history' \in History
    <3>1. history.kills + 1 \in 0..MaxKills
      BY <1>1, <1>15, ConstantsOK DEF Kill
    <3>2. QED BY <1>1, <1>15, <3>1 DEF Kill, History
  <2>2. pc' = "off" /\ queue' \in Seq(Versions) /\ pathSet' = FALSE
    BY <1>15 DEF Kill, Stop
  <2>3. UNCHANGED <<dirs, data, dirty>>
    BY <1>15 DEF Kill
  <2>4. QED BY <2>1, <2>2, <2>3 DEF TypeOK, Places, BackupExists
<1>16. CASE PowerLoss
  <2>1. history' \in History
    <3>1. history.losses + 1 \in 0..MaxLosses
      BY <1>1, <1>16, ConstantsOK DEF PowerLoss
    <3>2. QED BY <1>1, <1>16, <3>1 DEF PowerLoss, History
  <2>2. /\ dirs' \in Seq(Directory) \ {<< >>}
        /\ data' \in Seq(Versions \cup {Empty}) /\ DOMAIN data' = DOMAIN data
    BY <1>16, PowerLossType
  <2>3. pc' = "off" /\ queue' \in Seq(Versions) /\ pathSet' = FALSE /\ dirty' = {}
    BY <1>16 DEF PowerLoss, Stop
  <2>4. QED BY <2>1, <2>2, <2>3 DEF TypeOK, Places, Directory, BackupExists
<1>17. CASE UNCHANGED vars
  BY <1>17 DEF vars, TypeOK, BackupExists, View
<1>18. CASE WriteFails
  <2>1. Empty \in Versions \cup {Empty}
    OBVIOUS
  <2>2. /\ data' \in Seq(Versions \cup {Empty})
        /\ dirs' \in Seq(Directory') \ {<< >>} /\ dirty' \subseteq DOMAIN data'
    BY <1>18, <2>1, NewFileType DEF WriteFails, Names
  <2>3. history' \in History
    BY <1>18, ErrorType DEF WriteFails
  <2> QED BY <1>18, <2>2, <2>3 DEF WriteFails, TypeOK, Places, Directory, BackupExists
<1>19. CASE RepairFails
  <2>1. history' \in History
    BY <1>19, ErrorType DEF RepairFails
  <2> QED BY <1>19, <2>1 DEF RepairFails, TypeOK, Places, BackupExists, View
<1>20. QED BY <1>2, <1>3, <1>4, <1>5, <1>6, <1>7, <1>9, <1>10, <1>11, <1>12,
              <1>13, <1>14, <1>15, <1>16, <1>17, <1>18, <1>19 DEF Next

TypeInv == TypeOK /\ BackupExists /\ SavesQueued

LEMMA TypeInit == Init => TypeInv
<1> SUFFICES ASSUME Init PROVE TypeInv
  OBVIOUS
<1> DEFINE d == [n \in Names |-> IF n = "json" THEN 1 ELSE None]
<1>1. data = <<0>> /\ 0 \in Versions
  BY ConstantsOK DEF Init, Versions
<1>2. data \in Seq(Versions \cup {Empty}) /\ DOMAIN data = {1}
  BY <1>1
<1>3. d \in Directory
  BY <1>2 DEF Directory
<1>4. dirs = <<d>>
  BY DEF Init
<1> HIDE DEF d
<1>5. dirs \in Seq(Directory) \ {<< >>}
  BY <1>3, <1>4
<1>6. history \in History
  BY ConstantsOK DEF Init, History, Versions
<1>7. /\ pc = "off" /\ queue \in Seq(Versions) /\ pathSet = FALSE /\ dirty = {}
  BY DEF Init
<1>8. TypeOK
  BY <1>2, <1>5, <1>6, <1>7 DEF TypeOK, Directory, Places
<1>9. QED BY <1>7, <1>8 DEF TypeInv, BackupExists, SavesQueued, Saving

LEMMA TypeInvHolds == Spec => []TypeInv
<1>1. TypeInv /\ [Next]_vars => TypeInv'
  BY TypeStep, SavesQueuedStep DEF TypeInv
<1>2. QED BY <1>1, TypeInit, PTL DEF Spec

(* The types of the program's state and of the file system's hold in every
   reachable state, for every value of the constants. *)
THEOREM TypesStay == Spec => []TypeOK
<1>1. TypeInv => TypeOK
  BY DEF TypeInv
<1>2. QED BY <1>1, TypeInvHolds, PTL

-----------------------------------------------------------------------------
(* The order of the versions. *)

(* Versions are queued and saved in the order of the calls of saveParams: those
   queued are not older than the last one synced, and no file holds a version
   that was never handed in. *)
VersionsInOrder ==
  /\ history.synced <= history.saved
  /\ \A i \in DOMAIN queue : queue[i] \in history.synced..history.saved
  /\ \A i, j \in DOMAIN queue : i <= j => queue[i] <= queue[j]
  /\ \A f \in DOMAIN data : data[f] \in Versions => data[f] <= history.saved

(* Parameters are queued only while m_params is set. *)
Session ==
  /\ pathSet => pc \in Saving \cup {"idle"}
  /\ queue # << >> => pathSet

LEMMA HistoryType ==
  ASSUME TypeOK
  PROVE  history \in History /\ history.saved \in Nat /\ history.synced \in Nat
BY DEF TypeOK, History, Versions

(* The head of the queue is its first element; the tail keeps the order. *)
LEMMA QueueParts ==
  ASSUME TypeOK, queue # << >>
  PROVE  /\ 1 \in DOMAIN queue /\ Head(queue) = queue[1]
         /\ \A i \in DOMAIN Tail(queue) :
              /\ i \in Nat \ {0} /\ i + 1 \in DOMAIN queue
              /\ Tail(queue)[i] = queue[i + 1] /\ Tail(queue)[i] \in Nat
<1>1. queue \in Seq(Versions)
  BY DEF TypeOK
<1>2. /\ Len(queue) \in Nat \ {0} /\ DOMAIN queue = 1..Len(queue)
      /\ Tail(queue) \in Seq(Versions) /\ Len(Tail(queue)) = Len(queue) - 1
      /\ \A i \in 1..Len(Tail(queue)) : Tail(queue)[i] = queue[i + 1]
  BY <1>1, EmptySeq, LenProperties, HeadTailProperties
<1>3. DOMAIN Tail(queue) = 1..Len(Tail(queue))
  BY <1>2, LenProperties
<1>4. \A i \in DOMAIN Tail(queue) : Tail(queue)[i] \in Versions
  BY <1>2, <1>3, ElementOfSeq
<1>5. \A v \in Versions : v \in Nat
  BY DEF Versions
<1>6. Head(queue) = queue[1]
  BY <1>1
<1>7. QED BY <1>2, <1>3, <1>4, <1>5, <1>6

(* Dequeuing keeps the order, whether the version was synced or given up. *)
LEMMA TailInOrder ==
  ASSUME TypeOK, VersionsInOrder, queue # << >>, queue' = Tail(queue), data' = data,
         history'.saved = history.saved,
         history'.synced \in {history.synced, Head(queue)}
  PROVE  VersionsInOrder'
<1>1. /\ history.saved \in Nat /\ history.synced \in Nat
  BY HistoryType
<1>2. /\ 1 \in DOMAIN queue /\ Head(queue) = queue[1]
      /\ queue[1] \in history.synced..history.saved
  BY QueueParts DEF VersionsInOrder
<1>3. /\ history.synced <= history'.synced /\ history'.synced <= queue[1]
      /\ history'.synced \in Nat /\ queue[1] \in Nat /\ queue[1] <= history.saved
  BY <1>1, <1>2 DEF VersionsInOrder
<1>4. ASSUME NEW i \in DOMAIN queue'
      PROVE  queue'[i] \in history'.synced..history.saved
  <2>1. i \in Nat \ {0} /\ i + 1 \in DOMAIN queue /\ queue'[i] = queue[i + 1]
    BY <1>4, QueueParts
  <2>2. queue[1] <= queue[i + 1] /\ queue[i + 1] \in history.synced..history.saved
    BY <1>2, <2>1 DEF VersionsInOrder
  <2>3. QED BY <1>1, <1>3, <2>1, <2>2
<1>5. ASSUME NEW i \in DOMAIN queue', NEW j \in DOMAIN queue', i <= j
      PROVE  queue'[i] <= queue'[j]
  <2>1. /\ i \in Nat \ {0} /\ i + 1 \in DOMAIN queue /\ queue'[i] = queue[i + 1]
        /\ j \in Nat \ {0} /\ j + 1 \in DOMAIN queue /\ queue'[j] = queue[j + 1]
    BY <1>5, QueueParts
  <2>2. i + 1 <= j + 1
    BY <1>5, <2>1
  <2>3. QED BY <2>1, <2>2 DEF VersionsInOrder
<1>6. history'.synced <= history'.saved
  BY <1>1, <1>3
<1>7. \A f \in DOMAIN data' : data'[f] \in Versions => data'[f] <= history'.saved
  BY DEF VersionsInOrder
<1>8. QED BY <1>4, <1>5, <1>6, <1>7 DEF VersionsInOrder

(* A new file holds a version that was handed in. *)
LEMMA NewFileInOrder ==
  ASSUME TypeOK, VersionsInOrder, NEW n \in Names, NEW c \in Versions \cup {Empty},
         NewFile(n, c), c \in Versions => c <= history.saved, queue' = queue,
         history'.saved = history.saved, history'.synced = history.synced
  PROVE  VersionsInOrder'
<1>1. \A f \in DOMAIN data' :
        (f \in DOMAIN data /\ data'[f] = data[f]) \/ data'[f] = c
  BY NewFileType
<1>2. QED BY <1>1 DEF VersionsInOrder

LEMMA OrderStep ==
  ASSUME TypeInv, VersionsInOrder, [Next]_vars
  PROVE  VersionsInOrder'
<1> USE DEF TypeInv
<1>1. history.saved \in Nat /\ history.synced \in Nat /\ history \in History
  BY HistoryType
<1>2. CASE SaveParams
  <2> DEFINE v == history.saved + 1
  <2>1. v \in Versions /\ queue \in Seq(Versions)
    BY <1>1, <1>2, ConstantsOK DEF SaveParams, Versions, TypeOK
  <2>2. queue' = Append(queue, v) /\ data' = data
    BY <1>2 DEF SaveParams
  <2>3. history'.saved = v /\ history'.synced = history.synced
    BY <1>1, <1>2 DEF SaveParams, History
  <2>4. Len(queue) \in Nat /\ DOMAIN queue = 1..Len(queue)
    BY <2>1, LenProperties
  <2>5. v \in Nat /\ history.saved <= v /\ history.synced <= v
    BY <1>1 DEF VersionsInOrder
  <2> HIDE DEF v
  <2>6. /\ \A i \in DOMAIN queue : queue'[i] = queue[i]
        /\ queue'[Len(queue) + 1] = v
        /\ \A i \in DOMAIN queue' : i \in DOMAIN queue \/ i = Len(queue) + 1
    BY <2>1, <2>2, Appended
  <2>7. \A i \in DOMAIN queue : /\ queue[i] \in history.synced..v /\ queue[i] <= v
                                /\ queue[i] \in Nat
    BY <1>1, <2>5 DEF VersionsInOrder
  <2>8. \A i \in DOMAIN queue' : queue'[i] \in history.synced..v
    BY <1>1, <2>5, <2>6, <2>7
  <2>9. ASSUME NEW i \in DOMAIN queue', NEW j \in DOMAIN queue', i <= j
        PROVE  queue'[i] <= queue'[j]
    <3>1. CASE j = Len(queue) + 1
      BY <2>5, <2>6, <2>7, <3>1
    <3>2. CASE j \in DOMAIN queue
      <4>1. i \in DOMAIN queue
        BY <2>4, <2>6, <2>9, <3>2
      <4>2. QED BY <2>6, <2>9, <3>2, <4>1 DEF VersionsInOrder
    <3>3. QED BY <2>6, <3>1, <3>2
  <2>10. \A f \in DOMAIN data : data[f] \in Versions => data[f] <= v
    <3> SUFFICES ASSUME NEW f \in DOMAIN data, data[f] \in Versions PROVE data[f] <= v
      OBVIOUS
    <3>1. data[f] <= history.saved /\ data[f] \in Nat
      BY DEF VersionsInOrder, Versions
    <3>2. QED BY <1>1, <2>5, <3>1
  <2>11. QED BY <2>2, <2>3, <2>5, <2>8, <2>9, <2>10 DEF VersionsInOrder
<1>3. CASE WriteTmp
  <2>1. Head(queue) \in Versions /\ Head(queue) <= history.saved
    BY <1>1, <1>3, QueueType, QueueParts DEF WriteTmp, VersionsInOrder
  <2>2. history'.saved = history.saved /\ history'.synced = history.synced
    BY <1>1, <1>3 DEF WriteTmp, History
  <2>3. QED BY <1>3, <2>1, <2>2, NewFileInOrder DEF WriteTmp, Names
<1>4. CASE CopyBack
  <2>1. View["back"] \in DOMAIN data /\ Contents("back") = data[View["back"]]
    BY <1>4, ViewType DEF CopyBack, BackupExists, Directory, Names, Exists, Contents
  <2>2. Contents("back") \in Versions \cup {Empty}
    BY <2>1, ElementOfSeq, LenProperties DEF TypeOK
  <2>3. Contents("back") \in Versions => Contents("back") <= history.saved
    BY <2>1 DEF VersionsInOrder
  <2>4. QED BY <1>4, <2>2, <2>3, NewFileInOrder DEF CopyBack, Names
<1>5. CASE Sync \/ NothingToBackUp \/ OperationFails
  <2>1. queue # << >> /\ queue' = Tail(queue) /\ data' = data
    BY <1>5 DEF Sync, NothingToBackUp, OperationFails, SavesQueued, Saving
  <2>2. history'.saved = history.saved /\ history'.synced \in {history.synced, Head(queue)}
    BY <1>1, <1>5, ErrorType DEF Sync, NothingToBackUp, OperationFails, History
  <2>3. QED BY <2>1, <2>2, TailInOrder
<1>6. CASE Kill \/ PowerLoss
  <2>1. queue' = << >> /\ history'.saved = history.saved /\ history'.synced = history.synced
    BY <1>1, <1>6 DEF Kill, PowerLoss, Stop, History
  <2>2. DOMAIN data' = DOMAIN data /\ \A f \in DOMAIN data : data'[f] \in {data[f], Empty}
    BY <1>6 DEF Kill, PowerLoss
  <2>3. Empty \notin Versions
    BY ConstantsOK DEF Versions
  <2>4. \A f \in DOMAIN data' : data'[f] \in Versions => data'[f] <= history'.saved
    BY <2>1, <2>2, <2>3 DEF VersionsInOrder
  <2>5. DOMAIN queue' = {}
    BY <2>1
  <2>6. QED BY <2>1, <2>4, <2>5 DEF VersionsInOrder
<1>7. CASE Start \/ CheckConfigFile \/ LoadParams \/ RemoveBack \/ RenameJson
           \/ RenameTmp \/ WriteBackDirectory \/ WriteBackFile \/ UNCHANGED vars
  BY <1>7 DEF Start, CheckConfigFile, LoadParams, RemoveBack, RenameJson, RenameTmp,
              WriteBackDirectory, WriteBackFile, vars, VersionsInOrder
<1>8. CASE WriteFails
  <2>1. Empty \in Versions \cup {Empty} /\ Empty \notin Versions
    BY ConstantsOK DEF Versions
  <2>2. history'.saved = history.saved /\ history'.synced = history.synced
    BY <1>8, ErrorType DEF WriteFails
  <2> QED BY <1>8, <2>1, <2>2, NewFileInOrder DEF WriteFails, Names
<1>9. CASE RepairFails
  <2>1. history'.saved = history.saved /\ history'.synced = history.synced
    BY <1>9, ErrorType DEF RepairFails
  <2> QED BY <1>9, <2>1 DEF RepairFails, VersionsInOrder
<1>10. QED BY <1>2, <1>3, <1>4, <1>5, <1>6, <1>7, <1>8, <1>9 DEF Next

LEMMA SessionStep ==
  ASSUME TypeInv, Session, [Next]_vars
  PROVE  Session'
<1> USE DEF Session, Saving
<1>1. CASE Start \/ CheckConfigFile \/ CopyBack \/ LoadParams \/ SaveParams
           \/ WriteTmp \/ RemoveBack \/ RenameJson \/ RenameTmp
           \/ WriteFails \/ RepairFails
  BY <1>1 DEF Start, CheckConfigFile, CopyBack, LoadParams, SaveParams, MaySave,
              WriteTmp, RemoveBack, RenameJson, RenameTmp, WriteFails, RepairFails
<1>2. CASE Sync \/ NothingToBackUp \/ OperationFails
  BY <1>2 DEF Sync, NothingToBackUp, OperationFails, TypeInv, SavesQueued
<1>3. CASE Kill \/ PowerLoss \/ WriteBackDirectory \/ WriteBackFile \/ UNCHANGED vars
  BY <1>3 DEF Kill, PowerLoss, Stop, WriteBackDirectory, WriteBackFile, vars
<1>4. QED BY <1>1, <1>2, <1>3 DEF Next

-----------------------------------------------------------------------------
(* What survives. *)

(* A file with a version as new as the last one synced; one that no power loss
   can spoil. *)
Fresh(f) == data[f] \in Versions /\ history.synced <= data[f]

Solid(f) == f # None /\ f \notin dirty /\ Fresh(f)

(* Whatever data are lost, from directory d comes back a fresh parameter file,
   or a fresh backup that checkConfigFile uses, as the parameter file is empty,
   or may turn out empty, or is missing in the middle of a save or a repair. *)
Recoverable(d) ==
  \/ Solid(d["json"])
  \/ /\ Solid(d["back"])
     /\ \/ d["json"] = None
        \/ data[d["json"]] = Empty
        \/ d["json"] \in dirty /\ Fresh(d["json"])

TmpIsHead == View["tmp"] # None /\ data[View["tmp"]] = Head(queue)

(* What a repair and a save know of the files between their operations. *)
PlaceInv ==
  /\ pc = "repair" => View["json"] = None
  /\ pathSet /\ pc = "idle" => Contents("json") \in Versions
  /\ pc \in {"written", "removed"} => Solid(View["json"]) /\ TmpIsHead
  /\ pc = "backed" => View["json"] = None /\ TmpIsHead
  /\ pc = "renamed" => Contents("json") = Head(queue) /\ Solid(View["back"])

AllRecoverable == \A k \in DOMAIN dirs : Recoverable(dirs[k])

RecoveryInv == Calm => AllRecoverable /\ PlaceInv

(* A directory stays recoverable while no data is lost: no step but a sync
   raises the mark that makes a version fresh. *)
LEMMA DirectoryKept ==
  ASSUME TypeOK, NEW d \in Directory, Recoverable(d),
         \A f \in DOMAIN data : /\ f \in DOMAIN data' /\ data'[f] = data[f]
                                /\ f \in dirty' => f \in dirty,
         history'.synced = history.synced
  PROVE  Recoverable(d)'
<1>1. /\ d["json"] \in DOMAIN data \cup {None} /\ d["back"] \in DOMAIN data \cup {None}
  BY DEF Directory, Names
<1>2. ASSUME NEW f \in DOMAIN data \cup {None}, Solid(f) PROVE Solid(f)'
  BY <1>2 DEF Solid, Fresh
<1>3. CASE Solid(d["json"])
  <2>1. Solid(d["json"])'
    BY <1>1, <1>2, <1>3
  <2>2. QED BY <2>1 DEF Recoverable
<1>4. CASE ~Solid(d["json"])
  <2>1. Solid(d["back"])'
    BY <1>1, <1>2, <1>4 DEF Recoverable
  <2>2. CASE d["json"] = None
    BY <2>1, <2>2 DEF Recoverable
  <2>3. CASE d["json"] # None /\ data[d["json"]] = Empty
    <3>1. data'[d["json"]] = Empty
      BY <1>1, <2>3
    <3>2. QED BY <2>1, <3>1 DEF Recoverable
  <2>4. CASE d["json"] # None /\ d["json"] \in dirty /\ Fresh(d["json"])
    <3>1. Fresh(d["json"])'
      BY <1>1, <2>4 DEF Fresh
    <3>2. CASE d["json"] \in dirty'
      BY <2>1, <3>1, <3>2 DEF Recoverable
    <3>3. CASE d["json"] \notin dirty'
      BY <2>4, <3>1, <3>3 DEF Recoverable, Solid
    <3>4. QED BY <3>2, <3>3
  <2>5. QED BY <1>4, <2>2, <2>3, <2>4 DEF Recoverable
<1>5. QED BY <1>3, <1>4

(* All directories stay recoverable if the only new one is. *)
LEMMA DirectoriesKept ==
  ASSUME TypeOK, AllRecoverable, NEW d,
         \A k \in DOMAIN dirs' : dirs'[k] = d \/ \E j \in DOMAIN dirs : dirs'[k] = dirs[j],
         Recoverable(d)',
         \A f \in DOMAIN data : /\ f \in DOMAIN data' /\ data'[f] = data[f]
                                /\ f \in dirty' => f \in dirty,
         history'.synced = history.synced
  PROVE  AllRecoverable'
<1>1. ASSUME NEW e, \E j \in DOMAIN dirs : e = dirs[j] PROVE Recoverable(e)'
  <2>1. e \in Directory /\ Recoverable(e)
    BY <1>1, ViewType DEF AllRecoverable
  <2>2. QED BY <2>1, DirectoryKept
<1>2. ASSUME NEW k \in DOMAIN dirs' PROVE Recoverable(dirs[k])'
  <2>1. PICK e : e = dirs'[k]
    OBVIOUS
  <2>2. Recoverable(e)'
    <3>1. CASE e = d
      BY <3>1
    <3>2. CASE e # d
      BY <1>1, <2>1, <3>2
    <3>3. QED BY <3>1, <3>2
  <2>3. QED BY <2>1, <2>2
<1>3. QED BY <1>2 DEF AllRecoverable

LEMMA StillRecoverable ==
  ASSUME TypeOK, AllRecoverable, data' = data, dirty' \subseteq dirty,
         history'.synced = history.synced,
         \A k \in DOMAIN dirs' : \E j \in DOMAIN dirs : dirs'[k] = dirs[j]
  PROVE  AllRecoverable'
<1>1. PICK d \in Directory : d = View
  BY ViewType
<1>2. \A f \in DOMAIN data : /\ f \in DOMAIN data' /\ data'[f] = data[f]
                             /\ f \in dirty' => f \in dirty
  OBVIOUS
<1>3. Recoverable(d)
  BY <1>1, ViewType DEF AllRecoverable, View
<1>4. Recoverable(d)'
  BY <1>2, <1>3, DirectoryKept
<1>5. QED BY <1>2, <1>4, DirectoriesKept

(* One operation on the directory, with no data written or lost. *)
LEMMA ChangeRecoverable ==
  ASSUME TypeOK, AllRecoverable, NEW d \in Directory, Change(d), data' = data,
         dirty' = dirty, history' = history, Recoverable(d)
  PROVE  AllRecoverable' /\ View' = d
<1>1. Recoverable(d)'
  BY DirectoryKept
<1>2. \A f \in DOMAIN data : /\ f \in DOMAIN data' /\ data'[f] = data[f]
                             /\ f \in dirty' => f \in dirty
  OBVIOUS
<1>3. /\ View' = d
      /\ \A k \in DOMAIN dirs' : dirs'[k] = d \/ \E j \in DOMAIN dirs : dirs'[k] = dirs[j]
  BY ChangeType
<1>4. QED BY <1>1, <1>2, <1>3, DirectoriesKept

(* The three names of a directory after it has changed. *)
LEMMA ChangedNames ==
  ASSUME TypeOK
  PROVE  /\ View["json"] \in DOMAIN data \cup {None}
         /\ View["back"] \in DOMAIN data \cup {None}
         /\ View["tmp"] \in DOMAIN data \cup {None}
         /\ \A n \in Names : \A x :
              /\ [View EXCEPT ![n] = x][n] = x
              /\ \A m \in Names \ {n} : [View EXCEPT ![n] = x][m] = View[m]
BY ViewType DEF Directory, Names

(* A view from which the program starts with fresh parameters. *)
LEMMA ViewRecoverable ==
  ASSUME TypeOK, AllRecoverable
  PROVE  /\ Recoverable(View)
         /\ Contents("json") \in Versions => Fresh(View["json"]) /\ View["json"] # None
<1>1. Recoverable(View)
  BY ViewType DEF AllRecoverable, View
<1>2. ASSUME Contents("json") \in Versions
      PROVE  Fresh(View["json"]) /\ View["json"] # None
  <2>1. None \notin Versions /\ Empty \notin Versions
    BY ConstantsOK DEF Versions
  <2>2. View["json"] # None /\ data[View["json"]] \in Versions
    BY <1>2, <2>1 DEF Contents, Exists
  <2>3. QED BY <1>1, <2>1, <2>2 DEF Recoverable, Solid
<1>3. QED BY <1>1, <1>2

(* No step makes a run calm again. *)
LEMMA CalmStep ==
  ASSUME TypeOK, [Next]_vars, Calm'
  PROVE  Calm
<1>1. /\ history \in History /\ history.errors \in Nat /\ history.hasty \in BOOLEAN
  BY DEF TypeOK, History
<1>2. CASE history' = history
  BY <1>2 DEF Calm
<1>3. CASE OperationFails \/ WriteFails \/ RepairFails
  BY <1>3, FailureIsNotCalm
<1>4. CASE WriteTmp
  BY <1>1, <1>4 DEF WriteTmp, Calm, History
<1>5. CASE SaveParams \/ Sync \/ Kill \/ PowerLoss
  BY <1>1, <1>5 DEF SaveParams, Sync, Kill, PowerLoss, Calm, History
<1>6. QED
  BY <1>2, <1>3, <1>4, <1>5 DEF Next, vars, Start, CheckConfigFile, CopyBack, LoadParams,
     RemoveBack, RenameJson, RenameTmp, NothingToBackUp, WriteBackDirectory, WriteBackFile

(* The operations of a save. *)
LEMMA SaveKeepsRecoverable ==
  ASSUME TypeInv, VersionsInOrder, Session, AllRecoverable, PlaceInv,
         RemoveBack \/ RenameJson \/ RenameTmp
  PROVE  AllRecoverable' /\ PlaceInv'
<1> USE DEF TypeInv
<1>1. CASE RemoveBack
  <2>1. Solid(View["json"]) /\ TmpIsHead /\ pc' = "removed"
    BY <1>1 DEF RemoveBack, PlaceInv
  <2>2. UNCHANGED <<queue, pathSet, data, dirty, history>>
    BY <1>1 DEF RemoveBack
  <2>3. CASE Exists("back")
    <3>1. PICK d : d = [View EXCEPT !["back"] = None]
      OBVIOUS
    <3>2. d \in Directory /\ Change(d)
      BY <1>1, <2>3, <3>1, RemoveType DEF RemoveBack, Remove, Names
    <3>3. d["json"] = View["json"] /\ d["tmp"] = View["tmp"]
      BY <3>1, ChangedNames DEF Names
    <3>4. Recoverable(d)
      BY <2>1, <3>3 DEF Recoverable
    <3>5. AllRecoverable' /\ View' = d
      BY <2>2, <3>2, <3>4, ChangeRecoverable
    <3>6. QED BY <2>1, <2>2, <3>3, <3>5 DEF PlaceInv, Solid, Fresh, TmpIsHead
  <2>4. CASE ~Exists("back")
    <3>1. dirs' = dirs
      BY <1>1, <2>4 DEF RemoveBack
    <3>2. AllRecoverable'
      BY <2>2, <3>1, StillRecoverable
    <3>3. View' = View
      BY <3>1 DEF View
    <3>4. QED BY <2>1, <2>2, <3>2, <3>3 DEF PlaceInv, Solid, Fresh, TmpIsHead
  <2>5. QED BY <2>3, <2>4
<1>2. CASE RenameJson
  <2>1. Solid(View["json"]) /\ TmpIsHead /\ pc' = "backed"
    BY <1>2 DEF RenameJson, PlaceInv
  <2>2. UNCHANGED <<queue, pathSet, data, dirty, history>>
    BY <1>2 DEF RenameJson
  <2>3. PICK d : d = [View EXCEPT !["back"] = View["json"], !["json"] = None]
    OBVIOUS
  <2>4. d \in Directory /\ Change(d)
    BY <1>2, <2>3, RemoveType DEF RenameJson, Rename, Names
  <2>5. d["json"] = None /\ d["tmp"] = View["tmp"] /\ d["back"] = View["json"]
    BY <2>3, ViewType DEF Directory, Names
  <2>6. Recoverable(d)
    BY <2>1, <2>5 DEF Recoverable
  <2>7. AllRecoverable' /\ View' = d
    BY <2>2, <2>4, <2>6, ChangeRecoverable
  <2>8. QED BY <2>1, <2>2, <2>5, <2>7 DEF PlaceInv, TmpIsHead
<1>3. CASE RenameTmp
  <2>1. View["json"] = None /\ TmpIsHead /\ pc' = "renamed"
    BY <1>3 DEF RenameTmp, PlaceInv
  <2>2. UNCHANGED <<queue, pathSet, data, dirty, history>>
    BY <1>3 DEF RenameTmp
  <2>3. PICK d : d = [View EXCEPT !["json"] = View["tmp"], !["tmp"] = None]
    OBVIOUS
  <2>4. d \in Directory /\ Change(d)
    BY <1>3, <2>3, RemoveType DEF RenameTmp, Rename, Names
  <2>5. d["json"] = View["tmp"] /\ d["back"] = View["back"]
    BY <2>3, ViewType DEF Directory, Names
  <2>6. Solid(View["back"])
    BY <2>1, ViewRecoverable DEF Recoverable, Solid
  <2>7. Fresh(View["tmp"]) /\ View["tmp"] # None /\ data[View["tmp"]] = Head(queue)
    <3>1. queue # << >>
      BY <1>3 DEF RenameTmp, SavesQueued, Saving
    <3>2. Head(queue) \in Versions /\ Head(queue) \in history.synced..history.saved
      BY <3>1, QueueType, QueueParts DEF VersionsInOrder
    <3>3. QED BY <2>1, <3>2, HistoryType DEF TmpIsHead, Fresh
  <2>8. Recoverable(d)
    BY <2>5, <2>6, <2>7 DEF Recoverable, Solid
  <2>9. AllRecoverable' /\ View' = d
    BY <2>2, <2>4, <2>8, ChangeRecoverable
  <2>10. Solid(View["back"])' /\ Contents("json")' = Head(queue')
    BY <2>2, <2>5, <2>6, <2>7, <2>9 DEF Solid, Fresh, Contents, Exists
  <2>11. QED BY <2>1, <2>9, <2>10 DEF PlaceInv
<1>4. QED BY <1>1, <1>2, <1>3

(* A file is written: the .tmp file of a save that begins, or the parameter
   file of a repair. *)
LEMMA NewFileRecoverable ==
  ASSUME TypeOK, AllRecoverable, NEW n \in Names, NEW c \in Versions \cup {Empty},
         NewFile(n, c), history'.synced = history.synced,
         \/ n = "tmp"
         \/ /\ n = "json" /\ c \in Versions /\ history.synced <= c
            /\ Solid(View["back"])
  PROVE  /\ AllRecoverable'
         /\ \A f \in DOMAIN data : Solid(f) => Solid(f)'
         /\ View'[n] = Len(data) + 1 /\ View'[n] # None /\ data'[View'[n]] = c
         /\ \A m \in Names \ {n} : View'[m] = View[m]
<1>0. PICK new : new = Len(data) + 1
  OBVIOUS
<1>1. PICK d : d = [View EXCEPT ![n] = new]
  OBVIOUS
<1>2. /\ new \notin DOMAIN data /\ new # None /\ new \in DOMAIN data'
      /\ View' = d /\ data'[new] = c
      /\ \A f \in DOMAIN data : f \in DOMAIN data' /\ data'[f] = data[f]
      /\ \A k \in DOMAIN dirs' : dirs'[k] = d \/ \E j \in DOMAIN dirs : dirs'[k] = dirs[j]
  BY <1>0, <1>1, NewFileType
<1>3. /\ d[n] = new
      /\ \A m \in Names \ {n} : d[m] = View[m]
  BY <1>1, ViewType DEF Directory
<1>4. dirty' \subseteq dirty \cup {new} /\ (c # Empty => new \in dirty')
  BY <1>0 DEF NewFile
<1>5. \A f \in DOMAIN data : /\ f \in DOMAIN data' /\ data'[f] = data[f]
                             /\ f \in dirty' => f \in dirty
  BY <1>2, <1>4
<1>6. ASSUME NEW f \in DOMAIN data, Solid(f) PROVE Solid(f)'
  BY <1>5, <1>6 DEF Solid, Fresh
<1>7. Recoverable(d)'
  <2>1. CASE n = "tmp"
    <3>1. PICK e \in Directory : e = View
      BY ViewType
    <3>2. Recoverable(e)
      BY <3>1, ViewRecoverable
    <3>3. Recoverable(e)'
      BY <1>5, <3>2, DirectoryKept
    <3>4. d["json"] = e["json"] /\ d["back"] = e["back"]
      BY <1>3, <2>1, <3>1 DEF Names
    <3>5. QED BY <3>3, <3>4 DEF Recoverable
  <2>2. CASE /\ n = "json" /\ c \in Versions /\ history.synced <= c
             /\ Solid(View["back"])
    <3>1. d["json"] = new /\ d["back"] = View["back"] /\ View["back"] \in DOMAIN data
      BY <1>3, <2>2, ChangedNames DEF Names, Solid
    <3>2. Solid(d["back"])'
      BY <1>6, <2>2, <3>1
    <3>3. new \in dirty'
      BY <1>4, <2>2, ConstantsOK DEF Versions
    <3>4. Fresh(new)'
      BY <1>2, <2>2 DEF Fresh
    <3>5. QED BY <3>1, <3>2, <3>3, <3>4 DEF Recoverable
  <2>3. QED BY <2>1, <2>2
<1>8. AllRecoverable'
  BY <1>2, <1>5, <1>7, DirectoriesKept
<1>9. QED BY <1>0, <1>2, <1>3, <1>6, <1>8

(* A power loss: the files not on disk may be empty, and the disk has one of
   the directories. *)
LEMMA PowerLossRecoverable ==
  ASSUME TypeOK, AllRecoverable, PowerLoss
  PROVE  AllRecoverable'
<1>1. PICK k \in DOMAIN dirs, lost \in SUBSET dirty :
        /\ View' = dirs[k] /\ DOMAIN dirs' = {1} /\ dirs' = <<dirs[k]>>
        /\ data' = [f \in DOMAIN data |-> IF f \in lost THEN Empty ELSE data[f]]
  BY PowerLossType
<1>2. PICK d \in Directory : d = dirs[k]
  BY ViewType
<1>3. dirty' = {} /\ history'.synced = history.synced
  BY DEF PowerLoss, TypeOK, History
<1>4. Recoverable(d)
  BY <1>2 DEF AllRecoverable
<1>5. d["json"] \in DOMAIN data \cup {None} /\ d["back"] \in DOMAIN data \cup {None}
  BY DEF Directory, Names
<1>6. ASSUME NEW f \in DOMAIN data \cup {None}, Solid(f) PROVE Solid(f)'
  <2>1. f \in DOMAIN data /\ f \notin lost /\ f # None
    BY <1>6 DEF Solid
  <2>2. data'[f] = data[f]
    BY <1>1, <2>1
  <2>3. QED BY <1>3, <1>6, <2>1, <2>2 DEF Solid, Fresh
<1>7. Recoverable(d)'
  <2>1. CASE Solid(d["json"])
    <3>1. Solid(d["json"])'
      BY <1>5, <1>6, <2>1
    <3>2. QED BY <3>1 DEF Recoverable
  <2>2. CASE ~Solid(d["json"])
    <3>1. Solid(d["back"])'
      BY <1>4, <1>5, <1>6, <2>2 DEF Recoverable
    <3>2. CASE d["json"] = None
      BY <3>1, <3>2 DEF Recoverable
    <3>3. CASE d["json"] # None /\ (data[d["json"]] = Empty \/ d["json"] \in lost)
      <4>1. data'[d["json"]] = Empty
        BY <1>1, <1>5, <3>3
      <4>2. QED BY <3>1, <4>1 DEF Recoverable
    <3>4. CASE d["json"] # None /\ d["json"] \notin lost /\ Fresh(d["json"])
      <4>1. data'[d["json"]] = data[d["json"]]
        BY <1>1, <1>5, <3>4
      <4>2. Solid(d["json"])'
        BY <1>3, <3>4, <4>1 DEF Solid, Fresh
      <4>3. QED BY <4>2 DEF Recoverable
    <3>5. QED BY <1>4, <2>2, <3>2, <3>3, <3>4 DEF Recoverable
  <2>3. QED BY <2>1, <2>2
<1>8. \A j \in DOMAIN dirs' : dirs'[j] = d
  BY <1>1, <1>2
<1>9. QED BY <1>7, <1>8 DEF AllRecoverable

(* The sync: the directory and every file are on disk, and the version saved is
   the one that fresh files must have from now on. *)
LEMMA SyncRecoverable ==
  ASSUME TypeInv, VersionsInOrder, AllRecoverable, PlaceInv, Sync
  PROVE  AllRecoverable' /\ Contents("json")' \in Versions /\ View' = View
<1> USE DEF TypeInv
<1>1. Contents("json") = Head(queue) /\ queue # << >>
  BY DEF Sync, PlaceInv, SavesQueued, Saving
<1>2. Head(queue) \in Versions
  BY <1>1, QueueType
<1>3. View["json"] # None /\ data[View["json"]] = Head(queue)
  BY <1>1, <1>2, ConstantsOK DEF Contents, Exists, Versions
<1>4. data' = data /\ dirty' = {} /\ history'.synced = Head(queue)
  BY DEF Sync, TypeOK, History
<1>5. PICK d \in Directory : d = View
  BY ViewType
<1>6. dirs' = <<d>>
  BY <1>5 DEF Sync
<1>7. View' = d /\ \A j \in DOMAIN dirs' : dirs'[j] = d
  BY <1>6 DEF View
<1>8. Head(queue) <= Head(queue)
  BY <1>2 DEF Versions
<1>9. Solid(d["json"])'
  BY <1>2, <1>3, <1>4, <1>5, <1>8 DEF Solid, Fresh
<1>10. Recoverable(d)'
  BY <1>9 DEF Recoverable
<1>11. AllRecoverable'
  BY <1>7, <1>10 DEF AllRecoverable
<1>12. Contents("json")' \in Versions
  BY <1>2, <1>3, <1>4, <1>5, <1>7 DEF Contents, Exists
<1>13. QED BY <1>5, <1>7, <1>11, <1>12

LEMMA RecoveryStep ==
  ASSUME TypeInv, VersionsInOrder, Session, RecoveryInv, [Next]_vars
  PROVE  RecoveryInv'
<1> SUFFICES ASSUME Calm' PROVE AllRecoverable' /\ PlaceInv'
  BY DEF RecoveryInv
<1> USE DEF TypeInv
<1>1. AllRecoverable /\ PlaceInv
  BY CalmStep DEF RecoveryInv
<1>2. history \in History /\ history.synced \in Nat
  BY HistoryType
<1>3. Empty \notin Versions /\ None \notin Versions
  BY ConstantsOK DEF Versions
<1>4. CASE Start \/ LoadParams \/ (CheckConfigFile /\ ~NeedsRepair)
  <2>1. UNCHANGED <<dirs, data, dirty, history>>
    BY <1>4 DEF Start, LoadParams, CheckConfigFile
  <2>2. AllRecoverable'
    BY <1>1, <2>1, StillRecoverable
  <2>3. Contents("json")' = Contents("json")
    BY <2>1 DEF Contents, Exists, View
  <2>4. CASE LoadParams
    BY <2>2, <2>3, <2>4 DEF LoadParams, PlaceInv
  <2>5. CASE ~LoadParams
    BY <1>4, <2>2, <2>5 DEF Start, CheckConfigFile, PlaceInv
  <2>6. QED BY <2>4, <2>5
<1>5. CASE CheckConfigFile /\ NeedsRepair
  <2>1. PICK d : d = [View EXCEPT !["json"] = None]
    OBVIOUS
  <2>2. /\ d \in Directory /\ Change(d) /\ pc' = "repair"
        /\ UNCHANGED <<queue, pathSet, data, dirty, history>>
    BY <1>5, <2>1, RemoveType DEF CheckConfigFile, Remove, Names
  <2>3. d["json"] = None /\ d["back"] = View["back"]
    BY <2>1, ChangedNames DEF Names
  <2>4. data[View["json"]] = Empty
    BY <1>5 DEF NeedsRepair, Contents
  <2>5. Solid(View["back"])
    BY <1>1, <1>3, <2>4, ViewRecoverable DEF Recoverable, Solid, Fresh
  <2>6. Recoverable(d)
    BY <2>3, <2>5 DEF Recoverable
  <2>7. AllRecoverable' /\ View' = d
    BY <1>1, <2>2, <2>6, ChangeRecoverable
  <2>8. QED BY <2>2, <2>3, <2>7 DEF PlaceInv
<1>6. CASE CopyBack
  <2>1. View["json"] = None /\ pc' = "load"
    BY <1>1, <1>6 DEF CopyBack, PlaceInv
  <2>2. Solid(View["back"])
    BY <1>1, <2>1, ViewRecoverable DEF Recoverable, Solid
  <2>3. Contents("back") \in Versions /\ history.synced <= Contents("back")
    BY <2>2 DEF Solid, Fresh, Contents, Exists
  <2>4. AllRecoverable'
    BY <1>1, <1>6, <2>2, <2>3, NewFileRecoverable DEF CopyBack, Names
  <2>5. QED BY <2>1, <2>4 DEF PlaceInv
<1>7. CASE SaveParams
  <2>1. UNCHANGED <<pc, pathSet, dirs, data, dirty>> /\ history'.synced = history.synced
    BY <1>2, <1>7 DEF SaveParams, History
  <2>2. AllRecoverable'
    BY <1>1, <2>1, StillRecoverable
  <2>3. View' = View
    BY <2>1 DEF View
  <2>4. pc \in Saving => Head(queue') = Head(queue)
    <3>1. history.saved + 1 \in Versions
      BY <1>2, <1>7, ConstantsOK, HistoryType DEF SaveParams, Versions
    <3>2. queue \in Seq(Versions) /\ queue' = Append(queue, history.saved + 1)
      BY <1>7 DEF SaveParams, TypeOK
    <3>3. ASSUME pc \in Saving PROVE Head(queue') = Head(queue)
      <4>1. queue # << >>
        BY <3>3 DEF SavesQueued
      <4>2. 1 \in DOMAIN queue /\ Head(queue) = queue[1]
        BY <4>1, QueueParts
      <4>3. queue' \in Seq(Versions) /\ queue' # << >> /\ queue'[1] = queue[1]
        BY <3>1, <3>2, <4>2, Appended
      <4>4. Head(queue') = queue'[1]
        BY <4>3
      <4>5. QED BY <4>2, <4>3, <4>4
    <3>4. QED BY <3>3
  <2>5. QED BY <1>1, <2>1, <2>2, <2>3, <2>4
            DEF PlaceInv, Solid, Fresh, TmpIsHead, Contents, Exists, Saving
<1>8. CASE WriteTmp
  <2>1. queue # << >> /\ NewFile("tmp", Head(queue)) /\ queue' = queue /\ pc' = "written"
        /\ pc = "idle"
    BY <1>8 DEF WriteTmp
  <2>2. Head(queue) \in Versions
    BY <2>1, QueueType
  <2>3. history'.synced = history.synced /\ dirty = {}
    BY <1>2, <1>8 DEF WriteTmp, History, Calm
  <2>4. Contents("json") \in Versions
    BY <1>1, <2>1 DEF PlaceInv, Session
  <2>5. Solid(View["json"]) /\ View["json"] \in DOMAIN data
    BY <1>1, <2>3, <2>4, ViewRecoverable, ChangedNames DEF Solid
  <2>6. /\ AllRecoverable' /\ Solid(View["json"])'
        /\ View'["tmp"] # None /\ data'[View'["tmp"]] = Head(queue)
    <3>1. PICK f \in DOMAIN data : f = View["json"]
      BY <2>5
    <3>2. /\ AllRecoverable' /\ Solid(f)' /\ View'["json"] = f
          /\ View'["tmp"] # None /\ data'[View'["tmp"]] = Head(queue)
      BY <1>1, <2>1, <2>2, <2>3, <2>5, <3>1, NewFileRecoverable DEF Names
    <3>3. QED BY <3>2 DEF Solid, Fresh
  <2>7. QED BY <2>1, <2>6 DEF PlaceInv, TmpIsHead
<1>9. CASE RemoveBack \/ RenameJson \/ RenameTmp
  BY <1>1, <1>9, SaveKeepsRecoverable
<1>10. CASE Sync
  <2>1. AllRecoverable' /\ Contents("json")' \in Versions /\ pc' = "idle"
    BY <1>1, <1>10, SyncRecoverable DEF Sync
  <2>2. QED BY <2>1 DEF PlaceInv
<1>11. CASE NothingToBackUp
  <2>1. Solid(View["json"])
    BY <1>1, <1>11 DEF NothingToBackUp, PlaceInv
  <2>2. QED BY <1>11, <2>1 DEF NothingToBackUp, Exists, Solid
<1>12. CASE OperationFails \/ WriteFails \/ RepairFails
  BY <1>12, FailureIsNotCalm
<1>13. CASE WriteBackDirectory \/ WriteBackFile \/ UNCHANGED vars
  <2>1. /\ UNCHANGED <<pc, queue, pathSet, data, history>> /\ View' = View
        /\ dirty' \subseteq dirty
        /\ \A k \in DOMAIN dirs' : \E j \in DOMAIN dirs : dirs'[k] = dirs[j]
    BY <1>13, WriteBackView DEF WriteBackDirectory, WriteBackFile, vars, View
  <2>2. AllRecoverable'
    BY <1>1, <2>1, StillRecoverable
  <2>3. QED BY <1>1, <2>1, <2>2
            DEF PlaceInv, Solid, Fresh, TmpIsHead, Contents, Exists
<1>14. CASE Kill
  <2>1. pc' = "off" /\ UNCHANGED <<dirs, data, dirty>> /\ history'.synced = history.synced
    BY <1>2, <1>14 DEF Kill, Stop, History
  <2>2. AllRecoverable'
    BY <1>1, <2>1, StillRecoverable
  <2>3. QED BY <2>1, <2>2 DEF PlaceInv
<1>15. CASE PowerLoss
  <2>1. AllRecoverable' /\ pc' = "off"
    BY <1>1, <1>15, PowerLossRecoverable DEF PowerLoss, Stop
  <2>2. QED BY <2>1 DEF PlaceInv
<1>16. QED BY <1>4, <1>5, <1>6, <1>7, <1>8, <1>9, <1>10, <1>11, <1>12, <1>13,
              <1>14, <1>15 DEF Next

RecoveryParts == TypeInv /\ VersionsInOrder /\ Session /\ RecoveryInv

LEMMA RecoveryInit == Init => RecoveryParts
<1> SUFFICES ASSUME Init PROVE RecoveryParts
  OBVIOUS
<1>1. TypeInv
  BY TypeInit
<1>2. VersionsInOrder /\ Session
  BY DEF Init, VersionsInOrder, Session, Saving
<1>3. View["json"] = 1 /\ \A k \in DOMAIN dirs : dirs[k] = View
  BY DEF Init, View, Names
<1>4. Solid(1)
  BY ConstantsOK DEF Init, Solid, Fresh, Versions
<1>5. Recoverable(View)
  BY <1>3, <1>4 DEF Recoverable
<1>6. AllRecoverable
  BY <1>3, <1>5 DEF AllRecoverable
<1>7. PlaceInv
  BY DEF Init, PlaceInv
<1>8. QED BY <1>1, <1>2, <1>6, <1>7 DEF RecoveryParts, RecoveryInv

LEMMA RecoveryHolds == Spec => []RecoveryParts
<1>1. RecoveryParts /\ [Next]_vars => RecoveryParts'
  <2>1. TypeInv /\ [Next]_vars => TypeInv'
    BY TypeStep, SavesQueuedStep DEF TypeInv
  <2>2. QED BY <2>1, OrderStep, SessionStep, RecoveryStep DEF RecoveryParts
<1>2. QED BY <1>1, RecoveryInit, PTL DEF Spec

(* Recovery: wherever in a save or a repair the power fails or the program is
   killed, and whatever data the disk had not got, a complete version of the
   parameters remains as the file or as its backup, provided that no file
   operation has failed and no save began before earlier data were on disk. *)
THEOREM CompleteCopyRemains == Spec => []CompleteCopySurvives
<1>1. RecoveryParts => CompleteCopySurvives
  <2> SUFFICES ASSUME RecoveryParts, Calm
               PROVE  \E n \in {"json", "back"} : Contents(n) \in Versions
    BY DEF CompleteCopySurvives
  <2>1. Recoverable(View)
    BY ViewRecoverable DEF RecoveryParts, RecoveryInv, TypeInv
  <2>2. QED BY <2>1 DEF Recoverable, Solid, Fresh, Contents, Exists
<1>2. QED BY <1>1, RecoveryHolds, PTL

(* Durability, under the same provisions: parameters that the program has loaded
   are not older than the last save that reached its sync. *)
THEOREM SavesAreNotForgotten == Spec => []SavedIsNotForgotten
<1>1. RecoveryParts => SavedIsNotForgotten
  <2> SUFFICES ASSUME RecoveryParts, Calm, pathSet, pc # "backed"
               PROVE  Contents("json") \in history.synced..history.saved
    BY DEF SavedIsNotForgotten
  <2>1. /\ TypeOK /\ AllRecoverable /\ PlaceInv /\ VersionsInOrder /\ Session
        /\ SavesQueued
    BY DEF RecoveryParts, RecoveryInv, TypeInv
  <2>2. Contents("json") \in Versions
    <3>1. CASE pc = "idle"
      BY <2>1, <3>1 DEF PlaceInv
    <3>2. CASE pc \in {"written", "removed"}
      BY <2>1, <3>2 DEF PlaceInv, Solid, Fresh, Contents, Exists
    <3>3. CASE pc = "renamed"
      BY <2>1, <3>3, QueueType DEF PlaceInv, SavesQueued, Saving
    <3>4. QED BY <2>1, <3>1, <3>2, <3>3 DEF Session, Saving
  <2>3. Fresh(View["json"]) /\ View["json"] # None /\ View["json"] \in DOMAIN data
    BY <2>1, <2>2, ViewRecoverable, ChangedNames
  <2>4. data[View["json"]] <= history.saved /\ Contents("json") = data[View["json"]]
    BY <2>1, <2>2, <2>3 DEF VersionsInOrder, Contents, Exists, Fresh
  <2>5. QED BY <2>1, <2>2, <2>3, <2>4, HistoryType DEF Fresh, Versions
<1>2. QED BY <1>1, RecoveryHolds, PTL

-----------------------------------------------------------------------------
(* The register. *)

(* The version that a start on directory d reads, or repairs from. *)
Latest(d) ==
  IF d["json"] # None /\ data[d["json"]] \in Versions THEN data[d["json"]]
  ELSE data[d["back"]]

(* The backup is not newer than the parameter file. *)
Sorted(d) ==
  \A n \in {"json", "back"} :
    d[n] # None /\ data[d[n]] \in Versions => data[d[n]] <= Latest(d)

(* What an earlier directory, come back, holds is not newer. *)
DirsBehind == \A k \in DOMAIN dirs : Sorted(dirs[k]) /\ Latest(dirs[k]) <= Stored

(* What waits to be saved is newer, but for the version just stored. *)
QueueAhead ==
  /\ \A i \in DOMAIN queue : IF pc = "renamed" /\ i = 1 THEN queue[i] = Stored
                             ELSE Stored < queue[i]
  /\ \A i, j \in DOMAIN queue : i < j => queue[i] < queue[j]

RegisterInv == Calm => DirsBehind /\ QueueAhead

(* A directory that is recoverable holds a version that is not forgotten. *)
LEMMA LatestType ==
  ASSUME TypeOK, NEW d, Recoverable(d)
  PROVE  /\ Latest(d) \in Versions /\ Latest(d) \in Nat
         /\ history.synced <= Latest(d)
<1>1. Latest(d) \in Versions /\ history.synced <= Latest(d)
  BY ConstantsOK DEF Recoverable, Solid, Fresh, Latest, Versions
<1>2. QED BY <1>1 DEF Versions

LEMMA StoredIsLatest ==
  ASSUME TypeInv, VersionsInOrder, AllRecoverable
  PROVE  /\ Stored = Latest(View) /\ Stored \in Nat /\ Stored \in Versions
         /\ history.synced <= Stored /\ Stored <= history.saved
<1> USE DEF TypeInv
<1>1. Recoverable(View)
  BY ViewRecoverable
<1>2. Latest(View) \in Versions /\ Latest(View) \in Nat /\ history.synced <= Latest(View)
  BY <1>1, LatestType
<1>3. Stored = Latest(View)
  <2>1. None \notin Versions
    BY ConstantsOK DEF Versions
  <2>2. (View["json"] # None /\ data[View["json"]] \in Versions) \/ View["back"] # None
    BY <1>1 DEF Recoverable, Solid, Fresh
  <2>3. QED BY <2>1, <2>2 DEF Stored, Latest, Contents, Exists
<1>4. \E f \in DOMAIN data : Latest(View) = data[f]
  <2>1. (View["json"] # None /\ data[View["json"]] \in Versions) \/ View["back"] # None
    BY <1>1 DEF Recoverable, Solid, Fresh
  <2>2. QED BY <2>1, ChangedNames DEF Latest
<1>5. QED BY <1>2, <1>3, <1>4 DEF VersionsInOrder

(* What a directory holds does not change while its files do not. *)
LEMMA LatestKept ==
  ASSUME TypeOK, NEW d \in Directory, Recoverable(d), Sorted(d),
         \A f \in DOMAIN data : data'[f] = data[f]
  PROVE  Latest(d)' = Latest(d) /\ Sorted(d)'
<1>1. /\ d["json"] # None => data'[d["json"]] = data[d["json"]]
      /\ d["back"] # None => data'[d["back"]] = data[d["back"]]
  BY DEF Directory, Names
<1>2. \/ d["back"] # None
      \/ d["json"] # None /\ data[d["json"]] \in Versions
  BY DEF Recoverable, Solid, Fresh
<1>3. Latest(d)' = Latest(d)
  BY <1>1, <1>2 DEF Latest
<1>4. Sorted(d)'
  BY <1>1, <1>3 DEF Sorted
<1>5. QED BY <1>3, <1>4

(* One new directory that holds nothing older keeps them all behind. *)
LEMMA StillBehind ==
  ASSUME TypeOK, AllRecoverable, DirsBehind, NEW d,
         \A f \in DOMAIN data : data'[f] = data[f],
         \A k \in DOMAIN dirs' : dirs'[k] = d \/ \E j \in DOMAIN dirs : dirs'[k] = dirs[j],
         Sorted(d)', Latest(d)' <= Stored', Stored <= Stored',
         Stored \in Nat, Stored' \in Nat
  PROVE  DirsBehind'
<1>1. ASSUME NEW e, \E j \in DOMAIN dirs : e = dirs[j]
      PROVE  Sorted(e)' /\ Latest(e)' <= Stored'
  <2>1. e \in Directory /\ Recoverable(e) /\ Sorted(e) /\ Latest(e) <= Stored
    BY <1>1, ViewType DEF AllRecoverable, DirsBehind
  <2>2. Latest(e)' = Latest(e) /\ Sorted(e)' /\ Latest(e) \in Nat
    BY <2>1, LatestKept, LatestType
  <2>3. QED BY <2>1, <2>2
<1>2. ASSUME NEW k \in DOMAIN dirs' PROVE Sorted(dirs[k])' /\ Latest(dirs[k])' <= Stored'
  <2>1. PICK e : e = dirs'[k]
    OBVIOUS
  <2>2. e = d \/ \E j \in DOMAIN dirs : e = dirs[j]
    BY <2>1
  <2>3. QED BY <1>1, <2>1, <2>2
<1>3. QED BY <1>2 DEF DirsBehind

(* A step that neither the directory nor the files notice. *)
LEMMA QuietRegister ==
  ASSUME TypeOK, AllRecoverable, DirsBehind, data' = data, View' = View, Stored \in Nat,
         \A k \in DOMAIN dirs' : \E j \in DOMAIN dirs : dirs'[k] = dirs[j]
  PROVE  DirsBehind' /\ Stored' = Stored
<1>1. Stored' = Stored
  BY DEF Stored, Contents, Exists
<1>2. PICK d : d = View
  OBVIOUS
<1>3. d \in Directory /\ Recoverable(d) /\ Sorted(d) /\ Latest(d) <= Stored
  BY <1>2, ViewType DEF AllRecoverable, DirsBehind, View
<1>4. Sorted(d)' /\ Latest(d)' = Latest(d)
  BY <1>3, LatestKept
<1>5. DirsBehind'
  BY <1>1, <1>3, <1>4, StillBehind
<1>6. QED BY <1>1, <1>5


LEMMA NextStoredIsLatest ==
  (TypeInv /\ VersionsInOrder /\ AllRecoverable)' =>
     (Stored = Latest(View) /\ Stored \in Nat)'
<1>1. TypeInv /\ VersionsInOrder /\ AllRecoverable => Stored = Latest(View) /\ Stored \in Nat
  BY StoredIsLatest
<1>2. QED BY <1>1, PTL

LEMMA NextStoredIsKept ==
  (TypeInv /\ VersionsInOrder /\ AllRecoverable)' =>
     (Stored \in Nat /\ history.synced <= Stored)'
<1>1. TypeInv /\ VersionsInOrder /\ AllRecoverable
        => Stored \in Nat /\ history.synced <= Stored
  BY StoredIsLatest
<1>2. QED BY <1>1, PTL

(* An operation on the directory only, to one that holds nothing older. *)
LEMMA ChangeBehind ==
  ASSUME TypeInv, VersionsInOrder, AllRecoverable, DirsBehind,
         (TypeInv /\ VersionsInOrder /\ AllRecoverable)',
         NEW d \in Directory, Change(d), data' = data, Sorted(d), Stored <= Latest(d)
  PROVE  DirsBehind' /\ Stored' = Latest(d)
<1> USE DEF TypeInv
<1>1. /\ View' = d
      /\ \A k \in DOMAIN dirs' : dirs'[k] = d \/ \E j \in DOMAIN dirs : dirs'[k] = dirs[j]
  BY ChangeType
<1>2. Latest(d)' = Latest(d) /\ Sorted(d)'
  BY DEF Latest, Sorted
<1>3. Stored' = Latest(d) /\ Stored' \in Nat /\ Stored \in Nat
  BY <1>1, <1>2, NextStoredIsLatest, StoredIsLatest DEF Latest
<1>4. DirsBehind'
  BY <1>1, <1>2, <1>3, StillBehind
<1>5. QED BY <1>3, <1>4

(* The names that a start looks at. *)
LEMMA NamesRead ==
  ASSUME NEW d, NEW v, d["json"] = None \/ data[d["json"]] \in Versions,
         v = (IF d["json"] # None THEN data[d["json"]] ELSE data[d["back"]]),
         (d["json"] # None /\ d["back"] # None /\ data[d["back"]] \in Versions)
           => data[d["back"]] <= data[d["json"]]
  PROVE  Latest(d) = v /\ Sorted(d)
<1>1. Latest(d) = v
  BY DEF Latest
<1>2. ASSUME NEW n \in {"json", "back"}, d[n] # None, data[d[n]] \in Versions
      PROVE  data[d[n]] <= Latest(d)
  BY <1>2 DEF Latest, Versions
<1>3. QED BY <1>1, <1>2 DEF Sorted

(* The operations of a save and of a repair on the directory. *)
LEMMA OperationsBehind ==
  ASSUME TypeInv, VersionsInOrder, AllRecoverable, PlaceInv, DirsBehind, QueueAhead,
         (TypeInv /\ VersionsInOrder /\ AllRecoverable)',
         \/ CheckConfigFile /\ NeedsRepair
         \/ RemoveBack /\ Exists("back")
         \/ RenameJson \/ RenameTmp
  PROVE  DirsBehind' /\ (Stored' = Stored \/ (RenameTmp /\ Stored' = Head(queue)))
<1> USE DEF TypeInv
<1>1. Stored = Latest(View) /\ Stored \in Nat /\ Empty \notin Versions
  BY StoredIsLatest, ConstantsOK DEF Versions
<1>2. CASE CheckConfigFile /\ NeedsRepair
  <2>1. PICK d : d = [View EXCEPT !["json"] = None]
    OBVIOUS
  <2>2. d \in Directory /\ Change(d) /\ data' = data
    BY <1>2, <2>1, RemoveType DEF CheckConfigFile, Remove, Names
  <2>3. d["json"] = None /\ d["back"] = View["back"]
    BY <2>1, ChangedNames DEF Names
  <2>4. data[View["json"]] = Empty
    BY <1>2 DEF NeedsRepair, Contents
  <2>5. Stored = data[d["back"]]
    BY <1>1, <2>3, <2>4 DEF Latest
  <2>6. Latest(d) = Stored /\ Sorted(d)
    BY <2>3, <2>5, NamesRead
  <2>7. Stored <= Latest(d)
    BY <1>1, <2>6
  <2>8. QED BY <2>2, <2>6, <2>7, ChangeBehind
<1>3. CASE RemoveBack /\ Exists("back")
  <2>1. PICK d : d = [View EXCEPT !["back"] = None]
    OBVIOUS
  <2>2. d \in Directory /\ Change(d) /\ data' = data
    BY <1>3, <2>1, RemoveType DEF RemoveBack, Remove, Names
  <2>3. d["json"] = View["json"] /\ d["back"] = None
    BY <2>1, ChangedNames DEF Names
  <2>4. Solid(View["json"])
    BY <1>3 DEF RemoveBack, PlaceInv
  <2>5. Stored = data[d["json"]] /\ d["json"] # None /\ data[d["json"]] \in Versions
    BY <1>1, <2>3, <2>4 DEF Latest, Solid, Fresh
  <2>6. Latest(d) = Stored /\ Sorted(d)
    BY <2>3, <2>5, NamesRead
  <2>7. Stored <= Latest(d)
    BY <1>1, <2>6
  <2>8. QED BY <2>2, <2>6, <2>7, ChangeBehind
<1>4. CASE RenameJson
  <2>1. PICK d : d = [View EXCEPT !["back"] = View["json"], !["json"] = None]
    OBVIOUS
  <2>2. d \in Directory /\ Change(d) /\ data' = data
    BY <1>4, <2>1, RemoveType DEF RenameJson, Rename, Names
  <2>3. d["json"] = None /\ d["back"] = View["json"]
    BY <2>1, ViewType DEF Directory, Names
  <2>4. Solid(View["json"])
    BY <1>4 DEF RenameJson, PlaceInv
  <2>5. Stored = data[d["back"]]
    BY <1>1, <2>3, <2>4 DEF Latest, Solid, Fresh
  <2>6. Latest(d) = Stored /\ Sorted(d)
    BY <2>3, <2>5, NamesRead
  <2>7. Stored <= Latest(d)
    BY <1>1, <2>6
  <2>8. QED BY <2>2, <2>6, <2>7, ChangeBehind
<1>5. CASE RenameTmp
  <2>1. PICK d : d = [View EXCEPT !["json"] = View["tmp"], !["tmp"] = None]
    OBVIOUS
  <2>2. d \in Directory /\ Change(d) /\ data' = data
    BY <1>5, <2>1, RemoveType DEF RenameTmp, Rename, Names
  <2>3. d["json"] = View["tmp"] /\ d["back"] = View["back"]
    BY <2>1, ViewType DEF Directory, Names
  <2>4. View["json"] = None /\ TmpIsHead /\ pc = "backed" /\ queue # << >>
    BY <1>5 DEF RenameTmp, PlaceInv, SavesQueued, Saving
  <2>5. Head(queue) \in Versions /\ Head(queue) = queue[1] /\ 1 \in DOMAIN queue
    BY <2>4, QueueType, QueueParts
  <2>6. Stored < Head(queue) /\ Stored = data[View["back"]] /\ Head(queue) \in Nat
    BY <1>1, <2>4, <2>5 DEF QueueAhead, Latest, Versions
  <2>7. /\ d["json"] # None /\ data[d["json"]] = Head(queue)
        /\ data[d["back"]] <= data[d["json"]]
    BY <1>1, <2>3, <2>4, <2>6 DEF TmpIsHead
  <2>8. Latest(d) = Head(queue) /\ Sorted(d)
    BY <2>5, <2>7, NamesRead
  <2>9. QED BY <1>1, <1>5, <2>2, <2>6, <2>8, ChangeBehind
<1>6. QED BY <1>2, <1>3, <1>4, <1>5

(* A new file: the .tmp file of a save, or the parameter file of a repair. *)
LEMMA NewFileBehind ==
  ASSUME TypeInv, VersionsInOrder, AllRecoverable, PlaceInv, DirsBehind,
         (TypeInv /\ VersionsInOrder /\ AllRecoverable)',
         WriteTmp \/ CopyBack
  PROVE  DirsBehind' /\ Stored' = Stored
<1> USE DEF TypeInv
<1>1. Stored = Latest(View) /\ Stored \in Nat /\ Stored \in Versions
  BY StoredIsLatest
<1>2. PICK e : e = View
  OBVIOUS
<1>3. e \in Directory /\ Recoverable(e) /\ Sorted(e) /\ Latest(e) = Stored
  BY <1>1, <1>2, ViewType, ViewRecoverable DEF DirsBehind, View
<1>4. PICK n \in Names, c \in Versions \cup {Empty} :
        /\ NewFile(n, c)
        /\ \/ n = "tmp"
           \/ n = "json" /\ c = Stored /\ e["back"] # None /\ data[e["back"]] = Stored
  <2>1. CASE WriteTmp
    BY <2>1, QueueType DEF WriteTmp, Names
  <2>2. CASE CopyBack
    <3>1. View["json"] = None /\ NewFile("json", Contents("back")) /\ View["back"] # None
      BY <2>2 DEF CopyBack, PlaceInv, BackupExists
    <3>2. Contents("back") = Stored /\ data[e["back"]] = Stored
      BY <1>1, <1>2, <3>1 DEF Latest, Contents, Exists
    <3>3. QED BY <1>1, <1>2, <3>1, <3>2 DEF Names
  <2>3. QED BY <2>1, <2>2
<1>5. PICK new : new = Len(data) + 1
  OBVIOUS
<1>6. PICK d : d = [e EXCEPT ![n] = new]
  OBVIOUS
<1>7. /\ new \notin DOMAIN data /\ new # None /\ new \in DOMAIN data'
      /\ View' = d /\ data'[new] = c
      /\ \A f \in DOMAIN data : f \in DOMAIN data' /\ data'[f] = data[f]
      /\ \A k \in DOMAIN dirs' : dirs'[k] = d \/ \E j \in DOMAIN dirs : dirs'[k] = dirs[j]
  BY <1>2, <1>4, <1>5, <1>6, NewFileType
<1>8. d[n] = new /\ \A m \in Names \ {n} : d[m] = e[m]
  BY <1>3, <1>6 DEF Directory
<1>9. Latest(e)' = Stored /\ Sorted(e)'
  BY <1>3, <1>7, LatestKept
<1>10. Latest(d)' = Stored /\ Sorted(d)'
  <2>1. CASE n = "tmp"
    <3>1. d["json"] = e["json"] /\ d["back"] = e["back"]
      BY <1>8, <2>1 DEF Names
    <3>2. QED BY <1>9, <3>1 DEF Latest, Sorted
  <2>2. CASE /\ n = "json" /\ c = Stored /\ e["back"] # None
             /\ data[e["back"]] = Stored
    <3>1. d["json"] = new /\ d["back"] = e["back"] /\ e["back"] \in DOMAIN data
      BY <1>3, <1>8, <2>2 DEF Directory, Names
    <3>2. data'[d["json"]] = Stored /\ data'[d["back"]] = Stored
      BY <1>7, <2>2, <3>1
    <3>3. QED BY <1>1, <1>7, <3>1, <3>2 DEF Latest, Sorted
  <2>3. QED BY <1>4, <2>1, <2>2
<1>11. Stored' = Stored
  BY <1>7, <1>10, NextStoredIsLatest DEF Latest
<1>12. DirsBehind'
  BY <1>1, <1>7, <1>10, <1>11, StillBehind
<1>13. QED BY <1>11, <1>12

(* A power loss brings back an earlier directory, perhaps with less data. *)
LEMMA PowerLossBehind ==
  ASSUME TypeInv, VersionsInOrder, AllRecoverable, DirsBehind,
         (TypeInv /\ VersionsInOrder /\ AllRecoverable)', PowerLoss
  PROVE  DirsBehind' /\ Stored' <= Stored
<1> USE DEF TypeInv
<1>1. PICK k \in DOMAIN dirs, lost \in SUBSET dirty :
        /\ View' = dirs[k] /\ DOMAIN dirs' = {1} /\ dirs' = <<dirs[k]>>
        /\ data' = [f \in DOMAIN data |-> IF f \in lost THEN Empty ELSE data[f]]
  BY PowerLossType
<1>2. PICK d : d = dirs[k]
  OBVIOUS
<1>3. d \in Directory /\ Recoverable(d) /\ Sorted(d) /\ Latest(d) <= Stored
  BY <1>2, ViewType DEF AllRecoverable, DirsBehind
<1>4. Latest(d) \in Nat /\ Stored \in Nat /\ Empty \notin Versions
  BY <1>3, LatestType, StoredIsLatest, ConstantsOK DEF Versions
<1>5. Stored' = Latest(d)' /\ Stored' \in Nat
  BY <1>1, <1>2, NextStoredIsLatest DEF Latest
<1>6. Recoverable(d)'
  BY <1>1, <1>2 DEF AllRecoverable
<1>7. ASSUME NEW n \in {"json", "back"}, d[n] # None, data'[d[n]] \in Versions
      PROVE  data'[d[n]] = data[d[n]] /\ data[d[n]] \in Versions
  <2>1. d[n] \in DOMAIN data
    BY <1>3, <1>7 DEF Directory, Names
  <2>2. QED BY <1>1, <1>4, <1>7, <2>1
<1>8. PICK n \in {"json", "back"} : d[n] # None /\ data'[d[n]] \in Versions
                                     /\ Latest(d)' = data'[d[n]]
  BY <1>6 DEF Latest, Recoverable, Solid, Fresh
<1>9. Latest(d)' <= Latest(d)
  BY <1>3, <1>7, <1>8 DEF Sorted
<1>10. Sorted(d)'
  <2> SUFFICES ASSUME NEW m \in {"json", "back"}, d[m] # None, data'[d[m]] \in Versions
               PROVE  data'[d[m]] <= Latest(d)'
    BY DEF Sorted
  <2>1. CASE m = "json"
    BY <2>1 DEF Latest, Versions
  <2>2. CASE m = "back"
    <3>1. CASE d["json"] # None /\ data'[d["json"]] \in Versions
      <4>1. Latest(d)' = data[d["json"]] /\ Latest(d) = data[d["json"]]
        BY <1>7, <3>1 DEF Latest
      <4>2. QED BY <1>3, <1>7, <2>2, <4>1 DEF Sorted
    <3>2. CASE ~(d["json"] # None /\ data'[d["json"]] \in Versions)
      BY <2>2, <3>2 DEF Latest, Versions
    <3>3. QED BY <3>1, <3>2
  <2>3. QED BY <2>1, <2>2
<1>11. \A j \in DOMAIN dirs' : dirs'[j] = d
  BY <1>1, <1>2
<1>12. DirsBehind'
  BY <1>5, <1>10, <1>11 DEF DirsBehind
<1>13. QED BY <1>3, <1>4, <1>5, <1>9, <1>12

(* What a step does to the version stored and to the directories behind it. *)
LEMMA StoredStep ==
  ASSUME RecoveryParts, RecoveryParts', RegisterInv, [Next]_vars, Calm'
  PROVE  /\ DirsBehind'
         /\ \/ Stored' = Stored
            \/ pc = "backed" /\ pc' = "renamed" /\ Stored' = Head(queue)
            \/ PowerLoss /\ pc # "off" /\ pc' = "off" /\ Stored' <= Stored
<1>1. /\ TypeInv /\ VersionsInOrder /\ AllRecoverable /\ PlaceInv
      /\ DirsBehind /\ QueueAhead
  BY CalmStep DEF RecoveryParts, RecoveryInv, RegisterInv, TypeInv
<1>2. (TypeInv /\ VersionsInOrder /\ AllRecoverable)'
  BY DEF RecoveryParts, RecoveryInv
<1>3. TypeOK /\ Stored \in Nat
  BY <1>1, StoredIsLatest DEF TypeInv
<1>4. CASE \/ CheckConfigFile /\ NeedsRepair
           \/ RemoveBack /\ Exists("back")
           \/ RenameJson \/ RenameTmp
  BY <1>1, <1>2, <1>4, OperationsBehind DEF RenameTmp
<1>5. CASE WriteTmp \/ CopyBack
  BY <1>1, <1>2, <1>5, NewFileBehind
<1>6. CASE PowerLoss
  BY <1>1, <1>2, <1>6, PowerLossBehind DEF PowerLoss, Stop
<1>7. ASSUME data' = data, View' = View,
             \A k \in DOMAIN dirs' : \E j \in DOMAIN dirs : dirs'[k] = dirs[j]
      PROVE  DirsBehind' /\ Stored' = Stored
  BY <1>1, <1>3, <1>7, QuietRegister
<1>8. CASE Sync
  <2>1. PICK d : d = View
    OBVIOUS
  <2>2. dirs' = <<d>> /\ data' = data
    BY <1>8, <2>1 DEF Sync
  <2>3. View' = d /\ \A k \in DOMAIN dirs' : dirs'[k] = d
    BY <2>2 DEF View
  <2>4. d = dirs[Len(dirs)] /\ Len(dirs) \in DOMAIN dirs
    BY <1>3, <2>1, ViewType DEF View
  <2>5. QED BY <1>7, <2>1, <2>2, <2>3, <2>4
<1>9. CASE WriteBackDirectory
  BY <1>3, <1>7, <1>9, WriteBackView DEF WriteBackDirectory
<1>10. CASE dirs' = dirs /\ data' = data
  <2>1. View' = View
    BY <1>10 DEF View
  <2>2. QED BY <1>7, <1>10, <2>1
<1>11. CASE OperationFails \/ WriteFails \/ RepairFails
  BY <1>3, <1>11, FailureIsNotCalm
<1>12. CASE \/ Start \/ LoadParams \/ SaveParams \/ NothingToBackUp \/ WriteBackFile
            \/ Kill \/ UNCHANGED vars
            \/ CheckConfigFile /\ ~NeedsRepair
            \/ RemoveBack /\ ~Exists("back")
  BY <1>10, <1>12 DEF Start, LoadParams, SaveParams, NothingToBackUp, WriteBackFile,
     Kill, vars, CheckConfigFile, RemoveBack
<1>13. QED BY <1>4, <1>5, <1>6, <1>8, <1>9, <1>11, <1>12 DEF Next

LEMMA QueueStep ==
  ASSUME RecoveryParts, RecoveryParts', RegisterInv, [Next]_vars, Calm'
  PROVE  QueueAhead'
<1>1. TypeInv /\ VersionsInOrder /\ AllRecoverable /\ QueueAhead
  BY CalmStep DEF RecoveryParts, RecoveryInv, RegisterInv, TypeInv
<1>2. TypeOK /\ Stored \in Nat /\ Stored <= history.saved /\ history.saved \in Nat
  BY <1>1, StoredIsLatest, HistoryType DEF TypeInv
<1>3. CASE Kill \/ PowerLoss
  <2>1. DOMAIN queue' = {}
    BY <1>3 DEF Kill, PowerLoss, Stop
  <2>2. QED BY <2>1 DEF QueueAhead
<1>4. CASE SaveParams
  <2>1. Stored' = Stored /\ pc' = pc
    BY <1>4 DEF SaveParams, Stored, Contents, Exists, View
  <2>2. PICK v : v = history.saved + 1
    OBVIOUS
  <2>3. v \in Versions /\ queue \in Seq(Versions) /\ queue' = Append(queue, v)
    BY <1>2, <1>4, <2>2, ConstantsOK DEF SaveParams, Versions, TypeOK
  <2>4. /\ Len(queue) \in Nat /\ DOMAIN queue = 1..Len(queue)
        /\ \A i \in DOMAIN queue : queue[i] \in Nat /\ queue[i] < v
    <3>1. \A i \in DOMAIN queue : queue[i] \in Versions /\ queue[i] <= history.saved
      BY <1>1, <2>3, HistoryType, ElementOfSeq, LenProperties DEF VersionsInOrder, TypeInv
    <3>2. QED BY <1>2, <2>2, <2>3, <3>1, LenProperties DEF Versions
  <2>5. /\ \A i \in DOMAIN queue : queue'[i] = queue[i]
        /\ queue'[Len(queue) + 1] = v
        /\ \A i \in DOMAIN queue' : i \in DOMAIN queue \/ i = Len(queue) + 1
    BY <2>3, Appended
  <2>6. ASSUME NEW i \in DOMAIN queue'
        PROVE  IF pc' = "renamed" /\ i = 1 THEN queue'[i] = Stored' ELSE Stored' < queue'[i]
    <3>1. CASE i \in DOMAIN queue
      BY <1>1, <2>1, <2>5, <3>1 DEF QueueAhead
    <3>2. CASE i = Len(queue) + 1
      <4>1. pc = "renamed" => queue # << >>
        BY <1>1 DEF TypeInv, SavesQueued, Saving
      <4>2. pc = "renamed" => Len(queue) # 0
        BY <2>3, <4>1, EmptySeq
      <4>3. Stored < queue'[i]
        BY <1>2, <2>2, <2>5, <3>2
      <4>4. QED BY <2>1, <2>4, <3>2, <4>2, <4>3
    <3>3. QED BY <2>5, <3>1, <3>2
  <2>7. ASSUME NEW i \in DOMAIN queue', NEW j \in DOMAIN queue', i < j
        PROVE  queue'[i] < queue'[j]
    <3>1. CASE j \in DOMAIN queue
      <4>1. i \in DOMAIN queue
        BY <2>4, <2>5, <2>7, <3>1
      <4>2. QED BY <1>1, <2>5, <2>7, <3>1, <4>1 DEF QueueAhead
    <3>2. CASE j = Len(queue) + 1
      <4>1. i \in DOMAIN queue
        BY <2>4, <2>5, <2>7, <3>2
      <4>2. QED BY <2>4, <2>5, <3>2, <4>1
    <3>3. QED BY <2>5, <3>1, <3>2
  <2>8. QED BY <2>6, <2>7 DEF QueueAhead
<1>5. CASE RenameTmp
  <2>1. pc = "backed" /\ pc' = "renamed" /\ queue' = queue /\ queue # << >>
    BY <1>1, <1>5 DEF RenameTmp, TypeInv, SavesQueued, Saving
  <2>2. 1 \in DOMAIN queue /\ Head(queue) = queue[1] /\ DOMAIN queue \subseteq Nat \ {0}
    BY <1>2, <2>1, QueueParts, LenProperties DEF TypeOK
  <2>3. Stored' = queue[1]
    <3>1. Head(queue) \in Versions
      BY <1>2, <2>1, QueueType
    <3>2. Contents("json")' = Head(queue)
      <4>1. PlaceInv'
        BY DEF RecoveryParts, RecoveryInv
      <4>2. QED BY <2>1, <4>1 DEF PlaceInv
    <3>3. QED BY <2>2, <3>1, <3>2 DEF Stored
  <2>4. \A i \in DOMAIN queue : i # 1 => 1 < i
    BY <2>2
  <2>5. QED BY <1>1, <2>1, <2>2, <2>3, <2>4 DEF QueueAhead
<1>6. CASE Sync \/ NothingToBackUp
  <2>1. Stored' = Stored
    BY <1>6, StoredStep DEF Sync, NothingToBackUp
  <2>2. queue # << >> /\ queue' = Tail(queue) /\ pc' = "idle"
    BY <1>1, <1>6 DEF Sync, NothingToBackUp, TypeInv, SavesQueued, Saving
  <2>3. \A i \in DOMAIN queue' : /\ i \in Nat \ {0} /\ i + 1 \in DOMAIN queue
                                 /\ queue'[i] = queue[i + 1]
    BY <1>2, <2>2, QueueParts
  <2>4. \A i \in DOMAIN queue' : Stored' < queue'[i]
    BY <1>1, <2>1, <2>3 DEF QueueAhead
  <2>5. ASSUME NEW i \in DOMAIN queue', NEW j \in DOMAIN queue', i < j
        PROVE  queue'[i] < queue'[j]
    BY <1>1, <2>3, <2>5 DEF QueueAhead
  <2>6. QED BY <2>2, <2>4, <2>5 DEF QueueAhead
<1>7. CASE \/ Start \/ CheckConfigFile \/ CopyBack \/ LoadParams
           \/ WriteTmp \/ RemoveBack \/ RenameJson
           \/ WriteBackDirectory \/ WriteBackFile \/ UNCHANGED vars
  <2>1. queue' = queue /\ (pc' = "renamed" <=> pc = "renamed")
    BY <1>7 DEF Start, CheckConfigFile, CopyBack, LoadParams, WriteTmp, RemoveBack,
       RenameJson, WriteBackDirectory, WriteBackFile, vars
  <2>2. ~(pc = "backed" /\ pc' = "renamed") /\ ~(pc # "off" /\ pc' = "off")
    BY <1>7 DEF Start, CheckConfigFile, CopyBack, LoadParams, WriteTmp, RemoveBack,
       RenameJson, WriteBackDirectory, WriteBackFile, vars
  <2>3. Stored' = Stored
    BY <2>2, StoredStep
  <2>4. QED BY <1>1, <2>1, <2>3 DEF QueueAhead
<1>8. ~OperationFails /\ ~WriteFails /\ ~RepairFails
  BY <1>2, FailureIsNotCalm
<1>9. QED BY <1>3, <1>4, <1>5, <1>6, <1>7, <1>8 DEF Next

RegisterParts == RecoveryParts /\ RegisterInv

LEMMA RegisterHolds == Spec => []RegisterParts
<1>1. Init => RegisterParts
  <2> SUFFICES ASSUME Init PROVE RegisterParts
    OBVIOUS
  <2>1. RecoveryParts /\ AllRecoverable
    BY RecoveryInit DEF RecoveryParts, RecoveryInv, Init, Calm
  <2>2. Stored = Latest(View) /\ Stored \in Nat
    BY <2>1, StoredIsLatest DEF RecoveryParts
  <2>3. PICK d : d = View
    OBVIOUS
  <2>4. \A k \in DOMAIN dirs : dirs[k] = d
    BY <2>3 DEF Init, View
  <2>5. d["json"] = 1 /\ d["back"] = None /\ data[1] = 0 /\ 1 # None /\ 0 \in Versions
    BY <2>3, ConstantsOK DEF Init, View, Names, Versions
  <2>6. Latest(d) = 0 /\ Sorted(d)
    BY <2>5, NamesRead
  <2>7. DirsBehind
    BY <2>2, <2>3, <2>4, <2>6 DEF DirsBehind
  <2>8. QueueAhead
    BY DEF Init, QueueAhead
  <2>9. QED BY <2>1, <2>7, <2>8 DEF RegisterParts, RegisterInv
<1>2. RecoveryParts /\ RecoveryParts' /\ RegisterInv /\ [Next]_vars => RegisterInv'
  BY StoredStep, QueueStep DEF RegisterInv
<1>3. QED BY <1>1, <1>2, RecoveryHolds, PTL DEF Spec, RegisterParts

(* One step of the program, the disk or the power is one of the register. *)
LEMMA RegisterStep ==
  ASSUME RegisterParts, RegisterParts', [Next]_vars, Calm'
  PROVE  [Register!Next]_(Register!vars)
<1>1. /\ TypeInv /\ VersionsInOrder /\ AllRecoverable /\ PlaceInv /\ QueueAhead
      /\ RecoveryParts /\ RecoveryParts' /\ RegisterInv
  BY CalmStep DEF RegisterParts, RecoveryParts, RecoveryInv, RegisterInv, TypeInv
<1>2. /\ Stored \in Nat /\ Stored <= history.saved /\ history \in History
      /\ history.saved \in Nat /\ history.synced \in Nat
  BY <1>1, StoredIsLatest, HistoryType DEF TypeInv
<1>3. CASE SaveParams
  <2>1. Stored' = Stored
    BY <1>3 DEF SaveParams, Stored, Contents, Exists, View
  <2>2. history'.saved = history.saved + 1 /\ history'.synced = history.synced
    BY <1>2, <1>3 DEF SaveParams, History
  <2>3. Register!Save
    BY <2>1, <2>2 DEF Register!Save
  <2>4. QED BY <2>3 DEF Register!Next
<1>4. CASE Sync
  <2>1. Stored' = Stored
    BY <1>1, <1>4, StoredStep DEF Sync
  <2>2. queue # << >> /\ Head(queue) = Stored
    <3>1. queue # << >> /\ pc = "renamed"
      BY <1>1, <1>4 DEF Sync, TypeInv, SavesQueued, Saving
    <3>2. 1 \in DOMAIN queue /\ Head(queue) = queue[1]
      BY <1>1, <3>1, QueueParts DEF TypeInv
    <3>3. QED BY <1>1, <3>1, <3>2 DEF QueueAhead
  <2>3. history'.saved = history.saved /\ history'.synced = Stored
    BY <1>2, <1>4, <2>2 DEF Sync, History
  <2>4. Register!Keep
    BY <2>1, <2>3 DEF Register!Keep
  <2>5. QED BY <2>4 DEF Register!Next
<1>5. CASE UNCHANGED <<history.saved, history.synced>>
  <2>1. CASE Stored' = Stored
    BY <1>5, <2>1 DEF Register!vars
  <2>2. CASE pc = "backed" /\ pc' = "renamed" /\ Stored' = Head(queue)
    <3>1. queue # << >>
      BY <1>1, <2>2 DEF TypeInv, SavesQueued, Saving
    <3>2. 1 \in DOMAIN queue /\ Head(queue) = queue[1] /\ Head(queue) \in Nat
      BY <1>1, <3>1, QueueParts, QueueType DEF TypeInv, Versions
    <3>3. Stored < Head(queue) /\ Head(queue) <= history.saved
      BY <1>1, <1>2, <2>2, <3>2 DEF QueueAhead, VersionsInOrder
    <3>4. Head(queue) \in Stored + 1 .. history.saved
      BY <1>2, <3>2, <3>3
    <3>5. Register!Store
      BY <1>5, <2>2, <3>4 DEF Register!Store
    <3>6. QED BY <3>5 DEF Register!Next
  <2>3. CASE PowerLoss /\ Stored' <= Stored
    <3>1. (Stored \in Nat /\ history.synced <= Stored)'
      BY <1>1, NextStoredIsKept DEF RecoveryParts, RecoveryInv
    <3>2. Stored' \in history.synced .. Stored
      BY <1>2, <1>5, <2>3, <3>1
    <3>3. Register!TakeBack
      BY <1>5, <3>2 DEF Register!TakeBack
    <3>4. QED BY <3>3 DEF Register!Next
  <2>4. QED BY <1>1, <2>1, <2>2, <2>3, StoredStep
<1>6. CASE WriteTmp \/ Kill \/ PowerLoss
  <2>1. UNCHANGED <<history.saved, history.synced>>
    BY <1>2, <1>6 DEF WriteTmp, Kill, PowerLoss, History
  <2>2. QED BY <1>5, <2>1
<1>7. CASE \/ Start \/ CheckConfigFile \/ CopyBack \/ LoadParams \/ RemoveBack
           \/ RenameJson \/ RenameTmp \/ NothingToBackUp
           \/ WriteBackDirectory \/ WriteBackFile \/ UNCHANGED vars
  <2>1. history' = history
    BY <1>7 DEF Start, CheckConfigFile, CopyBack, LoadParams, RemoveBack, RenameJson,
       RenameTmp, NothingToBackUp, WriteBackDirectory, WriteBackFile, vars
  <2>2. QED BY <1>5, <2>1
<1>8. ~OperationFails /\ ~WriteFails /\ ~RepairFails
  BY <1>1, FailureIsNotCalm DEF TypeInv
<1>9. QED BY <1>3, <1>4, <1>6, <1>7, <1>8 DEF Next

(* Atomicity: as long as no file operation has failed and no save began before
   earlier data were on disk, the operations of saves and repairs, with kills and
   power losses between any two of them, implement a register: what the directory
   holds changes to the version being saved in one step, to no older one, and goes
   back only when the power fails, never behind the last sync. *)
THEOREM SavesAreAtomic == Spec => IsRegister
<1>1. Init => Register!Init
  <2> SUFFICES ASSUME Init PROVE Register!Init
    OBVIOUS
  <2>1. View["json"] = 1 /\ data[1] = 0 /\ 1 # None /\ 0 \in Versions
    BY ConstantsOK DEF Init, View, Names, Versions
  <2>2. Stored = 0
    BY <2>1 DEF Stored, Contents, Exists
  <2>3. history.saved = 0 /\ history.synced = 0
    BY DEF Init
  <2>4. QED BY <2>2, <2>3 DEF Register!Init
<1>2. RegisterParts /\ RegisterParts' /\ [Next]_vars
        => [Calm' => [Register!Next]_(Register!vars)]_vars
  BY RegisterStep
<1>3. QED BY <1>1, <1>2, RegisterHolds, PTL DEF Spec, IsRegister

=============================================================================
