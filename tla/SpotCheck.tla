------------------------------ MODULE SpotCheck ------------------------------
(***************************************************************************)
(* Starting, stopping and spot checking: the commands SetWorkMode,         *)
(* SpotEnable, InquireSpotDetectStatus and Enable of the policy store      *)
(* (IopAgent/TcpClient.cpp), the switch `enabled' of the project and of    *)
(* its cameras (BaseLib/EngineObject.cpp, EngineProject.cpp, Attribute.cpp)*)
(* and the software cameras that play the images of a spot check           *)
(* (ImgSrc/SoftCamera.cpp).                                                *)
(*                                                                         *)
(* Threads: "tcp" executes the commands of the policy store, "other" is    *)
(* the console, or the packet thread that stops the line; every software   *)
(* camera has a thread with an event queue and a timer.  A switch is read, *)
(* acted upon and stored in separate steps, what the command does next is  *)
(* one more, and the counter of unfinished cameras is a plain int: `--' is *)
(* a read and a write.                                                     *)
(*                                                                         *)
(* Left out: the total number of images (only reported, and exposed to the *)
(* same race), and the image itself, which ImageMultipler follows.         *)
(***************************************************************************)
EXTENDS Integers, FiniteSets, Sequences

CONSTANTS
  SpotCameras,   \* the virtual cameras, one per channel
  LineCameras,   \* the cameras of the line (software cameras as well)
  Unknown,       \* channel ids without a virtual camera
  NoValue,       \* model value: nothing read, or nothing being written
  MaxImages,     \* bound: images in a directory
  MaxCommands    \* bound: commands of the policy store and the other thread

Cameras == SpotCameras \cup LineCameras
Channels == SpotCameras \cup Unknown
Threads == {"tcp", "other"}

ASSUME ConstantsOK ==
  /\ IsFiniteSet(Channels) /\ SpotCameras \cap (LineCameras \cup Unknown) = {}
  /\ NoValue \notin Int \cup Cameras
  /\ MaxImages \in Nat /\ MaxCommands \in Nat

VARIABLES
  runType,       \* EngineProject::m_runType
  enabled,       \* value of the project's attribute `enabled'
  camEnabled,    \* value of each camera's attribute `enabled'
  setting,       \* per thread: the command it is in the middle of, or Idle
  detectStatus,  \* m_detectStatus
  waitFinish,    \* s_spotDetectWaitFinishCount
  events,        \* event queue of each camera's thread
  timer,         \* is the camera's QTimer active?
  startStage,    \* m_bStartStage of the virtual cameras
  imageList,     \* size of m_imageList
  readIndex,     \* m_imageReadIndex
  counterRead,   \* what a camera has read of waitFinish and not yet written
  played,        \* ghost: what became of the images found last, see Tally
  history        \* ghosts: see HistoryInit

switchVars == <<runType, enabled, camEnabled, setting>>
cameraVars == <<imageList, readIndex, counterRead>>
vars == <<switchVars, detectStatus, waitFinish, events, timer, startStage,
          cameraVars, played, history>>

-----------------------------------------------------------------------------
Idle == [busy |-> FALSE]

(* What the thread does once the switch is set: nothing, store a run type, or
   store a status of the check. *)
Afterwards == {"nothing", "Spot", "Infer", "On", "Stop"}

(* How far a thread is: directories are posted to the cameras of a check, the
   old value of the project's switch has been read, the run type has been read
   once without being Spot, cameras are being set, the value has been stored. *)
Stages == {"posting", "read", "asked", "throwing", "stored"}

(* The value a thread sets and the one it read before, the cameras still to be
   posted to or to be set, and the camera whose value it has still to write. *)
Setting == [busy : {TRUE}, stage : Stages, value : BOOLEAN, old : BOOLEAN,
            todo : SUBSET Cameras, writing : Cameras \cup {NoValue},
            after : Afterwards]

Begun(stage, value, old, todo, after) ==
  [busy |-> TRUE, stage |-> stage, value |-> value, old |-> old, todo |-> todo,
   writing |-> NoValue, after |-> after]

(* The images found in a directory: how many, how many of them went to be
   inspected, and how many were passed over, because the camera was off when
   their turn came or the file held no image. *)
Tally == [found : Nat, sent : Nat, skipped : Nat]

(* overlapped: a camera counted itself off, or was bound to, for a check before
   the one the counter was set for.  crossed: the throw that goes on, or the
   last one, met one of another thread.  astray: the cameras of which nothing
   is known since, because no throw that met none has turned them. *)
HistoryInit == [overlapped |-> FALSE, crossed |-> FALSE, astray |-> {}, commands |-> 0]

Init ==
  /\ runType = "Infer" /\ enabled = TRUE
  /\ camEnabled = [c \in Cameras |-> c \in LineCameras]
  /\ setting = [t \in Threads |-> Idle]
  /\ detectStatus = "Finish" /\ waitFinish = 0
  /\ events = [c \in Cameras |-> << >>]
  /\ timer = [c \in Cameras |-> c \in LineCameras]
  /\ startStage = [c \in SpotCameras |-> TRUE]
  /\ imageList = [c \in SpotCameras |-> 0] /\ readIndex = [c \in SpotCameras |-> 0]
  /\ counterRead = [c \in SpotCameras |-> NoValue]
  /\ played = [c \in SpotCameras |-> [found |-> 0, sent |-> 0, skipped |-> 0]]
  /\ history = HistoryInit

(* The objects that onStarted and onStopped of the project act upon. *)
MembersOf(type) == IF type = "Spot" THEN SpotCameras ELSE LineCameras

Busy(t) == setting[t] # Idle

At(t, stage) == Busy(t) /\ setting[t].stage = stage

(* The thread is between the read of the project's switch and its last store. *)
Throws(t) == Busy(t) /\ setting[t].stage # "posting"

-----------------------------------------------------------------------------
(* Attribute::setValue of the project's switch: the old value is read; ... *)
BeginSet(t, value, after) ==
  /\ ~Busy(t)
  /\ setting' = [setting EXCEPT ![t] = Begun("read", value, enabled, {}, after)]
  /\ UNCHANGED <<runType, enabled, camEnabled>>

Crossed(h, t) ==
  LET met == \E u \in Threads \ {t} : Throws(u)
  IN  [h EXCEPT !.crossed = met, !.astray = IF met THEN Cameras ELSE @]

unlessSwitched == <<detectStatus, waitFinish, timer, cameraVars, played>>

(* The cameras of a check to whose queues the TCP thread has still to post. *)
Due == IF At("tcp", "posting") THEN setting["tcp"].todo ELSE {}

(* PsCmd_SpotEnable goes on: each known camera gets its directory through its
   queue, ... *)
PostPath(c) ==
  /\ c \in Due
  /\ setting' = [setting EXCEPT !["tcp"].todo = @ \ {c}]
  /\ events' = [events EXCEPT ![c] = Append(@, "path")]
  /\ UNCHANGED <<runType, enabled, camEnabled, unlessSwitched, startStage, history>>

(* ... and then the project's switch is read. *)
ReadSwitch ==
  /\ At("tcp", "posting") /\ Due = {}
  /\ setting' = [setting EXCEPT !["tcp"].stage = "read", !["tcp"].old = enabled]
  /\ history' = Crossed(history, "tcp")
  /\ UNCHANGED <<runType, enabled, camEnabled, unlessSwitched, startStage, events>>

(* ... if it differs, onStarted or onStopped goes through the cameras of the
   run type, which is asked for twice: for Spot, and then for Infer. *)
GoThrough(t) ==
  /\ \E stage \in {"throwing", "asked"}, todo \in {{}, SpotCameras, LineCameras} :
       /\ \/ /\ At(t, "read") /\ setting[t].value = setting[t].old
             /\ stage = "throwing" /\ todo = {}
          \/ /\ At(t, "read") /\ setting[t].value # setting[t].old
             /\ IF runType = "Spot" THEN stage = "throwing" /\ todo = MembersOf("Spot")
                                    ELSE stage = "asked" /\ todo = {}
          \/ /\ At(t, "asked") /\ stage = "throwing"
             /\ todo = IF runType = "Infer" THEN MembersOf("Infer") ELSE {}
       /\ setting' = [setting EXCEPT ![t].stage = stage, ![t].todo = todo]
  /\ UNCHANGED <<runType, enabled, camEnabled, unlessSwitched, startStage, events, history>>

(* ... of the next camera, in the order of the hash table: the setter compares
   with the old value and starts or stops the timer through the camera's
   queue; ... *)
SetCamera(t, c) ==
  /\ At(t, "throwing") /\ setting[t].writing = NoValue /\ setting[t].todo # {}
  /\ c = CHOOSE d \in setting[t].todo : TRUE
  /\ setting' = [setting EXCEPT ![t].writing = c]
  /\ IF setting[t].value = camEnabled[c]
     THEN UNCHANGED <<events, startStage, history>>
     ELSE /\ events' = [events EXCEPT ![c] = Append(@, IF setting[t].value THEN "start" ELSE "stop")]
          /\ startStage' = [d \in SpotCameras |-> startStage[d] \/ (d = c /\ setting[t].value)]
          /\ history' = [history EXCEPT !.astray = IF history.crossed THEN @ ELSE @ \ {c}]
  /\ UNCHANGED <<runType, enabled, camEnabled, unlessSwitched>>

(* ... then its value is stored. *)
WriteCamera(t) ==
  /\ At(t, "throwing") /\ setting[t].writing # NoValue
  /\ LET c == setting[t].writing IN
     /\ camEnabled' = [camEnabled EXCEPT ![c] = setting[t].value]
     /\ setting' = [setting EXCEPT ![t].writing = NoValue, ![t].todo = @ \ {c}]
  /\ UNCHANGED <<runType, enabled, unlessSwitched, events, startStage, history>>

(* The project's own value is stored last; ... *)
StoreSwitch(t) ==
  /\ At(t, "throwing") /\ setting[t].writing = NoValue /\ setting[t].todo = {}
  /\ enabled' = setting[t].value
  /\ setting' = [setting EXCEPT ![t] = IF @.after = "nothing" THEN Idle
                                       ELSE [@ EXCEPT !.stage = "stored"]]
  /\ UNCHANGED <<runType, camEnabled, unlessSwitched, events, startStage, history>>

(* ... and the command goes on: it stores the run type, or, in spot mode, the
   status of the check. *)
Conclude(t) ==
  /\ At(t, "stored")
  /\ setting' = [setting EXCEPT ![t] = Idle]
  /\ runType' = IF setting[t].after \in {"Spot", "Infer"} THEN setting[t].after ELSE runType
  /\ detectStatus' = IF setting[t].after \in {"On", "Stop"} /\ runType = "Spot"
                     THEN setting[t].after ELSE detectStatus
  /\ UNCHANGED <<enabled, camEnabled, waitFinish, events, timer, startStage,
                 cameraVars, played, history>>

-----------------------------------------------------------------------------
Command ==
  /\ history.commands < MaxCommands
  /\ UNCHANGED <<timer, startStage, cameraVars, played>>

Commanded == [history EXCEPT !.commands = @ + 1]

(* Fault: the run type is stored before the project is disabled. *)
SetWorkModeTypeFirst(mode) ==
  /\ Command /\ ~Busy("tcp")
  /\ runType' = mode
  /\ setting' = [setting EXCEPT !["tcp"] = Begun("read", FALSE, enabled, {}, "nothing")]
  /\ history' = Crossed(Commanded, "tcp")
  /\ UNCHANGED <<enabled, camEnabled, detectStatus, waitFinish, events>>

(* PsCmd_SetWorkMode: disable under the old run type, then change it. *)
SetWorkMode(mode) ==
  /\ Command
  /\ BeginSet("tcp", FALSE, mode)
  /\ history' = Crossed(Commanded, "tcp")
  /\ UNCHANGED <<detectStatus, waitFinish, events>>

(* PsCmd_Enable; the status changes in spot mode only. *)
Enable(value) ==
  /\ Command
  /\ BeginSet("tcp", value, IF value THEN "On" ELSE "Stop")
  /\ history' = Crossed(Commanded, "tcp")
  /\ UNCHANGED <<detectStatus, waitFinish, events>>

HasPath(s) == \E i \in DOMAIN s : s[i] = "path"

(* A camera that will still decrement the counter. *)
Unfinished == {c \in SpotCameras : \/ imageList[c] > 0
                                   \/ counterRead[c] # NoValue
                                   \/ HasPath(events[c])
                                   \/ c \in Due}

(* Fault: the index of the last channel instead of their number. *)
CountBelow(channels) == Cardinality(channels) - 1

(* size() of the array of channels, known or not. *)
CountOf(channels) == Cardinality(channels)

(* PsCmd_SpotEnable with isStart: the counter is set before the cameras learn
   of the check.  It overlaps another one if a camera is counting itself off,
   if it has an earlier directory still in its queue, or if it has images and
   is not to get others. *)
SpotStart(channels) ==
  /\ Command
  /\ ~Busy("tcp") /\ runType = "Spot"
  /\ waitFinish' = CountOf(channels)
  /\ detectStatus' = "On"
  /\ setting' = [setting EXCEPT !["tcp"] =
       Begun("posting", TRUE, FALSE, channels \cap SpotCameras, "nothing")]
  /\ history' = [Commanded EXCEPT !.overlapped =
       \E c \in SpotCameras : \/ counterRead[c] # NoValue
                              \/ HasPath(events[c])
                              \/ imageList[c] > 0 /\ c \notin channels]
  /\ UNCHANGED <<runType, enabled, camEnabled, events>>

(* PsCmd_SpotEnable without isStart: only the status changes. *)
SpotStop ==
  /\ Command
  /\ ~Busy("tcp") /\ runType = "Spot"
  /\ detectStatus' = "Finish"
  /\ history' = Commanded
  /\ UNCHANGED <<switchVars, waitFinish, events>>

(* PsCmd_InquireSpotDetectStatus *)
Inquire ==
  /\ ~Busy("tcp") /\ waitFinish = 0
  /\ detectStatus' = "Finish"
  /\ UNCHANGED <<switchVars, waitFinish, events, timer, startStage, cameraVars, played,
                 history>>

(* The console's start and stop, or the packet thread that stops the line. *)
OtherSets(value) ==
  /\ Command
  /\ BeginSet("other", value, "nothing")
  /\ history' = Crossed(Commanded, "other")
  /\ UNCHANGED <<detectStatus, waitFinish, events>>

-----------------------------------------------------------------------------
(* A camera's thread: not in the middle of a decrement. *)
Free(c) == c \in SpotCameras => counterRead[c] = NoValue

TakeEvent(c, e) ==
  /\ Free(c) /\ events[c] # << >> /\ Head(events[c]) = e
  /\ events' = [events EXCEPT ![c] = Tail(@)]
  /\ UNCHANGED <<switchVars, detectStatus, waitFinish, startStage, history>>

(* QTimer::start and stop, invoked through the queue. *)
TimerEvent(c) ==
  /\ \E e \in {"start", "stop"} :
       TakeEvent(c, e) /\ timer' = [timer EXCEPT ![c] = (e = "start")]
  /\ UNCHANGED <<cameraVars, played>>

(* The first half of s_spotDetectWaitFinishCount--. *)
ReadCounter(c) == counterRead' = [counterRead EXCEPT ![c] = waitFinish]

(* Fault: a camera without images is forgotten. *)
SetImageSrcPathOfImages(c, n) ==
  /\ TakeEvent(c, "path")
  /\ imageList' = [imageList EXCEPT ![c] = n]
  /\ readIndex' = [readIndex EXCEPT ![c] = 0]
  /\ played' = [played EXCEPT ![c] = [found |-> n, sent |-> 0, skipped |-> 0]]
  /\ UNCHANGED <<counterRead, timer>>

(* SoftCamera::setImageSrcPathAsync of a virtual camera: n images are found; a
   camera without images has finished. *)
SetImageSrcPath(c, n) ==
  /\ TakeEvent(c, "path")
  /\ imageList' = [imageList EXCEPT ![c] = n]
  /\ readIndex' = [readIndex EXCEPT ![c] = 0]
  /\ IF n = 0 THEN ReadCounter(c) ELSE UNCHANGED counterRead
  /\ played' = [played EXCEPT ![c] = [found |-> n, sent |-> 0, skipped |-> 0]]
  /\ UNCHANGED timer

(* The second half; it may undo what others wrote in between. *)
WriteCounter(c) ==
  /\ counterRead[c] # NoValue
  /\ waitFinish' = counterRead[c] - 1
  /\ counterRead' = [counterRead EXCEPT ![c] = NoValue]
  /\ UNCHANGED <<switchVars, detectStatus, events, timer, startStage, imageList,
                 readIndex, played, history>>

Timeout(c) ==
  /\ Free(c) /\ timer[c]
  /\ UNCHANGED <<switchVars, detectStatus, waitFinish, events, timer>>

(* SoftCamera::onTimeout: the start delay has passed; ... *)
LeaveStartStage(c) ==
  /\ Timeout(c) /\ startStage[c]
  /\ startStage' = [startStage EXCEPT ![c] = FALSE]
  /\ UNCHANGED <<cameraVars, played, history>>

(* Fault: the last image of the list is taken for its end. *)
ListEndedEarly(c) == readIndex[c] + 1 >= imageList[c]

ListEnded(c) == readIndex[c] >= imageList[c]

(* ... the next image of the list is sent, unless the file holds none or the
   camera's switch is off by now; ... *)
NextImage(c) ==
  /\ Timeout(c) /\ ~startStage[c] /\ imageList[c] > 0 /\ ~ListEnded(c)
  /\ readIndex' = [readIndex EXCEPT ![c] = @ + 1]
  /\ \/ camEnabled[c] /\ played' = [played EXCEPT ![c].sent = @ + 1]
     \/ played' = [played EXCEPT ![c].skipped = @ + 1]
  /\ UNCHANGED <<startStage, imageList, counterRead, history>>

(* Fault: the list is kept, so that the camera finishes again. *)
KeepList(c) == imageList' = imageList

DropList(c) == imageList' = [imageList EXCEPT ![c] = 0]

(* ... or, at its end, the list is dropped and the camera has finished: the
   check before, if the directory of another has not reached it yet. *)
FinishList(c) ==
  /\ Timeout(c) /\ ~startStage[c] /\ imageList[c] > 0 /\ ListEnded(c)
  /\ DropList(c)
  /\ readIndex' = [readIndex EXCEPT ![c] = 0]
  /\ ReadCounter(c)
  /\ history' = [history EXCEPT !.overlapped = @ \/ c \in Due \/ HasPath(events[c])]
  /\ UNCHANGED <<startStage, played>>

-----------------------------------------------------------------------------
ThreadStep(t) ==
  \/ GoThrough(t) \/ WriteCamera(t) \/ StoreSwitch(t) \/ Conclude(t)
  \/ \E c \in Cameras : SetCamera(t, c)

CameraStep(c) ==
  \/ TimerEvent(c)
  \/ /\ c \in SpotCameras
     /\ \/ LeaveStartStage(c)
        \/ \E n \in 0..MaxImages : SetImageSrcPath(c, n)
        \/ WriteCounter(c) \/ NextImage(c) \/ FinishList(c)

Next ==
  \/ \E mode \in {"Spot", "Infer"} : SetWorkMode(mode)
  \/ \E value \in BOOLEAN : Enable(value) \/ OtherSets(value)
  \/ \E channels \in SUBSET Channels : SpotStart(channels)
  \/ SpotStop \/ Inquire
  \/ ReadSwitch \/ \E c \in SpotCameras : PostPath(c)
  \/ \E t \in Threads : ThreadStep(t)
  \/ \E c \in Cameras : CameraStep(c)

Spec == Init /\ [][Next]_vars

(* The thread of a virtual camera runs: its event loop handles what is queued,
   and an active timer fires.  Commands may never come. *)
FairSpec == Spec /\ \A c \in SpotCameras : WF_vars(CameraStep(c))

-----------------------------------------------------------------------------
TypeOK ==
  /\ runType \in {"Spot", "Infer"} /\ enabled \in BOOLEAN
  /\ camEnabled \in [Cameras -> BOOLEAN]
  /\ setting \in [Threads -> Setting \cup {Idle}]
  /\ detectStatus \in {"On", "Finish", "Stop"} /\ waitFinish \in Int
  /\ events \in [Cameras -> Seq({"start", "stop", "path"})]
  /\ timer \in [Cameras -> BOOLEAN] /\ startStage \in [SpotCameras -> BOOLEAN]
  /\ imageList \in [SpotCameras -> Nat] /\ readIndex \in [SpotCameras -> Nat]
  /\ counterRead \in [SpotCameras -> Int \cup {NoValue}]
  /\ played \in [SpotCameras -> Tally]
  /\ history \in [overlapped : BOOLEAN, crossed : BOOLEAN, astray : SUBSET Cameras,
                 commands : Nat]

(* Although decrements may be lost, the counter never falls below the number of
   cameras that have still to finish, nor does a value on its way to it, also
   when a check is started over one that goes on; unless a camera counted
   itself off for that one after the counter was set, or may yet. *)
CounterCoversUnfinished ==
  ~history.overlapped =>
    /\ waitFinish >= Cardinality(Unfinished)
    /\ \A c \in SpotCameras :
         counterRead[c] # NoValue => counterRead[c] >= Cardinality(Unfinished)

(* When the policy store is told that a check has finished because the counter
   is 0 (TcpClient.cpp:249), every camera of it has been through all the images
   it found: each was sent to be inspected, or passed over because the camera
   was off when its turn came or the file held no image.  Neither lost
   decrements, nor pauses, nor a check started over another end it before,
   unless a camera counted itself off for an earlier check. *)
FinishedMeansChecked ==
  ~history.overlapped /\ waitFinish = 0 =>
    \A c \in SpotCameras :
      /\ c \notin Due /\ ~HasPath(events[c])
      /\ played[c].sent + played[c].skipped = played[c].found

(* When no thread is throwing the switch and the cameras have handled their
   events, a camera runs exactly if the project is enabled and the camera is of
   the run type, whatever commands led there; except for the cameras that two
   threads throwing the switch at once left astray and that no later throw has
   turned. *)
RunsAsEnabled ==
  (\A t \in Threads : ~Throws(t)) =>
    \A c \in Cameras \ history.astray :
      /\ camEnabled[c] = (enabled /\ c \in MembersOf(runType))
      /\ (\A i \in DOMAIN events[c] : events[c][i] = "path") => timer[c] = camEnabled[c]

(* A check that waits for one last camera, which runs and is not yet counting
   itself off, comes to its end: the counter reaches 0, or the camera is
   stopped, or another check is started. *)
LastCameraFinishes ==
  \A c \in SpotCameras :
    (/\ Unfinished = {c} /\ Due = {} /\ waitFinish = 1
     /\ counterRead[c] = NoValue /\ timer[c])
      ~> (waitFinish # 1 \/ ~timer[c] \/ history.overlapped \/ Due # {})
=============================================================================
