------------------------------- MODULE AICtrl -------------------------------
(***************************************************************************)
(* One AI channel: ImageGroup (IasAgent/imageGroup.cpp) collects the       *)
(* images of one packet so that BatchInfer (IasAgent/batchInfer.cpp) can   *)
(* inspect them in one call of the model, and BatchInfer answers every     *)
(* image of a group.                                                       *)
(*                                                                         *)
(* Threads: camera threads post images to ImageGroup's queue; ImageGroup's *)
(* thread handles them and its 10 ms timer and posts groups to             *)
(* BatchInfer's queue; BatchInfer's thread handles the groups and the      *)
(* operations of the policy store.                                         *)
(***************************************************************************)
EXTENDS AIConstants

Listed == {CameraIdList[i] : i \in DOMAIN CameraIdList}

VARIABLES
  online,       \* cameras whose isOnline() holds
  runType,      \* EngineProject::getRunType()
  images,       \* event queue of ImageGroup: images
  groupHash,    \* m_groupHash: objectId -> the group that waits
  groups,       \* event queue of BatchInfer: groups of images
  aiInference,  \* m_aiInference and m_bInitOK: "none", "failed" or "loaded"
  answers,      \* imageIasResultSignal: answers given, oldest first
  history       \* ghost totals: see HistoryInit

vars == <<online, runType, images, groupHash, groups, aiInference, answers, history>>

envVars == <<online, runType>>
groupVars == <<images, groupHash, groups>>
inferVars == <<aiInference, answers>>

-----------------------------------------------------------------------------
(* An image of a packet; a packet has at most one image of a camera. *)
Image == [objectId : Objects, cameraId : Listed]

(* An IMAGE_GROUP_DATA: the packet and the cameras of its images. *)
Group == [objectId : Objects, cameraIds : Seq(Listed)]

(* A group in m_groupHash: age is the time since genTimeStamp, in units of the
   clock, up to MaxInterval. *)
WaitingGroup == [objectId : Objects, cameraIds : Seq(Listed), age : 0..MaxInterval]

Answer == [objectId : Objects, cameraId : Listed, result : {"NG", "OK", "TIMEOUT"}]

(* Ghosts: the images taken and the bounded environment events. *)
History == [taken : SUBSET Image, flaps : 0..MaxFlaps, switches : 0..MaxSwitches,
            operations : 0..MaxOperations]

HistoryInit == [taken |-> {}, flaps |-> 0, switches |-> 0, operations |-> 0]

RangeOf(s) == {s[i] : i \in DOMAIN s}

(* getRealOnlineCameraCount(first, last): the cameras on line whose ids lie
   between the first and the last of the list, listed or not. *)
CameraCount ==
  Cardinality({c \in online : /\ CameraIdList[1] <= c
                              /\ c <= CameraIdList[Len(CameraIdList)]})

(* The cameras that have connected when the first packet comes.  initModel is
   the first event of BatchInfer's thread: the algorithm may have no factory,
   fail to load, or load. *)
Init ==
  /\ online \in SUBSET Cameras /\ runType = "Infer"
  /\ images = << >> /\ groupHash = << >> /\ groups = << >>
  /\ aiInference \in {"none", "failed", "loaded"}
  /\ answers = << >>
  /\ history = HistoryInit

-----------------------------------------------------------------------------
Expired == {o \in DOMAIN groupHash : groupHash[o].age >= MaxInterval}

(* The clock, while a group is younger than MaxInterval. *)
Tick ==
  /\ Expired # DOMAIN groupHash
  /\ groupHash' = [o \in DOMAIN groupHash |->
                     IF o \in Expired THEN groupHash[o]
                     ELSE [groupHash[o] EXCEPT !.age = @ + 1]]
  /\ UNCHANGED <<envVars, images, groups, inferVars, history>>

(* ImageSrcDev::setOnline *)
SetOnline(c) ==
  /\ history.flaps < MaxFlaps
  /\ online' = IF c \in online THEN online \ {c} ELSE online \cup {c}
  /\ history' = [history EXCEPT !.flaps = @ + 1]
  /\ UNCHANGED <<runType, groupVars, inferVars>>

SetRunType ==
  /\ history.switches < MaxSwitches
  /\ runType' = IF runType = "Infer" THEN "Spot" ELSE "Infer"
  /\ history' = [history EXCEPT !.switches = @ + 1]
  /\ UNCHANGED <<online, groupVars, inferVars>>

(* A camera of the list emits imageDataSignal for an image of packet o. *)
SendImage(o, c) ==
  /\ c \in online /\ Cardinality(history.taken) < MaxImages
  /\ LET image == [objectId |-> o, cameraId |-> c] IN
     /\ image \notin history.taken
     /\ images' = Append(images, image)
     /\ history' = [history EXCEPT !.taken = @ \cup {image}]
  /\ UNCHANGED <<envVars, groupHash, groups, inferVars>>

-----------------------------------------------------------------------------
TakeImage ==
  /\ images # << >>
  /\ images' = Tail(images)
  /\ UNCHANGED <<envVars, inferVars, history>>

(* Fault: the group is kept after it has been sent. *)
ForgetNothing(O) == groupHash

(* m_groupHash without the packets of O. *)
Forget(O) == [o \in DOMAIN groupHash \ O |-> groupHash[o]]

(* onImageData, a group of the packet exists: the image is added to it. *)
Grown(image) ==
  [groupHash[image.objectId] EXCEPT !.cameraIds = Append(@, image.cameraId)]

IsComplete(g) == runType = "Infer" /\ Len(g.cameraIds) >= CameraCount

Sent(g) == [objectId |-> g.objectId, cameraIds |-> g.cameraIds]

(* ... and completes it. *)
AddToGroupSends ==
  /\ TakeImage
  /\ LET image == Head(images) IN
     /\ image.objectId \in DOMAIN groupHash
     /\ IsComplete(Grown(image))
     /\ groups' = Append(groups, Sent(Grown(image)))
     /\ groupHash' = Forget({image.objectId})

(* ... and the group still waits. *)
AddToGroupWaits ==
  /\ TakeImage
  /\ LET image == Head(images) IN
     /\ image.objectId \in DOMAIN groupHash
     /\ ~IsComplete(Grown(image))
     /\ groupHash' = [groupHash EXCEPT ![image.objectId] = Grown(image)]
  /\ groups' = groups

NewGroup(image) ==
  [objectId |-> image.objectId, cameraIds |-> <<image.cameraId>>, age |-> 0]

(* Fault: an image of one of two cameras is sent alone. *)
SentAloneOfTwo == ~Batch \/ CameraCount <= 2 \/ runType = "Spot"

SentAlone == ~Batch \/ CameraCount <= 1 \/ runType = "Spot"

(* onImageData, no group of the packet exists: the image is sent alone or
   opens a group. *)
SendAlone ==
  /\ TakeImage
  /\ Head(images).objectId \notin DOMAIN groupHash
  /\ SentAlone
  /\ groups' = Append(groups, Sent(NewGroup(Head(images))))
  /\ groupHash' = groupHash

OpenGroup ==
  /\ TakeImage
  /\ Head(images).objectId \notin DOMAIN groupHash
  /\ ~SentAlone
  /\ groupHash' = [o \in DOMAIN groupHash \cup {Head(images).objectId} |->
                     IF o = Head(images).objectId THEN NewGroup(Head(images))
                     ELSE groupHash[o]]
  /\ groups' = groups

(* The orders in which the loop of onTimeout may meet the packets of O. *)
Orders(O) == {s \in [1..Cardinality(O) -> O] : RangeOf(s) = O}

(* onTimeout sends every expired group, complete or not. *)
OnTimeout ==
  /\ Expired # {}
  /\ \E s \in Orders(Expired) :
       groups' = groups \o [i \in DOMAIN s |-> Sent(groupHash[s[i]])]
  /\ groupHash' = Forget(Expired)
  /\ UNCHANGED <<envVars, images, inferVars, history>>

-----------------------------------------------------------------------------
(* Fault: nothing is answered while no model is loaded. *)
VerdictsOfModel(g) ==
  IF aiInference = "loaded" THEN [DOMAIN g.cameraIds -> {"NG", "OK"}] ELSE {<< >>}

(* The verdicts a call of the model may give on the images of a group. *)
Verdicts(g) ==
  IF aiInference = "loaded" THEN [DOMAIN g.cameraIds -> {"NG", "OK"}]
  ELSE {[i \in DOMAIN g.cameraIds |-> "TIMEOUT"]}

(* BatchInfer::onImageGroup answers the images one by one. *)
OnImageGroup ==
  /\ groups # << >>
  /\ groups' = Tail(groups)
  /\ \E v \in Verdicts(Head(groups)) :
       answers' = answers \o
         [i \in DOMAIN v |-> [objectId |-> Head(groups).objectId,
                              cameraId |-> Head(groups).cameraIds[i],
                              result |-> v[i]]]
  /\ UNCHANGED <<envVars, images, groupHash, aiInference, history>>

(* addAiInference: no factory for the component, or load fails or succeeds.  A
   model object that failed to load stays, so a later ADD changes nothing. *)
AddInference ==
  /\ aiInference = "none" /\ history.operations < MaxOperations
  /\ aiInference' \in {"none", "failed", "loaded"}
  /\ history' = [history EXCEPT !.operations = @ + 1]
  /\ UNCHANGED <<envVars, groupVars, answers>>

OnImageData == AddToGroupSends \/ AddToGroupWaits \/ SendAlone \/ OpenGroup

Next ==
  \/ Tick \/ SetRunType
  \/ \E c \in Cameras : SetOnline(c)
  \/ \E o \in Objects, c \in Listed : SendImage(o, c)
  \/ AddToGroupSends \/ AddToGroupWaits \/ SendAlone \/ OpenGroup
  \/ OnTimeout
  \/ OnImageGroup
  \/ AddInference

Spec == Init /\ [][Next]_vars

(* The clock, both event loops and the timer go on. *)
FairSpec ==
  Spec /\ WF_vars(Tick) /\ WF_vars(OnImageData) /\ WF_vars(OnTimeout)
       /\ WF_vars(OnImageGroup)

-----------------------------------------------------------------------------
(* Type invariant. *)
TypeOK ==
  /\ online \subseteq Cameras /\ runType \in {"Infer", "Spot"}
  /\ images \in Seq(Image)
  /\ DOMAIN groupHash \subseteq Objects
  /\ \A o \in DOMAIN groupHash : groupHash[o] \in WaitingGroup
  /\ groups \in Seq(Group)
  /\ aiInference \in {"none", "failed", "loaded"}
  /\ answers \in Seq(Answer)
  /\ history \in History

(* The images of a group. *)
ImagesOf(g) == {[objectId |-> g.objectId, cameraId |-> g.cameraIds[i]] :
                  i \in DOMAIN g.cameraIds}

AnsweredImage(a) == [objectId |-> a.objectId, cameraId |-> a.cameraId]

Answered == {AnsweredImage(answers[i]) : i \in DOMAIN answers}

(* The images that onImageData has handled, wherever they are. *)
Handled ==
  Answered \cup (UNION {ImagesOf(groupHash[o]) : o \in DOMAIN groupHash})
           \cup (UNION {ImagesOf(groups[k]) : k \in DOMAIN groups})

(* The number of times an image is in groups, in answers or in the queue. *)
Occurrences(g, image) ==
  IF g.objectId = image.objectId
  THEN Cardinality({i \in DOMAIN g.cameraIds : g.cameraIds[i] = image.cameraId})
  ELSE 0

Places(image) ==
  {<<"images", i>> : i \in {j \in DOMAIN images : images[j] = image}}
  \cup {<<"groupHash", o>> :
          o \in {p \in DOMAIN groupHash : Occurrences(groupHash[p], image) > 0}}
  \cup {<<"groups", k>> : k \in {j \in DOMAIN groups : Occurrences(groups[j], image) > 0}}
  \cup {<<"answers", i>> : i \in {j \in DOMAIN answers : AnsweredImage(answers[j]) = image}}

(* Conservation: through queues, groups, timeouts, cameras that come and go and
   changes of the run type, every image taken is in exactly one place, once in
   its group, and is answered at most once as an image of its own packet;
   nothing else is answered. *)
NoImageLostOrDoubled ==
  /\ Handled \subseteq history.taken
  /\ \A image \in history.taken :
       /\ Cardinality(Places(image)) = 1
       /\ \A o \in DOMAIN groupHash : Occurrences(groupHash[o], image) <= 1
       /\ \A k \in DOMAIN groups : Occurrences(groups[k], image) <= 1

(* Grouping: as long as no camera connects or disconnects, a group sent before
   its time in inspection mode holds an image of every camera of the channel
   that is on line: a packet is not torn into two calls of the model.  (A camera
   that leaves makes the count reach the size of a group that still lacks an
   image of another camera.) *)
SentTogether ==
  [][Len(groups') > Len(groups) /\ history.flaps = 0 /\ Batch /\ runType = "Infer"
     => LET g == groups'[Len(groups')] IN
        \/ g.objectId \in Expired
        \/ online \cap Listed \subseteq RangeOf(g.cameraIds)]_vars

(* Liveness: every image is eventually answered, whether or not its packet gets
   complete and whether or not the model has loaded. *)
ImagesAnswered ==
  \A o \in Objects, c \in Listed :
    LET image == [objectId |-> o, cameraId |-> c] IN
    (image \in history.taken) ~> (image \in Answered)

=============================================================================
