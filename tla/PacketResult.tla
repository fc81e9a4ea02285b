---------------------------- MODULE PacketResult ----------------------------
(***************************************************************************)
(* CPacketResult (Multipler/PacketResult.cpp): the images that several     *)
(* cameras take of one cigarette packet are grouped by their capture time, *)
(* the results of the images are collected, and a packet with a defective  *)
(* image is kicked off the line.  The image sources that feed it           *)
(* (ImgSrc/ImageSrcDev.cpp) are modelled up to the call of preInfer, and   *)
(* the image multiplers that answer it as an environment that delivers at  *)
(* most one result for each image, in any order, with any value.           *)
(*                                                                         *)
(* Threads: every camera has an event queue of its own (frames) and waits  *)
(* in a blocking call until its image is in a packet (calls), the          *)
(* packet thread runs preInferAsync, onImageResult and onTimeout one at a  *)
(* time, the TCP thread reads and clears the statistics counters.          *)
(***************************************************************************)
EXTENDS Integers, FiniteSets, Sequences, AbstractObject

CONSTANTS
  Cameras,        \* the real cameras
  Compensation,   \* capture_compensation_ms of each camera
  MaxInterval,    \* m_maxInterval: images of one packet lie this close
  InferTimeout,   \* m_inferTimeout: age at which a packet is given up
  Word,           \* modulus of uint64_t arithmetic
  OriginalRate,   \* m_originalReportRate
  BinningRate,    \* m_binningReportRate
  IoBoard,        \* is the kick executor a PCPUdp IO board?
  StopMode,       \* is the product yansi_stopmode (with an IO board)?
  SpotMode,       \* may the run type be RunType_Spot?
  StartTime,      \* clock value at start-up
  MaxFrames,      \* bound: frames captured
  LastFrame,      \* bound: no frame is captured after this time
  MaxFlaps,       \* bound: cameras connecting or disconnecting
  MaxTime,        \* bound: the clock stops here
  MaxBacklog,     \* bound: frames waiting on one camera's thread
  ImagesPerMs,    \* bound: images named in one ms
  MaxStatistics   \* bound: statistics reports

(* RESULT_NG, and OK for every result that does not reject a packet: RESULT_OK,
   RESULT_TIMEOUT and RESULT_INIT (-1 stored in a uint16_t) are never told
   apart by this component. *)
Results == {"NG", "OK"}

ASSUME ConstantsOK ==
  /\ IsFiniteSet(Cameras)
  /\ Compensation \in [Cameras -> Int]
  /\ MaxInterval \in Nat /\ InferTimeout \in Nat
  /\ Word \in Nat \ {0}
  /\ OriginalRate \in Int /\ BinningRate \in Int
  /\ IoBoard \in BOOLEAN /\ StopMode \in BOOLEAN /\ (StopMode => IoBoard)
  /\ SpotMode \in BOOLEAN
  /\ StartTime \in Nat /\ \A c \in Cameras : StartTime + Compensation[c] >= 0
  /\ MaxFrames \in Nat /\ LastFrame \in Nat /\ MaxFlaps \in Nat
  /\ MaxTime \in Nat
  /\ MaxBacklog \in Nat /\ ImagesPerMs \in Nat /\ MaxStatistics \in Nat

VARIABLES
  now,            \* QDateTime::currentMSecsSinceEpoch()
  enabled,        \* the project's "enabled" attribute
  online,         \* cameras whose m_online is set
  frames,         \* per camera: genTimeStamps queued for sendImageDataAsync
  arrivals,       \* images named in the current millisecond
  calls,          \* named images whose camera thread has not sent them on yet
  packetHash,     \* m_packetHash: objectId -> PacketObject_S
  awaited,        \* images handed to inference, result not delivered yet
  originalIndex,  \* m_originalReportIndex
  binningIndex,   \* m_binningReportIndex
  detectTotal,    \* m_detectTotalCount
  detectNg,       \* m_detectNgCount
  statistic,      \* what a running getStatistic has read, or << >>
  kicks,          \* kicks that doKickFinal asked for, oldest first
  history,        \* ghost totals: see HistoryInit
  imagesTwice,    \* ghost: image names given while already in use
  packetsTwice    \* ghost: packet names given while already in use

vars == <<now, enabled, online, frames, arrivals, calls, packetHash, awaited,
          originalIndex, binningIndex, detectTotal, detectNg, statistic,
          kicks, history, imagesTwice, packetsTwice>>

cameraVars == <<enabled, online, frames>>
nameVars == <<calls, imagesTwice, packetsTwice>>
statVars == <<detectTotal, detectNg, statistic>>
reportVars == <<originalIndex, binningIndex>>

-----------------------------------------------------------------------------
ImageId == [cameraId : Cameras, ms : Nat]

(* A PacketObject_S.  imageCameraIdHash is the set of its imageIds, since an
   imageId contains its camera; imageResultHash is a set of pairs. *)
Packet ==
  [firstImageTime : Int, images : SUBSET ImageId,
   results : SUBSET (ImageId \X Results),
   bReportOrignal : BOOLEAN, bReportBinning : BOOLEAN]

(* An image and its capture time on the way from a camera to the packets. *)
Call == [imageId : ImageId, genTimeStamp : Int]

(* An image in inference.  awaited is a set, as the multiplers keep one record
   of an image name. *)
Awaited == [objectId : Nat, imageId : ImageId,
            bReportOrignal : BOOLEAN, bReportBinning : BOOLEAN]

(* A kick: what doKickFinal knew when it called the executor, and whether the
   executor sent the message. *)
Kick == [objectId : Nat, images : SUBSET ImageId,
         results : SUBSET (ImageId \X Results), online : Nat, sent : BOOLEAN]

(* Ghosts: frames captured and camera flaps, packets opened, packets sampled for the two kinds of report,
   packets judged defective, and the totals the TCP thread has reported. *)
History == [frames : Nat, flaps : Nat, opened : Nat, original : Nat,
            binning : Nat, judgedNg : Nat, reportedTotal : Nat,
            reportedNg : Nat, reports : Nat]

HistoryInit == [frames |-> 0, flaps |-> 0, opened |-> 0, original |-> 0, binning |-> 0, judgedNg |-> 0,
                reportedTotal |-> 0, reportedNg |-> 0, reports |-> 0]

RealOnlineCameraCount == Cardinality(online)

Distance(a, b) == IF a > b THEN a - b ELSE b - a

(* Fault: the operands of the unsigned subtraction are swapped. *)
ElapsedSwapped(t) == (t - now) % Word

(* uint64_t subtraction: huge when the packet lies in the future. *)
Elapsed(t) == (now - t) % Word

(* Fault: the packet is judged but not erased. *)
WithoutNothing(o) == packetHash

Without(o) == [p \in DOMAIN packetHash \ {o} |-> packetHash[p]]

HasNg(p) == \E x \in p.results : x[2] = "NG"

-----------------------------------------------------------------------------
Init ==
  /\ now = StartTime
  /\ enabled = TRUE
  /\ online = Cameras
  /\ frames = [c \in Cameras |-> << >>]
  /\ arrivals = 0
  /\ calls = {}
  /\ packetHash = << >>
  /\ awaited = {}
  /\ originalIndex = 0 /\ binningIndex = 0
  /\ detectTotal = 0 /\ detectNg = 0
  /\ statistic = << >>
  /\ kicks = << >>
  /\ history = HistoryInit
  /\ imagesTwice = {} /\ packetsTwice = {}

(* One millisecond passes. *)
Tick ==
  /\ now < MaxTime
  /\ now' = now + 1
  /\ arrivals' = 0
  /\ UNCHANGED <<cameraVars, nameVars, packetHash, awaited, reportVars,
                 statVars, kicks, history>>

(* ImageSrcDev::sendImageData, called by the camera's SDK thread: the frame
   is dropped unless the camera is enabled, stamped with the compensated
   time, and queued on the camera's own thread. *)
SendImageData(c) ==
  /\ c \in online
  /\ enabled
  /\ history.frames < MaxFrames /\ now <= LastFrame
  /\ Len(frames[c]) < MaxBacklog
  /\ frames' = [frames EXCEPT ![c] = Append(@, now + Compensation[c])]
  /\ history' = [history EXCEPT !.frames = @ + 1]
  /\ UNCHANGED <<now, enabled, online, arrivals, nameVars, packetHash,
                 awaited, reportVars, statVars, kicks>>

(* ImageSrcDev::setOnline: a camera connects or disconnects. *)
SetOnline(c) ==
  /\ history.flaps < MaxFlaps
  /\ online' = IF c \in online THEN online \ {c} ELSE online \cup {c}
  /\ history' = [history EXCEPT !.flaps = @ + 1]
  /\ UNCHANGED <<now, enabled, frames, arrivals, nameVars, packetHash,
                 awaited, reportVars, statVars, kicks>>

(* The Enable command of the policy store: the operator starts or stops the
   cameras. *)
Enable ==
  /\ \E isStart \in BOOLEAN : enabled' = isStart
  /\ UNCHANGED <<now, online, frames, arrivals, nameVars, packetHash,
                 awaited, reportVars, statVars, kicks, history>>

-----------------------------------------------------------------------------
NewImage(c) == [cameraId |-> c, ms |-> now]

ImageInUse(i) ==
  \/ \E d \in calls : d.imageId = i
  \/ \E o \in DOMAIN packetHash : i \in packetHash[o].images
  \/ \E m \in awaited : m.imageId = i
  \/ \E k \in DOMAIN kicks : i \in kicks[k].images

PacketInUse(o) == o \in DOMAIN packetHash \/ \E m \in awaited : m.objectId = o

(* sendImageDataAsync takes the next frame of camera c and names the image
   after the camera and the current millisecond. *)
TakeFrame(c) ==
  /\ frames[c] # << >>
  /\ \A d \in calls : d.imageId.cameraId # c
  /\ arrivals < ImagesPerMs
  /\ frames' = [frames EXCEPT ![c] = Tail(@)]
  /\ arrivals' = arrivals + 1
  /\ calls' = calls \cup {[imageId |-> NewImage(c), genTimeStamp |-> Head(frames[c])]}
  /\ imagesTwice' =
       imagesTwice \cup {i \in {NewImage(c)} : ImageInUse(i)}
  /\ UNCHANGED <<now, enabled, online, packetHash, awaited, reportVars,
                 statVars, kicks, history, packetsTwice>>

(* The camera thread hands the named image of call d to inference as an image
   of packet o, at once in spot mode and otherwise when preInferAsync, which
   runs on the packet thread, has returned. *)
Sent(d) ==
  /\ calls' = calls \ {d}
  /\ UNCHANGED <<now, cameraVars, arrivals, detectNg, statistic, kicks,
                 imagesTwice>>

NamePacket ==
  packetsTwice' = packetsTwice \cup {o \in {now} : PacketInUse(o)}

(* Fault: the flags are those of the next packet. *)
ToInferenceSampled(o, i, p) ==
  awaited' = awaited \cup
    {[objectId |-> o, imageId |-> i,
      bReportOrignal |-> ReportDue(OriginalRate, originalIndex),
      bReportBinning |-> ReportDue(BinningRate, binningIndex)]}

ToInference(o, i, p) ==
  awaited' = awaited \cup {[objectId |-> o, imageId |-> i,
                            bReportOrignal |-> p.bReportOrignal,
                            bReportBinning |-> p.bReportBinning]}

(* sendImageDataAsync in spot mode: the image is in no packet. *)
SpotImage(d) ==
  /\ SpotMode
  /\ Sent(d)
  /\ ToInference(now, d.imageId,
                 [bReportOrignal |-> TRUE, bReportBinning |-> FALSE])
  /\ NamePacket
  /\ UNCHANGED <<packetHash, reportVars, detectTotal, history>>

(* The packets close enough in time to the image. *)
Near(gen) == {o \in DOMAIN packetHash :
                Distance(gen, packetHash[o].firstImageTime) <= MaxInterval}

(* Fault: a second image of a camera joins the packet. *)
HasRoomForAny(p, c) == Cardinality(p.images) < RealOnlineCameraCount

HasRoom(p, c) ==
  /\ \A i \in p.images : i.cameraId # c
  /\ Cardinality(p.images) < RealOnlineCameraCount

(* preInferAsync, return in the loop: the first near packet in the (arbitrary)
   order of the hash has room for an image of this camera. *)
JoinPacket(d) ==
  /\ Sent(d)
  /\ \E o \in Near(d.genTimeStamp) :
       LET p == packetHash[o] IN
       /\ HasRoom(p, d.imageId.cameraId)
       /\ packetHash' =
            [packetHash EXCEPT ![o] = [p EXCEPT !.images = @ \cup {d.imageId}]]
       /\ ToInference(o, d.imageId, p)
  /\ UNCHANGED <<reportVars, detectTotal, history, packetsTwice>>

(* The record preInferAsync opens for an image that joins no packet. *)
NewPacket(d) ==
  [firstImageTime |-> d.genTimeStamp,
   images |-> {d.imageId},
   results |-> {},
   bReportOrignal |-> ReportDue(OriginalRate, originalIndex),
   bReportBinning |-> ReportDue(BinningRate, binningIndex)]

(* preInferAsync after the loop: no packet is near, or the first near one
   ends the search (break) because it already has this camera or is full.
   The new packet is named after the current millisecond; an open packet of
   that name is replaced. *)
OpenPacket(d) ==
  /\ Sent(d)
  /\ \/ Near(d.genTimeStamp) = {}
     \/ \E o \in Near(d.genTimeStamp) : ~HasRoom(packetHash[o], d.imageId.cameraId)
  /\ LET p == NewPacket(d) IN
     /\ packetHash' = [o \in DOMAIN packetHash \cup {now} |->
                         IF o = now THEN p ELSE packetHash[o]]
     /\ ToInference(now, d.imageId, p)
     /\ history' = [history EXCEPT
          !.opened = @ + 1,
          !.original = IF p.bReportOrignal THEN @ + 1 ELSE @,
          !.binning = IF p.bReportBinning THEN @ + 1 ELSE @]
  /\ NamePacket
  /\ detectTotal' = detectTotal + 1
  /\ originalIndex' = NextReportIndex(OriginalRate, originalIndex)
  /\ binningIndex' = NextReportIndex(BinningRate, binningIndex)

-----------------------------------------------------------------------------
(* The kick_enable attribute, which the operator may change at any time; only
   an IO board has it. *)
KickEnable == IF IoBoard THEN BOOLEAN ELSE {TRUE}

(* doKickFinal for packet p named o.  A defective packet is counted and
   kicked; in stop mode the kick also stops the whole project.  kick_enable is
   read twice, by sendData and for the stop. *)
DoKickFinal(o, p, ng) ==
  IF HasNg(p)
  THEN \E sent, stop \in KickEnable :
         /\ detectNg' = ng + 1
         /\ kicks' = Append(kicks,
              [objectId |-> o, images |-> p.images, results |-> p.results,
               online |-> RealOnlineCameraCount, sent |-> sent])
         /\ enabled' = IF StopMode /\ stop THEN FALSE ELSE enabled
  ELSE /\ detectNg' = ng
       /\ UNCHANGED <<kicks, enabled>>

(* The verdict on packet p: m_detectNgCount as onImageResult and onTimeout
   leave it to doKickFinal. *)
NgAfterVerdict(p) == IF HasNg(p) THEN detectNg + 1 ELSE detectNg

RecordVerdict(p) ==
  history' = [history EXCEPT !.judgedNg = IF HasNg(p) THEN @ + 1 ELSE @]

ResultUnchanged == UNCHANGED <<now, online, frames, arrivals, nameVars,
                               reportVars, detectTotal, statistic>>

(* Fault: a new result replaces the results of all the images. *)
WithLastResult(p, i, r) ==
  IF i \in p.images THEN [p EXCEPT !.results = {<<i, r>>}] ELSE p

(* The packet with the result entered, if the image is one of its images. *)
WithResult(p, i, r) ==
  IF i \in p.images
  THEN [p EXCEPT !.results = {x \in @ : x[1] # i} \cup {<<i, r>>}]
  ELSE p

Complete(p) ==
  \/ Cardinality(p.results) >= RealOnlineCameraCount
  \/ Cardinality(p.results) >= Cardinality(p.images)

(* onImageResult, first return: the packet is gone. *)
ResultIgnored(m) ==
  /\ awaited' = awaited \ {m}
  /\ m.objectId \notin DOMAIN packetHash
  /\ UNCHANGED <<now, cameraVars, arrivals, nameVars, packetHash, reportVars,
                 statVars, kicks, history>>

(* onImageResult: the result is stored and the packet waits for more. *)
ResultStored(m, r) ==
  /\ awaited' = awaited \ {m}
  /\ m.objectId \in DOMAIN packetHash
  /\ LET p == WithResult(packetHash[m.objectId], m.imageId, r) IN
     /\ ~Complete(p)
     /\ packetHash' = [packetHash EXCEPT ![m.objectId] = p]
  /\ UNCHANGED <<enabled, detectNg, kicks, history>>
  /\ ResultUnchanged

(* onImageResult: the result completes the packet, which is judged, kicked if
   defective, and removed. *)
ResultConcludes(m, r) ==
  /\ awaited' = awaited \ {m}
  /\ m.objectId \in DOMAIN packetHash
  /\ LET p == WithResult(packetHash[m.objectId], m.imageId, r) IN
     /\ Complete(p)
     /\ DoKickFinal(m.objectId, p, NgAfterVerdict(p))
     /\ RecordVerdict(p)
     /\ packetHash' = Without(m.objectId)
  /\ ResultUnchanged

-----------------------------------------------------------------------------
Expired(o) == Elapsed(packetHash[o].firstImageTime) >= InferTimeout

(* Fault: packets none of whose images was answered are kept. *)
TimeoutDropsAnswered(o) ==
  /\ Expired(o) /\ packetHash[o].results # {}
  /\ packetHash' = Without(o)
  /\ UNCHANGED <<now, cameraVars, arrivals, nameVars, awaited, reportVars,
                 statVars, kicks, history>>

(* onTimeout, the 20 ms timer: at most one expired packet, the first in the
   order of the hash, is given up.  Without any result it is dropped. *)
TimeoutDrops(o) ==
  /\ Expired(o)
  /\ packetHash[o].results = {}
  /\ packetHash' = Without(o)
  /\ UNCHANGED <<now, cameraVars, arrivals, nameVars, awaited, reportVars,
                 statVars, kicks, history>>

(* With results it is judged, but a packet short of images (a packet split in
   two) is not kicked even if it is defective. *)
TimeoutJudges(o) ==
  /\ Expired(o)
  /\ LET p == packetHash[o] IN
     /\ p.results # {}
     /\ RecordVerdict(p)
     /\ IF Cardinality(p.images) >= RealOnlineCameraCount
        THEN DoKickFinal(o, p, NgAfterVerdict(p))
        ELSE /\ detectNg' = NgAfterVerdict(p)
             /\ UNCHANGED <<kicks, enabled>>
  /\ packetHash' = Without(o)
  /\ awaited' = awaited
  /\ ResultUnchanged

OnTimeout == \E o \in DOMAIN packetHash : TimeoutDrops(o) \/ TimeoutJudges(o)

-----------------------------------------------------------------------------
(* getStatistic on the TCP thread: both counters are read (with an IO board the
   defects are those the board has counted, any number) ... *)
GetStatistic ==
  /\ statistic = << >>
  /\ history.reports < MaxStatistics
  /\ \E ng \in (IF IoBoard THEN 0..Len(kicks) ELSE {detectNg}) :
       statistic' = <<detectTotal, ng>>
  /\ UNCHANGED <<now, cameraVars, arrivals, nameVars, packetHash, awaited,
                 reportVars, detectTotal, detectNg, kicks, history>>

(* Fault: only the counter of defects is cleared. *)
ClearNgOnly ==
  /\ statistic # << >>
  /\ detectTotal' = detectTotal /\ detectNg' = 0
  /\ history' = [history EXCEPT !.reportedTotal = @ + statistic[1],
                                !.reportedNg = @ + statistic[2],
                                !.reports = @ + 1]
  /\ statistic' = << >>
  /\ UNCHANGED <<now, cameraVars, arrivals, nameVars, packetHash, awaited,
                 reportVars, kicks>>

(* ... and then cleared; counts made in between are lost. *)
ClearStatistic ==
  /\ statistic # << >>
  /\ detectTotal' = 0
  /\ detectNg' = 0
  /\ history' = [history EXCEPT !.reportedTotal = @ + statistic[1],
                                !.reportedNg = @ + statistic[2],
                                !.reports = @ + 1]
  /\ statistic' = << >>
  /\ UNCHANGED <<now, cameraVars, arrivals, nameVars, packetHash, awaited,
                 reportVars, kicks>>

-----------------------------------------------------------------------------
Next ==
  \/ Tick
  \/ Enable
  \/ \E c \in Cameras : SendImageData(c)
  \/ \E c \in Cameras : SetOnline(c)
  \/ \E c \in Cameras : TakeFrame(c)
  \/ \E d \in calls : SpotImage(d)
  \/ \E d \in calls : JoinPacket(d)
  \/ \E d \in calls : OpenPacket(d)
  \/ \E m \in awaited : ResultIgnored(m)
  \/ \E m \in awaited : \E r \in Results : ResultStored(m, r)
  \/ \E m \in awaited : \E r \in Results : ResultConcludes(m, r)
  \/ \E o \in DOMAIN packetHash : TimeoutDrops(o)
  \/ \E o \in DOMAIN packetHash : TimeoutJudges(o)
  \/ GetStatistic
  \/ ClearStatistic

Spec == Init /\ [][Next]_vars

(* The clock advances and the packet thread's timer keeps firing. *)
FairSpec == Spec /\ WF_vars(Tick) /\ WF_vars(OnTimeout)

-----------------------------------------------------------------------------
(* Type invariant: the state PacketObject_S, the counters and the Qt event
   queues can hold. *)
TypeOK ==
  /\ now \in Nat /\ arrivals \in Nat
  /\ enabled \in BOOLEAN
  /\ online \subseteq Cameras
  /\ frames \in [Cameras -> Seq(Int)]
  /\ calls \subseteq Call
  /\ DOMAIN packetHash \subseteq Nat
  /\ \A o \in DOMAIN packetHash : packetHash[o] \in Packet
  /\ awaited \subseteq Awaited
  /\ originalIndex \in Nat /\ binningIndex \in Nat
  /\ detectTotal \in Nat /\ detectNg \in Nat
  /\ statistic \in {<< >>} \cup (Nat \X Nat)
  /\ kicks \in Seq(Kick)
  /\ history \in History
  /\ imagesTwice \subseteq ImageId /\ packetsTwice \subseteq Nat

(* Grouping (preInferAsync): however frames of several cameras interleave, an
   open packet holds at most one image of each camera, only results of its
   own images, and at most one result for each of them. *)
PacketsWellFormed ==
  \A o \in DOMAIN packetHash :
    LET p == packetHash[o] IN
    /\ \A i, j \in p.images : i.cameraId = j.cameraId => i = j
    /\ \A x \in p.results : x[1] \in p.images
    /\ \A x, y \in p.results : x[1] = y[1] => x = y

(* Sampling (orginalReport, binningReport): of every r packets opened in a row
   exactly one is sampled for reporting. *)
ReportSampling ==
  /\ OriginalRate > 0 =>
       history.opened = OriginalRate * history.original + originalIndex
  /\ BinningRate > 0 =>
       history.opened = BinningRate * history.binning + binningIndex
  /\ originalIndex < OriginalRate \/ originalIndex = 0
  /\ binningIndex < BinningRate \/ binningIndex = 0

(* Sampling (preInferAsync, sendImageDataAsync): all the images of a packet
   that wait for inference agree with each other and with the packet, as long
   as it is open, on whether they are reported, however many packets were
   opened between them.  Images of several packets, or of none, that were
   named alike in one millisecond may differ. *)
SampledAlike ==
  \A m \in awaited : m.objectId \notin packetsTwice =>
    LET Alike(p) == /\ p.bReportOrignal = m.bReportOrignal
                    /\ p.bReportBinning = m.bReportBinning IN
    /\ \A n \in awaited : n.objectId = m.objectId => Alike(n)
    /\ m.objectId \in DOMAIN packetHash => Alike(packetHash[m.objectId])

(* Naming (sendImageDataAsync, preInferAsync): an image in inference whose
   packet is open is an image of that packet, so that its result, however
   late, is never entered into or counted against another packet, unless two
   packets, or a packet and an image in spot mode, were given the name of the
   packet in one millisecond. *)
AwaitedImagesKnown ==
  \A m \in awaited :
    m.objectId \in DOMAIN packetHash \ packetsTwice =>
      m.imageId \in packetHash[m.objectId].images

(* Kicking (onImageResult, onTimeout, doKickFinal): a packet is kicked only
   for a defect found in one of its own images, and no image takes part in
   two kicks, whether through two open packets or through a packet that is
   judged again after its kick, except images that were given one name. *)
KickSound ==
  \A k \in DOMAIN kicks :
    /\ \E x \in kicks[k].results : x[1] \in kicks[k].images /\ x[2] = "NG"
    /\ \A o \in DOMAIN packetHash :
         packetHash[o].images \cap kicks[k].images \subseteq imagesTwice
    /\ \A j \in DOMAIN kicks :
         j # k => kicks[j].images \cap kicks[k].images \subseteq imagesTwice

(* A defect that has been entered into a packet is never forgotten: every step
   keeps the packet and its defect, or kicks it, or is the timeout of a packet
   with fewer images than cameras on line.  Two collisions of names break this:
   the result of a second image of the same name replaces the first, and a
   packet is replaced by one opened in the same millisecond. *)
DefectKept(o, i) ==
  /\ o \in DOMAIN packetHash'
  /\ packetHash[o].images \subseteq packetHash'[o].images
  /\ <<i, "NG">> \in packetHash'[o].results

DefectKicked(o) ==
  Len(kicks') = Len(kicks) + 1 /\ kicks'[Len(kicks')].objectId = o

DefectOfSplitPacket(o) ==
  Expired(o) /\ ~ Cardinality(packetHash[o].images) >= RealOnlineCameraCount

PacketReplaced(o) ==
  o = now /\ o \in packetsTwice' /\ history'.opened = history.opened + 1

NgNotForgotten ==
  [][\A o \in DOMAIN packetHash : \A i \in packetHash[o].images \ imagesTwice :
       <<i, "NG">> \in packetHash[o].results =>
         \/ DefectKept(o, i) \/ DefectKicked(o) \/ DefectOfSplitPacket(o)
         \/ PacketReplaced(o)]_vars

(* Timeouts (sendImageData, onTimeout): the timer gives up a packet only when
   InferTimeout ms have really passed since its first image.  The unsigned
   difference of onTimeout is small enough only while no capture time lies in
   the future, which negative compensations guarantee. *)
NoPacketDroppedEarly ==
  [][\A o \in DOMAIN packetHash :
       o \notin DOMAIN packetHash' /\ awaited' = awaited =>
         now - packetHash[o].firstImageTime >= InferTimeout]_vars

(* Statistics (getStatistic against the packet thread): a packet is reported
   at most once, and without an IO board the defect count is bounded by what
   onImageResult and onTimeout count (judgedNg) plus what doKickFinal counts
   (kicks). *)
StatisticsNeverExceed ==
  /\ history.reportedTotal + detectTotal <= history.opened
  /\ ~IoBoard =>
       history.reportedNg + detectNg <= history.judgedNg + Len(kicks)

(* Liveness (the 20 ms timer): every packet is eventually removed, even if
   none of its images is ever answered. *)
PacketsReclaimed ==
  \A o \in 0..MaxTime :
    (o \in DOMAIN packetHash) ~> (o \notin DOMAIN packetHash)

-----------------------------------------------------------------------------
(* The inductive invariant behind AwaitedImagesKnown, KickSound and
   NgNotForgotten.  An image whose name was given once is in nothing while its
   camera waits for preInfer ... *)
CallsAreNew ==
  /\ \A d, e \in calls : d.imageId.cameraId = e.imageId.cameraId => d = e
  /\ \A d \in calls : d.imageId \notin imagesTwice =>
       /\ \A o \in DOMAIN packetHash : d.imageId \notin packetHash[o].images
       /\ \A m \in awaited : m.imageId # d.imageId
       /\ \A k \in DOMAIN kicks : d.imageId \notin kicks[k].images

(* ... afterwards it is in one packet, and is awaited at most once and has no
   result until then. *)
PacketsDisjoint ==
  \A o, q \in DOMAIN packetHash :
    o # q => packetHash[o].images \cap packetHash[q].images \subseteq imagesTwice

AwaitedOnce ==
  \A m \in awaited : m.imageId \notin imagesTwice =>
    /\ \A n \in awaited : m.imageId = n.imageId => m = n
    /\ \A o \in DOMAIN packetHash :
         \A x \in packetHash[o].results : x[1] # m.imageId

KickInvariant ==
  /\ TypeOK /\ PacketsWellFormed /\ CallsAreNew /\ PacketsDisjoint
  /\ AwaitedImagesKnown /\ AwaitedOnce /\ KickSound

-----------------------------------------------------------------------------
(* The images of a packet that has not ended or was kicked, and the defective ones. *)
Outline(p) ==
  [images |-> p.images, defects |-> {i \in p.images : <<i, "NG">> \in p.results}]

OpenPackets == [o \in DOMAIN packetHash |-> Outline(packetHash[o])]
KickedPackets == [k \in DOMAIN kicks |-> Outline(kicks[k])]

Kicking == INSTANCE Rejection
             WITH open <- OpenPackets, rejected <- KickedPackets,
                  cameras <- RealOnlineCameraCount,
                  clock <- now, reused <- imagesTwice

(* The packets keep the promise of Rejection (preInferAsync, onImageResult,
   onTimeout): whatever the order of images, results and timeouts, an image is in
   one packet, no defect found in it is forgotten, a packet ends once, kicked only
   for a defect of its own, and always for one unless it is short of images.
   Images of one name and packets opened in one millisecond are the exceptions
   Rejection states. *)
KicksTheDefective == Kicking!Spec

=============================================================================
